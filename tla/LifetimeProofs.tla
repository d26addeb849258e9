---------------------------- MODULE LifetimeProofs ----------------------------
(***************************************************************************)
(* That clients that are activated one at a time share one object per      *)
(* file, that it is registered just as long as somebody holds it, that the *)
(* file keeps up with it, and that all of it implements module TokenFile,  *)
(* for every set of calls, objects and tokens.                             *)
(***************************************************************************)
EXTENDS Lifetime, TLAPS

Busy(c) == binding[c] \in {"activating", "loading"}
Holds(c, role, o) == <<c, role, o>> \in conns

StateTypes ==
  /\ binding \in [Calls -> {"unbound", "activating", "loading", "bound"}]
  /\ exists \in [Objects -> {"free", "created", "loaded"}]
  /\ m_lCookieRegister \in [Objects -> Objects \cup {NULL}]
  /\ rot \subseteq Objects

\* Who has no pointer yet, and who may have one to which object.
Binding ==
  /\ \A c \in Calls, o \in Objects :
       Holds(c, "complete", o) => binding[c] \in {"loading", "bound"}
  /\ \A c \in Calls, o, p \in Objects :
       Holds(c, "complete", o) /\ Holds(c, "complete", p) => o = p
  /\ \A c \in Calls, role \in Roles, o \in Objects : Holds(c, role, o) => exists[o] # "free"

\* An object that was created and not loaded yet is the business of one client.
Loading ==
  /\ \A c \in Calls, o \in Objects : Holds(c, "renewer", o) => exists[o] = "loaded"
  /\ \A o \in Objects :
       exists[o] = "created" => \E c \in Calls : Holds(c, "complete", o)
  /\ \A c \in Calls, o \in Objects :
       exists[o] = "created" /\ Holds(c, "complete", o) => binding[c] = "loading"

\* Nobody activates an object while one is registered, and one client at a time.
Exclusive ==
  /\ \A c \in Calls : Busy(c) => rot = {}
  /\ \A c, d \in Calls : Busy(c) /\ Busy(d) => c = d

Registered ==
  /\ \A o \in Objects : o \in rot <=> exists[o] = "loaded"
  /\ \A o \in rot : m_lCookieRegister[o] = o /\ Connected(o, conns)
  /\ \A o, p \in rot : o = p

LifetimeInv == StateTypes /\ Binding /\ Loading /\ Exclusive /\ Registered

-----------------------------------------------------------------------------
LEMMA InitInv == Init => LifetimeInv
  BY DEF Init, LifetimeInv, StateTypes, Binding, Loading, Exclusive, Registered,
         Holds, Busy, Connected

LEMMA FindRunningStep ==
  ASSUME LifetimeInv, NEW c \in Calls, FindRunning(c)
  PROVE  LifetimeInv'
  <1>1. PICK o \in rot : conns' = conns \cup {<<c, "complete", o>>}
    BY DEF FindRunning
  <1>2. o \in Objects /\ exists[o] = "loaded" /\ rot # {} /\ binding[c] = "unbound"
    BY DEF LifetimeInv, StateTypes, Registered, FindRunning
  <1>3. binding' = [binding EXCEPT ![c] = "bound"]
    BY DEF FindRunning, Goto
  <1>4. UNCHANGED <<rot, exists, m_lCookieRegister>>
    BY DEF FindRunning, objectVars
  <1>5. StateTypes'
    BY <1>3, <1>4 DEF LifetimeInv, StateTypes
  <1>6. Binding'
    BY <1>1, <1>2, <1>3, <1>4 DEF LifetimeInv, StateTypes, Binding, Holds
  <1>7. Loading'
    BY <1>1, <1>2, <1>3, <1>4 DEF LifetimeInv, StateTypes, Binding, Loading, Holds
  <1>8. Exclusive'
    BY <1>2, <1>3, <1>4 DEF LifetimeInv, StateTypes, Exclusive, Busy
  <1>9. Registered'
    BY <1>1, <1>2, <1>4 DEF LifetimeInv, StateTypes, Registered, Connected
  <1> QED
    BY <1>5, <1>6, <1>7, <1>8, <1>9 DEF LifetimeInv

\* A client that holds no pointer starts to activate, or gives up.
LEMMA FindNoneStep ==
  ASSUME LifetimeInv, SerialActivation, NEW c \in Calls, FindNone(c)
  PROVE  LifetimeInv'
  <1>1. binding' = [binding EXCEPT ![c] = "activating"] /\ binding[c] = "unbound" /\ rot = {}
    BY DEF FindNone, Goto
  <1>2. \A d \in Calls : ~Busy(d)
    BY DEF FindNone, Busy
  <1>3. UNCHANGED <<rot, conns, exists, m_lCookieRegister>>
    BY DEF FindNone, objectVars
  <1>4. StateTypes' /\ Registered'
    BY <1>1, <1>3 DEF LifetimeInv, StateTypes, Registered, Connected
  <1>5. Binding'
    BY <1>1, <1>3 DEF LifetimeInv, StateTypes, Binding, Holds
  <1>6. Loading'
    BY <1>1, <1>3 DEF LifetimeInv, StateTypes, Loading, Holds
  <1>7. Exclusive'
    BY <1>1, <1>2, <1>3 DEF LifetimeInv, StateTypes, Exclusive, Busy
  <1> QED
    BY <1>4, <1>5, <1>6, <1>7 DEF LifetimeInv

LEMMA GiveUpStep ==
  ASSUME LifetimeInv, NEW c \in Calls, GiveUp(c)
  PROVE  LifetimeInv'
  <1>1. binding' = [binding EXCEPT ![c] = "unbound"] /\ binding[c] = "activating"
    BY DEF GiveUp, Goto
  <1>2. UNCHANGED <<rot, conns, exists, m_lCookieRegister>>
    BY DEF GiveUp, objectVars
  <1>3. StateTypes' /\ Registered'
    BY <1>1, <1>2 DEF LifetimeInv, StateTypes, Registered, Connected
  <1>4. Binding'
    BY <1>1, <1>2 DEF LifetimeInv, StateTypes, Binding, Holds
  <1>5. Loading'
    BY <1>1, <1>2 DEF LifetimeInv, StateTypes, Loading, Holds
  <1>6. Exclusive'
    BY <1>1, <1>2 DEF LifetimeInv, StateTypes, Exclusive, Busy
  <1> QED
    BY <1>3, <1>4, <1>5, <1>6 DEF LifetimeInv

LEMMA CreateInstanceStep ==
  ASSUME LifetimeInv, NEW c \in Calls, CreateInstance(c)
  PROVE  LifetimeInv'
  <1>1. PICK o \in Objects, garbage \in Objects \cup {NULL} :
          /\ exists[o] = "free"
          /\ exists' = [exists EXCEPT ![o] = "created"]
          /\ m_lCookieRegister' = [m_lCookieRegister EXCEPT ![o] = garbage]
          /\ conns' = conns \cup {<<c, "complete", o>>}
    BY DEF CreateInstance
  <1>2. binding' = [binding EXCEPT ![c] = "loading"] /\ binding[c] = "activating" /\ rot' = rot
    BY DEF CreateInstance, Goto
  <1>3. rot = {}
    BY <1>2 DEF LifetimeInv, Exclusive, Busy
  <1>4. StateTypes'
    BY <1>1, <1>2 DEF LifetimeInv, StateTypes
  <1>5. Binding'
    BY <1>1, <1>2 DEF LifetimeInv, StateTypes, Binding, Holds
  <1>6. Loading'
    BY <1>1, <1>2 DEF LifetimeInv, StateTypes, Binding, Loading, Holds, Roles
  <1>7. Exclusive'
    BY <1>2, <1>3 DEF LifetimeInv, StateTypes, Exclusive, Busy
  <1>8. Registered'
    BY <1>1, <1>2, <1>3 DEF LifetimeInv, StateTypes, Registered
  <1> QED
    BY <1>4, <1>5, <1>6, <1>7, <1>8 DEF LifetimeInv

LEMMA LoadStep ==
  ASSUME LifetimeInv, NEW c \in Calls, NEW o \in Objects, Load(c, o)
  PROVE  LifetimeInv'
  <1>1. /\ binding[c] = "loading" /\ Holds(c, "complete", o)
        /\ binding' = [binding EXCEPT ![c] = "bound"]
        /\ exists' = [exists EXCEPT ![o] = "loaded"]
        /\ rot' = rot \cup {o}
        /\ m_lCookieRegister' = [m_lCookieRegister EXCEPT ![o] = o]
        /\ conns' = conns
    BY DEF Load, Goto, Holds
  <1>2. rot = {} /\ \A d \in Calls : Busy(d) => d = c
    BY <1>1 DEF LifetimeInv, Exclusive, Busy
  <1>3. \A p \in Objects : p # o => exists[p] = "free"
    <2>1. \A p \in Objects : exists[p] # "loaded"
      BY <1>2 DEF LifetimeInv, Registered
    <2>2. ASSUME NEW p \in Objects, exists[p] = "created" PROVE p = o
      BY <1>1, <1>2, <2>2 DEF LifetimeInv, Loading, Binding, Busy
    <2> QED
      BY <2>1, <2>2 DEF LifetimeInv, StateTypes
  <1>4. StateTypes'
    BY <1>1 DEF LifetimeInv, StateTypes
  <1>5. Binding'
    BY <1>1 DEF LifetimeInv, StateTypes, Binding, Holds
  <1>6. Loading'
    BY <1>1, <1>3 DEF LifetimeInv, StateTypes, Loading, Holds
  <1>7. Exclusive'
    BY <1>1, <1>2 DEF LifetimeInv, StateTypes, Exclusive, Busy
  <1>8. Registered'
    <2>1. rot' = {o} /\ exists'[o] = "loaded" /\ m_lCookieRegister'[o] = o
      BY <1>1, <1>2 DEF LifetimeInv, StateTypes
    <2>2. \A p \in Objects : p # o => exists'[p] = "free"
      BY <1>1, <1>3 DEF LifetimeInv, StateTypes
    <2>3. Connected(o, conns')
      BY <1>1 DEF Holds, Connected, Roles
    <2> QED
      BY <2>1, <2>2, <2>3 DEF Registered
  <1> QED
    BY <1>4, <1>5, <1>6, <1>7, <1>8 DEF LifetimeInv

\* One pointer goes; with the last one goes the object.
LEMMA ReleaseKeeps ==
  ASSUME LifetimeInv, NEW c \in Calls, NEW role \in Roles, NEW o \in Objects,
         Holds(c, role, o), ReleaseConnection(c, role, o),
         binding' = IF role = "complete" THEN [binding EXCEPT ![c] = "unbound"] ELSE binding
  PROVE  LifetimeInv'
  <1>1. conns' = conns \ {<<c, role, o>>}
    BY DEF ReleaseConnection
  <1>2. CASE Connected(o, conns')
    <2>1. UNCHANGED <<rot, m_lCookieRegister, exists>>
      BY <1>2 DEF ReleaseConnection, OnReleaseConnection, Destroyed
    <2>2. StateTypes'
      BY <2>1 DEF LifetimeInv, StateTypes
    <2>3. Binding'
      BY <1>1, <2>1 DEF LifetimeInv, StateTypes, Binding, Holds, Roles
    <2>4. ASSUME exists[o] = "created" PROVE FALSE
      <3>1. PICK d \in Calls, r \in Roles : <<d, r, o>> \in conns'
        BY <1>2 DEF Connected
      <3>2. r = "complete" /\ role = "complete"
        BY <1>1, <2>4, <3>1 DEF LifetimeInv, Loading, Holds, Roles
      <3>3. binding[c] = "loading" /\ binding[d] = "loading"
        BY <1>1, <2>4, <3>1, <3>2 DEF LifetimeInv, Loading, Holds
      <3>4. c = d
        BY <3>3 DEF LifetimeInv, Exclusive, Busy
      <3> QED
        BY <1>1, <3>1, <3>2, <3>4
    <2>5. Loading'
      BY <1>1, <2>1, <2>4 DEF LifetimeInv, StateTypes, Binding, Loading, Holds, Roles
    <2>6. Exclusive'
      BY <2>1 DEF LifetimeInv, StateTypes, Exclusive, Busy
    <2>7. Registered'
      <3>1. \A p \in rot : Connected(p, conns')
        BY <1>1, <1>2 DEF LifetimeInv, StateTypes, Registered, Connected
      <3> QED
        BY <2>1, <3>1 DEF LifetimeInv, Registered
    <2> QED
      BY <2>2, <2>3, <2>5, <2>6, <2>7 DEF LifetimeInv
  <1>3. CASE ~Connected(o, conns')
    <2>1. /\ rot' = rot \ {m_lCookieRegister[o]}
          /\ m_lCookieRegister' = [m_lCookieRegister EXCEPT ![o] = NULL]
      BY <1>3 DEF ReleaseConnection, OnReleaseConnection
    <2>2. rot' = {} /\ \A p \in Objects : p # o => exists[p] # "loaded"
      <3>1. CASE exists[o] = "loaded"
        BY <2>1, <3>1 DEF LifetimeInv, StateTypes, Registered
      <3>2. CASE exists[o] = "created"
        <4>1. role = "complete" /\ binding[c] = "loading"
          BY <3>2 DEF LifetimeInv, Loading, Roles
        <4>2. rot = {}
          BY <4>1 DEF LifetimeInv, Exclusive, Busy
        <4> QED
          BY <2>1, <4>2 DEF LifetimeInv, Registered
      <3>3. exists[o] # "free"
        BY DEF LifetimeInv, Binding
      <3> QED
        BY <3>1, <3>2, <3>3 DEF LifetimeInv, StateTypes
    <2>3. exists' = [exists EXCEPT ![o] = "free"]
      BY <1>3, <2>2 DEF ReleaseConnection, Destroyed
    <2>4. \A d \in Calls, r \in Roles : <<d, r, o>> \notin conns'
      BY <1>3 DEF Connected
    <2>5. StateTypes'
      BY <2>1, <2>3 DEF LifetimeInv, StateTypes
    <2>6. Binding'
      BY <1>1, <2>3, <2>4 DEF LifetimeInv, StateTypes, Binding, Holds, Roles
    <2>7. Loading'
      <3>1. \A p \in Objects : exists'[p] # "loaded"
        BY <2>2, <2>3 DEF LifetimeInv, StateTypes
      <3>2. \A p \in Objects, d \in Calls, r \in Roles :
              p # o => (<<d, r, p>> \in conns' <=> <<d, r, p>> \in conns)
        BY <1>1
      <3>3. \A p \in Objects : p # o => exists'[p] = exists[p]
        BY <2>3 DEF LifetimeInv, StateTypes
      <3>4. \A d \in Calls, p \in Objects : ~Holds(d, "renewer", p)'
        BY <2>4, <3>2, <2>2 DEF LifetimeInv, Loading, Holds, Roles
      <3>5. \A p \in Objects :
              exists'[p] = "created" => p # o /\ exists[p] = "created"
        BY <2>3, <3>3 DEF LifetimeInv, StateTypes
      <3>6. \A p \in Objects : exists'[p] = "created" =>
              \E d \in Calls : Holds(d, "complete", p)'
        BY <3>2, <3>5 DEF LifetimeInv, Loading, Holds, Roles
      <3>7. \A d \in Calls, p \in Objects :
              exists'[p] = "created" /\ Holds(d, "complete", p)' => binding'[d] = "loading"
        BY <1>1, <3>5 DEF LifetimeInv, StateTypes, Binding, Loading, Holds
      <3> QED
        BY <3>4, <3>6, <3>7 DEF Loading
    <2>8. Exclusive'
      BY <2>2 DEF LifetimeInv, StateTypes, Exclusive, Busy
    <2>9. Registered'
      BY <2>2, <2>3 DEF LifetimeInv, StateTypes, Registered
    <2> QED
      BY <2>5, <2>6, <2>7, <2>8, <2>9 DEF LifetimeInv
  <1> QED
    BY <1>2, <1>3

LEMMA LockForRenewStep ==
  ASSUME LifetimeInv, NEW c \in Calls, NEW o \in Objects, LockForRenew(c, o)
  PROVE  LifetimeInv'
  <1>1. /\ binding[c] = "bound" /\ Holds(c, "complete", o)
        /\ conns' = conns \cup {<<c, "renewer", o>>}
        /\ UNCHANGED <<binding, rot, exists, m_lCookieRegister>>
    BY DEF LockForRenew, Holds
  <1>2. exists[o] = "loaded"
    BY <1>1 DEF LifetimeInv, StateTypes, Binding, Loading, Roles
  <1>3. StateTypes' /\ Exclusive'
    BY <1>1 DEF LifetimeInv, StateTypes, Exclusive, Busy
  <1>4. Binding'
    BY <1>1, <1>2 DEF LifetimeInv, Binding, Holds
  <1>5. Loading'
    BY <1>1, <1>2 DEF LifetimeInv, Loading, Holds
  <1>6. Registered'
    BY <1>1 DEF LifetimeInv, Registered, Connected
  <1> QED
    BY <1>3, <1>4, <1>5, <1>6 DEF LifetimeInv

LEMMA SurrogateDiesStep ==
  ASSUME SurrogateDies
  PROVE  LifetimeInv'
  BY DEF SurrogateDies, LifetimeInv, StateTypes, Binding, Loading, Exclusive, Registered,
         Holds, Busy

\* What the renew and the stutter leave alone.
LEMMA RenewStep ==
  ASSUME LifetimeInv, UNCHANGED <<binding, rot, conns, exists, m_lCookieRegister>>
  PROVE  LifetimeInv'
  <1>1. StateTypes' /\ Exclusive'
    BY DEF LifetimeInv, StateTypes, Exclusive, Busy
  <1>2. Binding' /\ Loading'
    BY DEF LifetimeInv, Binding, Loading, Holds
  <1>3. Registered'
    BY DEF LifetimeInv, Registered, Connected
  <1> QED
    BY <1>1, <1>2, <1>3 DEF LifetimeInv

LEMMA NextInv ==
  ASSUME LifetimeInv, SerialActivation, [Next]_vars
  PROVE  LifetimeInv'
  <1>1. ASSUME NEW c \in Calls, FindRunning(c) PROVE LifetimeInv'
    BY <1>1, FindRunningStep
  <1>2. ASSUME NEW c \in Calls, FindNone(c) PROVE LifetimeInv'
    BY <1>2, FindNoneStep
  <1>3. ASSUME NEW c \in Calls, CreateInstance(c) PROVE LifetimeInv'
    BY <1>3, CreateInstanceStep
  <1>4. ASSUME NEW c \in Calls, GiveUp(c) PROVE LifetimeInv'
    BY <1>4, GiveUpStep
  <1>5. ASSUME NEW c \in Calls, NEW o \in Objects, Load(c, o) PROVE LifetimeInv'
    BY <1>5, LoadStep
  <1>6. ASSUME NEW c \in Calls, NEW o \in Objects, LoadFails(c, o) PROVE LifetimeInv'
    BY <1>6, ReleaseKeeps DEF LoadFails, Goto, Holds, Roles
  <1>7. ASSUME NEW c \in Calls, NEW o \in Objects, LockForRenew(c, o) PROVE LifetimeInv'
    BY <1>7, LockForRenewStep
  <1>8. ASSUME NEW c \in Calls, NEW o \in Objects, UnLockFromRenew(c, o) PROVE LifetimeInv'
    BY <1>8, RenewStep DEF UnLockFromRenew
  <1>9. ASSUME NEW c \in Calls, NEW o \in Objects, NEW role \in Roles, Release(c, role, o)
        PROVE  LifetimeInv'
    BY <1>9, ReleaseKeeps DEF Release, Goto, Holds
  <1>10. ASSUME NEW o \in Objects, SendRenew(o) \/ RenewAnswer(o) PROVE LifetimeInv'
    BY <1>10, RenewStep DEF SendRenew, RenewAnswer, RenewAnswered
  <1>11. CASE Write \/ UnLockReturn
    BY <1>11, RenewStep DEF Write, UnLockReturn, objectVars
  <1>12. CASE SurrogateDies
    BY <1>12, SurrogateDiesStep
  <1>13. CASE UNCHANGED vars
    BY <1>13, RenewStep DEF vars, objectVars
  <1> QED
    BY <1>1, <1>2, <1>3, <1>4, <1>5, <1>6, <1>7, <1>8, <1>9, <1>10, <1>11, <1>12, <1>13
       DEF Next

-----------------------------------------------------------------------------
(* The file *)

TokenTypes ==
  /\ file \in TokenPair \cup {NoTokens}
  /\ m_strTokens \in [Objects -> TokenPair \cup {NoTokens}]
  /\ m_spLockForRenew \in [Objects -> Request \cup {NULL}]
  /\ unlocking \in Unlocking \cup {NULL}
  /\ os \in {"good", "failed"}
  /\ \A o \in Objects : exists[o] = "loaded" => m_strTokens[o] \in TokenPair
  /\ \A o \in Objects : m_spLockForRenew[o] # NULL =>
       /\ exists[o] = "loaded"
       /\ m_spLockForRenew[o].status = "200" => m_spLockForRenew[o].pair \in TokenPair

\* A renew that nobody gave up has the file as the object has it, except while
\* it is written, and after its stream failed.
Saving == unlocking # NULL /\ unlocking.phase = "saving"

Saved ==
  /\ unlocking # NULL =>
       /\ m_spLockForRenew[unlocking.object] # NULL
       /\ m_spLockForRenew[unlocking.object].sink # NULL
  /\ \A o \in Objects : exists[o] = "loaded" =>
       \/ Saving
       \/ m_spLockForRenew[o] # NULL /\ m_spLockForRenew[o].sink = NULL
       \/ os = "failed"
       \/ file = m_strTokens[o]

FileInv == TokenTypes /\ Saved

LEMMA InitFile == Init => FileInv
  BY DEF Init, FileInv, TokenTypes, Saved

\* Binding up to Load, which touches no loaded object.
LEMMA BindFile ==
  ASSUME FileInv, UNCHANGED <<file, m_strTokens, m_spLockForRenew, unlocking, os>>,
         \A o \in Objects : exists'[o] = "loaded" <=> exists[o] = "loaded"
  PROVE  FileInv'
  BY DEF FileInv, TokenTypes, Saved, Saving

LEMMA LoadFile ==
  ASSUME LifetimeInv, LifetimeInv', FileInv, NEW c \in Calls, NEW o \in Objects, Load(c, o)
  PROVE  FileInv'
  <1>1. /\ file \in TokenPair /\ unlocking = NULL
        /\ exists' = [exists EXCEPT ![o] = "loaded"]
        /\ m_strTokens' = [m_strTokens EXCEPT ![o] = file]
        /\ os' = "good"
        /\ UNCHANGED <<file, m_spLockForRenew, unlocking>>
    BY DEF Load, Idle, FileInv, TokenTypes
  <1>2. TokenTypes'
    BY <1>1 DEF FileInv, TokenTypes, LifetimeInv, StateTypes
  <1>3. \A p \in Objects : exists'[p] = "loaded" => p = o
    BY <1>1 DEF LifetimeInv, StateTypes, Registered
  <1>4. Saved'
    BY <1>1, <1>3 DEF FileInv, TokenTypes, Saved
  <1> QED
    BY <1>2, <1>4 DEF FileInv

\* What is left of an object is as it was, or nothing is.
LEMMA ReleaseFile ==
  ASSUME LifetimeInv, FileInv, Idle, NEW c \in Calls, NEW role \in Roles, NEW o \in Objects,
         ReleaseConnection(c, role, o)
  PROVE  FileInv'
  <1>1. UNCHANGED <<file, unlocking, os>> /\ unlocking = NULL
    BY DEF ReleaseConnection, Idle
  <1>2. \/ UNCHANGED <<exists, m_strTokens, m_spLockForRenew>>
        \/ /\ exists' = [exists EXCEPT ![o] = "free"]
           /\ m_strTokens' = [m_strTokens EXCEPT ![o] = NoTokens]
           /\ m_spLockForRenew' = [m_spLockForRenew EXCEPT ![o] = NULL]
    BY DEF ReleaseConnection
  <1>3. TokenTypes'
    BY <1>1, <1>2 DEF FileInv, TokenTypes, LifetimeInv, StateTypes
  <1>4. Saved'
    BY <1>1, <1>2 DEF FileInv, TokenTypes, Saved, Saving, LifetimeInv, StateTypes
  <1> QED
    BY <1>3, <1>4 DEF FileInv

LEMMA LockForRenewFile ==
  ASSUME LifetimeInv, FileInv, NEW c \in Calls, NEW o \in Objects, LockForRenew(c, o)
  PROVE  FileInv'
  <1>1. exists[o] = "loaded"
    BY DEF LockForRenew, LifetimeInv, StateTypes, Binding, Loading, Holds, Roles
  <1> DEFINE new == [body |-> m_strTokens[o].refresh, status |-> "open",
                     pair |-> NoTokens, parsed |-> 3, sink |-> c]
  <1>2. new \in Request /\ new # NULL /\ c # NULL
    BY <1>1, LifetimeAssumption DEF FileInv, TokenTypes, Request, TokenPair
  <1>3. /\ m_spLockForRenew' = [m_spLockForRenew EXCEPT ![o] = new]
        /\ unlocking = NULL /\ m_spLockForRenew[o] = NULL
        /\ UNCHANGED <<file, exists, m_strTokens, unlocking, os>>
    BY DEF LockForRenew, Idle
  <1>4. new.sink = c /\ new.status = "open"
    OBVIOUS
  <1> HIDE DEF new
  <1>5. TokenTypes'
    BY <1>1, <1>2, <1>3, <1>4 DEF FileInv, TokenTypes
  <1>6. Saved'
    BY <1>2, <1>3, <1>4 DEF FileInv, TokenTypes, Saved, Saving
  <1> QED
    BY <1>5, <1>6 DEF FileInv

\* The POST is sent and answered: it keeps its sink.
LEMMA PostFile ==
  ASSUME FileInv, NEW o \in Objects, SendRenew(o) \/ RenewAnswer(o)
  PROVE  FileInv'
  <1>1. PICK xhr \in Request :
          /\ m_spLockForRenew' = [m_spLockForRenew EXCEPT ![o] = xhr]
          /\ xhr.sink = m_spLockForRenew[o].sink
          /\ xhr.status = "200" => xhr.pair \in TokenPair
    <2>1. m_spLockForRenew[o] # NULL /\ m_spLockForRenew[o] \in Request
      BY DEF SendRenew, RenewAnswer, FileInv, TokenTypes
    <2>2. CASE SendRenew(o)
      <3> DEFINE xhr == [m_spLockForRenew[o] EXCEPT !.status = "sent"]
      <3>1. xhr \in Request /\ xhr.sink = m_spLockForRenew[o].sink /\ xhr.status = "sent"
        BY <2>1 DEF Request
      <3>2. m_spLockForRenew' = [m_spLockForRenew EXCEPT ![o] = xhr]
        BY <2>2 DEF SendRenew, FileInv, TokenTypes
      <3> HIDE DEF xhr
      <3> QED
        BY <3>1, <3>2
    <2>3. CASE RenewAnswer(o)
      <3>1. PICK status \in {"200", "400", "other"}, pair \in TokenPair \cup {NoTokens},
                 parsed \in 0..3 :
              RenewAnswered(o, status, pair, parsed) /\ (status = "200" => pair \in TokenPair)
        BY <2>3 DEF RenewAnswer
      <3> DEFINE xhr == [m_spLockForRenew[o] EXCEPT !.status = status, !.pair = pair,
                                                    !.parsed = parsed]
      <3>2. xhr \in Request /\ xhr.sink = m_spLockForRenew[o].sink
            /\ xhr.status = status /\ xhr.pair = pair
        BY <2>1 DEF Request
      <3>3. m_spLockForRenew' = [m_spLockForRenew EXCEPT ![o] = xhr]
        BY <3>1 DEF RenewAnswered, FileInv, TokenTypes
      <3> HIDE DEF xhr
      <3> QED
        BY <3>1, <3>2, <3>3
    <2> QED
      BY <2>2, <2>3
  <1>2. /\ m_spLockForRenew[o] # NULL
        /\ UNCHANGED <<file, exists, m_strTokens, unlocking, os>>
    BY DEF SendRenew, RenewAnswer, RenewAnswered
  <1>3. xhr # NULL
    BY LifetimeAssumption
  <1>4. TokenTypes'
    BY <1>1, <1>2, <1>3 DEF FileInv, TokenTypes
  <1>5. Saved'
    BY <1>1, <1>2, <1>3 DEF FileInv, TokenTypes, Saved, Saving, Unlocking
  <1> QED
    BY <1>4, <1>5 DEF FileInv

LEMMA UnLockFromRenewFile ==
  ASSUME LifetimeInv, FileInv, NEW c \in Calls, NEW o \in Objects, UnLockFromRenew(c, o)
  PROVE  FileInv'
  <1> DEFINE xhr == m_spLockForRenew[o]
  <1>1. /\ xhr # NULL /\ xhr \in Request /\ xhr.sink = c /\ exists[o] = "loaded"
        /\ unlocking = NULL /\ exists' = exists /\ c # NULL
        /\ m_strTokens' = [m_strTokens EXCEPT ![o] = Tokens(o)]
    BY LifetimeAssumption DEF UnLockFromRenew, Idle, FileInv, TokenTypes
  <1>2. Tokens(o) \in TokenPair
    BY <1>1 DEF Tokens, FileInv, TokenTypes, TokenPair, Request
  <1>3. \A p \in Objects : exists[p] = "loaded" => p = o
    BY <1>1 DEF LifetimeInv, Registered
  <1>4. CASE xhr.status = "200" /\ xhr.parsed < 3
    <2> DEFINE dropped == [xhr EXCEPT !.sink = NULL]
    <2>1. /\ dropped \in Request /\ dropped # NULL /\ dropped.sink = NULL
          /\ dropped.pair = xhr.pair
      BY <1>1, LifetimeAssumption DEF Request
    <2>2. /\ m_spLockForRenew' = [m_spLockForRenew EXCEPT ![o] = dropped]
          /\ UNCHANGED <<file, unlocking, os>>
      BY <1>4 DEF UnLockFromRenew, FileInv, TokenTypes
    <2>3. xhr.pair \in TokenPair
      BY <1>1, <1>4 DEF FileInv, TokenTypes
    <2> HIDE DEF dropped
    <2>4. TokenTypes'
      BY <1>1, <1>2, <2>1, <2>2, <2>3 DEF FileInv, TokenTypes
    <2>5. Saved'
      BY <1>1, <1>3, <2>1, <2>2 DEF FileInv, TokenTypes, Saved
    <2> QED
      BY <2>4, <2>5 DEF FileInv
  <1>5. CASE xhr.status = "200" /\ ~(xhr.parsed < 3)
    <2>1. /\ file' \in {file, NoTokens} /\ os' \in {"good", "failed"}
          /\ unlocking' = [object |-> o, phase |-> "saving"]
          /\ m_spLockForRenew' = m_spLockForRenew
      BY <1>5 DEF UnLockFromRenew, OpenStream
    <2>2. unlocking' \in Unlocking /\ unlocking' # NULL
      BY <2>1, LifetimeAssumption DEF Unlocking
    <2>3. TokenTypes'
      BY <1>1, <1>2, <2>1, <2>2 DEF FileInv, TokenTypes
    <2>4. Saved'
      BY <1>1, <2>1, <2>2 DEF Saved, Saving
    <2> QED
      BY <2>3, <2>4 DEF FileInv
  <1>6. CASE xhr.status # "200"
    <2>1. /\ unlocking' = [object |-> o, phase |-> "saved"]
          /\ UNCHANGED <<file, os, m_spLockForRenew>>
      BY <1>6 DEF UnLockFromRenew
    <2>2. unlocking' \in Unlocking /\ unlocking' # NULL
      BY <2>1, LifetimeAssumption DEF Unlocking
    <2>3. m_strTokens' = m_strTokens
      BY <1>1, <1>6 DEF Tokens, FileInv, TokenTypes
    <2>4. TokenTypes'
      BY <1>1, <2>1, <2>2, <2>3 DEF FileInv, TokenTypes
    <2>5. Saved'
      BY <1>1, <2>1, <2>2, <2>3 DEF FileInv, Saved, Saving
    <2> QED
      BY <2>4, <2>5 DEF FileInv
  <1> QED
    BY <1>4, <1>5, <1>6

\* Both steps end with the file and the object of one mind, if the stream is good.
LEMMA WriteFile ==
  ASSUME LifetimeInv, FileInv, Write
  PROVE  FileInv'
  <1>1. PICK o \in Objects :
          /\ unlocking \in Unlocking /\ unlocking.object = o
          /\ m_spLockForRenew[o] # NULL /\ m_spLockForRenew[o].sink # NULL
          /\ exists[o] = "loaded"
    BY DEF Write, FileInv, TokenTypes, Saved, Unlocking
  <1>2. /\ unlocking' \in Unlocking /\ unlocking'.object = o /\ unlocking'.phase = "saved"
    BY <1>1 DEF Write, Unlocking
  <1>3. /\ file' = IF os = "good" THEN m_strTokens[o] ELSE file
        /\ UNCHANGED <<exists, m_strTokens, m_spLockForRenew, os>>
    BY <1>1 DEF Write, objectVars
  <1>4. \A p \in Objects : exists[p] = "loaded" => p = o
    BY <1>1 DEF LifetimeInv, Registered
  <1>5. TokenTypes'
    BY <1>1, <1>2, <1>3 DEF FileInv, TokenTypes
  <1>6. Saved'
    BY <1>1, <1>2, <1>3, <1>4 DEF FileInv, TokenTypes, Saved
  <1> QED
    BY <1>5, <1>6 DEF FileInv

LEMMA UnLockReturnFile ==
  ASSUME LifetimeInv, FileInv, UnLockReturn
  PROVE  FileInv'
  <1>1. PICK o \in Objects :
          /\ unlocking.object = o /\ m_spLockForRenew[o].sink # NULL
          /\ m_spLockForRenew' = [m_spLockForRenew EXCEPT ![o] = NULL]
          /\ exists[o] = "loaded"
    BY DEF UnLockReturn, FileInv, TokenTypes, Saved, Unlocking
  <1>2. ~Saving /\ unlocking' = NULL /\ UNCHANGED <<file, exists, m_strTokens, os>>
    BY DEF UnLockReturn, Saving
  <1>3. \A p \in Objects : exists[p] = "loaded" => p = o
    BY <1>1 DEF LifetimeInv, Registered
  <1>4. TokenTypes'
    BY <1>1, <1>2 DEF FileInv, TokenTypes
  <1>5. Saved'
    BY <1>1, <1>2, <1>3 DEF FileInv, Saved
  <1> QED
    BY <1>4, <1>5 DEF FileInv

LEMMA NextFile ==
  ASSUME LifetimeInv, LifetimeInv', FileInv, [Next]_vars
  PROVE  FileInv'
  <1>1. ASSUME NEW c \in Calls, FindRunning(c) \/ FindNone(c) \/ GiveUp(c) PROVE FileInv'
    BY <1>1, BindFile DEF FindRunning, FindNone, GiveUp, objectVars
  <1>2. ASSUME NEW c \in Calls, CreateInstance(c) PROVE FileInv'
    <2>1. \A o \in Objects : exists'[o] = "loaded" <=> exists[o] = "loaded"
      BY <1>2 DEF CreateInstance, LifetimeInv, StateTypes
    <2> QED
      BY <1>2, <2>1, BindFile DEF CreateInstance
  <1>3. ASSUME NEW c \in Calls, NEW o \in Objects, Load(c, o) PROVE FileInv'
    BY <1>3, LoadFile
  <1>4. ASSUME NEW c \in Calls, NEW o \in Objects, LoadFails(c, o) PROVE FileInv'
    BY <1>4, ReleaseFile DEF LoadFails, Roles
  <1>5. ASSUME NEW c \in Calls, NEW o \in Objects, LockForRenew(c, o) PROVE FileInv'
    BY <1>5, LockForRenewFile
  <1>6. ASSUME NEW c \in Calls, NEW o \in Objects, UnLockFromRenew(c, o) PROVE FileInv'
    BY <1>6, UnLockFromRenewFile
  <1>7. ASSUME NEW c \in Calls, NEW o \in Objects, NEW role \in Roles, Release(c, role, o)
        PROVE  FileInv'
    BY <1>7, ReleaseFile DEF Release
  <1>8. ASSUME NEW o \in Objects, SendRenew(o) \/ RenewAnswer(o) PROVE FileInv'
    BY <1>8, PostFile
  <1>9. CASE Write
    BY <1>9, WriteFile
  <1>10. CASE UnLockReturn
    BY <1>10, UnLockReturnFile
  <1>11. CASE SurrogateDies
    BY <1>11 DEF SurrogateDies, FileInv, TokenTypes, Saved
  <1>12. CASE UNCHANGED vars
    BY <1>12, BindFile DEF vars, objectVars
  <1> QED
    BY <1>1, <1>2, <1>3, <1>4, <1>5, <1>6, <1>7, <1>8, <1>9, <1>10, <1>11, <1>12
       DEF Next

-----------------------------------------------------------------------------
\* What a reader should know of, under the assumption that COM lets one client
\* at a time activate an object.
Shared == SerialActivation => LifetimeInv /\ FileInv

LEMMA SharedInvariant == Spec => []Shared
  <1>1. Init => Shared
    BY InitInv, InitFile DEF Shared
  <1>2. Shared /\ [Next]_vars => Shared'
    BY NextInv, NextFile DEF Shared
  <1> QED
    BY <1>1, <1>2, PTL DEF Spec

\* There is never more than one object for the file (Load, OnReleaseConnection).
THEOREM OneInstance == Spec => [](SerialActivation => AtMostOneInstance)
  <1>1. Shared => (SerialActivation => AtMostOneInstance)
    BY DEF Shared, LifetimeInv, Registered, AtMostOneInstance, Loaded
  <1> QED
    BY <1>1, SharedInvariant, PTL

\* An object is registered exactly while somebody holds it (Load, OnReleaseConnection).
THEOREM Registration == Spec => [](SerialActivation => RegisteredWhileHeld)
  <1>1. Shared => (SerialActivation => RegisteredWhileHeld)
    BY DEF Shared, LifetimeInv, StateTypes, Registered, RegisteredWhileHeld, Loaded
  <1> QED
    BY <1>1, SharedInvariant, PTL

\* An object that is not locked holds what the file holds, unless the stream of its
\* last Save failed (UpdateAccessRefreshToken, Save).
THEOREM Persistence == Spec => [](SerialActivation => FileKeepsUp)
  <1>1. Shared => (SerialActivation => FileKeepsUp)
    <2> SUFFICES ASSUME LifetimeInv, FileInv, NEW o \in Objects, exists[o] = "loaded",
                        m_spLockForRenew[o] = NULL
                 PROVE  file = m_strTokens[o] \/ os = "failed"
      BY DEF Shared, FileKeepsUp, Loaded
    <2>1. ASSUME unlocking # NULL PROVE FALSE
      <3>1. /\ unlocking.object \in Objects /\ exists[unlocking.object] = "loaded"
            /\ m_spLockForRenew[unlocking.object] # NULL
        BY <2>1 DEF FileInv, TokenTypes, Saved, Unlocking
      <3>2. unlocking.object = o
        BY <3>1 DEF LifetimeInv, Registered
      <3> QED
        BY <3>1, <3>2
    <2> QED
      BY <2>1 DEF FileInv, Saved, Saving
  <1> QED
    BY <1>1, SharedInvariant, PTL

-----------------------------------------------------------------------------
(* Binding, saving and the end of the surrogate as single steps *)

ConnTypes == conns \subseteq Calls \X Roles \X Objects

\* What is unlocked has been answered; while the file is written it is empty,
\* if the stream is good, and the answer that is saved is good.
Emptied ==
  unlocking # NULL =>
    LET xhr == m_spLockForRenew[unlocking.object] IN
      /\ xhr.status \in {"200", "400", "other"}
      /\ Saving => xhr.status = "200"
      /\ Saving /\ os = "good" => file = NoTokens

ServerInv == LifetimeInv /\ FileInv /\ ConnTypes /\ Emptied

LEMMA NextConnTypes ==
  ASSUME LifetimeInv, ConnTypes, [Next]_vars
  PROVE  ConnTypes'
  <1>1. ASSUME NEW c \in Calls, FindRunning(c) \/ CreateInstance(c)
        PROVE  ConnTypes'
    BY <1>1 DEF FindRunning, CreateInstance, ConnTypes, Roles, LifetimeInv, StateTypes
  <1>2. ASSUME NEW c \in Calls, NEW o \in Objects, LockForRenew(c, o)
        PROVE  ConnTypes'
    BY <1>2 DEF LockForRenew, ConnTypes, Roles
  <1>3. CASE conns' \subseteq conns
    BY <1>3 DEF ConnTypes
  <1>4. \/ \E c \in Calls : FindRunning(c) \/ CreateInstance(c)
        \/ \E c \in Calls, o \in Objects : LockForRenew(c, o)
        \/ conns' \subseteq conns
    BY DEF Next, vars, FindNone, GiveUp, Load, LoadFails, UnLockFromRenew, Release,
       ReleaseConnection, SendRenew, RenewAnswer, RenewAnswered, Write, UnLockReturn, SurrogateDies
  <1> QED
    BY <1>1, <1>2, <1>3, <1>4

LEMMA NextEmptied ==
  ASSUME LifetimeInv, FileInv, Emptied, [Next]_vars
  PROVE  Emptied'
  <1>1. CASE unlocking # NULL
    <2>1. ASSUME NEW o \in Objects, RenewAnswer(o)
          PROVE  Emptied'
      <3>1. m_spLockForRenew[o].status = "sent"
        BY <2>1 DEF RenewAnswer
      <3>2. PICK answered, pair, parsed : RenewAnswered(o, answered, pair, parsed)
        BY <2>1 DEF RenewAnswer
      <3>3. UNCHANGED <<file, unlocking, os>> /\ o # unlocking.object
        BY <1>1, <3>1, <3>2 DEF RenewAnswered, Emptied
      <3>4. m_spLockForRenew'[unlocking.object] = m_spLockForRenew[unlocking.object]
        BY <1>1, <3>2, <3>3 DEF RenewAnswered, FileInv, TokenTypes, Unlocking
      <3> QED
        BY <1>1, <3>3, <3>4 DEF Emptied, Saving
    <2>2. CASE Write \/ UnLockReturn \/ SurrogateDies
      BY <1>1, <2>2 DEF Write, UnLockReturn, SurrogateDies, objectVars, Emptied, Saving, FileInv,
                        TokenTypes, Unlocking
    <2>3. CASE UNCHANGED <<file, unlocking, os, m_spLockForRenew>>
      BY <1>1, <2>3 DEF Emptied, Saving
    <2>4. /\ \A c \in Calls : ~FindRunning(c) /\ ~CreateInstance(c)
          /\ \A c \in Calls, o \in Objects : ~Load(c, o) /\ ~LoadFails(c, o)
                 /\ ~LockForRenew(c, o) /\ ~UnLockFromRenew(c, o)
          /\ \A c \in Calls, role \in Roles, o \in Objects : ~Release(c, role, o)
          /\ \A o \in Objects : ~SendRenew(o)
      BY <1>1 DEF Idle, FindRunning, CreateInstance, Load, LoadFails, LockForRenew,
                  UnLockFromRenew, Release, SendRenew
    <2>5. \A c \in Calls : FindNone(c) \/ GiveUp(c) => UNCHANGED <<file, unlocking, os, m_spLockForRenew>>
      BY DEF FindNone, GiveUp, objectVars
    <2>6. UNCHANGED vars => UNCHANGED <<file, unlocking, os, m_spLockForRenew>>
      BY DEF vars, objectVars
    <2> QED
      BY <2>1, <2>2, <2>3, <2>4, <2>5, <2>6 DEF Next
  <1>2. CASE unlocking = NULL
    <2>1. ASSUME NEW c \in Calls, NEW o \in Objects, UnLockFromRenew(c, o)
          PROVE  Emptied'
      <3>1. CASE UNCHANGED unlocking
        BY <1>2, <3>1 DEF Emptied
      <3>2. CASE /\ unlocking' = [object |-> o, phase |-> "saving"] /\ UNCHANGED m_spLockForRenew
                 /\ os' = "good" => file' = NoTokens
                 /\ m_spLockForRenew[o].status = "200"
        BY <3>2 DEF Emptied, Saving
      <3>3. CASE /\ unlocking' = [object |-> o, phase |-> "saved"] /\ UNCHANGED m_spLockForRenew
                 /\ m_spLockForRenew[o].status \in {"200", "400", "other"}
        BY <3>3 DEF Emptied, Saving
      <3> QED
        BY <2>1, <3>1, <3>2, <3>3 DEF UnLockFromRenew, OpenStream
    <2>2. CASE UNCHANGED unlocking \/ unlocking' = NULL
      BY <1>2, <2>2 DEF Emptied
    <2>3. \/ \E c \in Calls, o \in Objects : UnLockFromRenew(c, o)
          \/ UNCHANGED unlocking \/ unlocking' = NULL
      BY <1>2 DEF Next, vars, objectVars, FindRunning, FindNone, CreateInstance, GiveUp,
         Load, LoadFails, LockForRenew, Release, ReleaseConnection, SendRenew, RenewAnswer,
         RenewAnswered, Write, UnLockReturn, SurrogateDies
    <2> QED
      BY <2>1, <2>2, <2>3
  <1> QED
    BY <1>1, <1>2

-----------------------------------------------------------------------------
(* What the server is, by the object that is loaded *)

ObjectMapped ==
  \A o \in Objects : exists[o] = "loaded" =>
    Loaded = {o} /\ serverTokens = m_strTokens[o] /\ serverLock = m_spLockForRenew[o]

NothingMapped ==
  (\A o \in Objects : exists[o] # "loaded") =>
    Loaded = {} /\ serverTokens = NoTokens /\ serverLock = NULL /\ serverConn = {}

ConnMapped ==
  /\ serverConn \subseteq Calls \X Roles
  /\ \A c \in Calls, role \in Roles :
       <<c, role>> \in serverConn <=> \E o \in Objects : exists[o] = "loaded" /\ Holds(c, role, o)

Mapped == ObjectMapped /\ NothingMapped /\ ConnMapped

LEMMA Maps == LifetimeInv /\ ConnTypes => Mapped
  <1> SUFFICES ASSUME LifetimeInv, ConnTypes
               PROVE  Mapped
    OBVIOUS
  <1>1. ASSUME NEW o \in Objects, exists[o] = "loaded"
        PROVE  Loaded = {o} /\ serverTokens = m_strTokens[o] /\ serverLock = m_spLockForRenew[o]
    <2>1. Loaded = {o}
      BY <1>1 DEF LifetimeInv, Registered, Loaded
    <2>2. theObject = o
      BY <2>1 DEF theObject
    <2> QED
      BY <2>1, <2>2 DEF serverTokens, serverLock
  <1>2. NothingMapped
    BY DEF NothingMapped, Loaded, serverTokens, serverLock, serverConn
  <1>3. serverConn \subseteq Calls \X Roles
    BY DEF ConnTypes, serverConn
  <1>4. ASSUME NEW c \in Calls, NEW role \in Roles, <<c, role>> \in serverConn
        PROVE  \E o \in Objects : exists[o] = "loaded" /\ Holds(c, role, o)
    <2>1. PICK conn \in conns : conn[3] \in Loaded /\ <<c, role>> = <<conn[1], conn[2]>>
      BY <1>4 DEF serverConn
    <2>2. conn = <<c, role, conn[3]>>
      BY <2>1 DEF ConnTypes
    <2> QED
      BY <2>1, <2>2 DEF Loaded, Holds
  <1>5. ASSUME NEW c \in Calls, NEW role \in Roles, NEW o \in Objects, exists[o] = "loaded",
               Holds(c, role, o)
        PROVE  <<c, role>> \in serverConn
    BY <1>5 DEF serverConn, Holds, Loaded
  <1>6. ObjectMapped /\ ConnMapped
    BY <1>1, <1>3, <1>4, <1>5 DEF ObjectMapped, ConnMapped
  <1> QED
    BY <1>2, <1>6 DEF Mapped

-----------------------------------------------------------------------------
(* The steps *)

ServerSees == Server!TFNext \/ UNCHANGED Server!tfVars

serverVars == <<serverFile, serverTokens, serverLock, serverConn, serverStack>>

LEMMA Stutters ==
  ASSUME UNCHANGED serverVars
  PROVE  ServerSees
  BY DEF serverVars, ServerSees, Server!tfVars, Server!memory

\* Nobody unlocks: the server waits for nobody, and its file is the file.
LEMMA IdleServer ==
  ASSUME Idle
  PROVE  serverStack = << >> /\ serverFile = file
  BY DEF Idle, serverStack, serverFile

\* The server is the same if the loaded object, its pointers, the file and the
\* method that runs are.
LEMMA SameServer ==
  ASSUME UNCHANGED <<file, m_strTokens, m_spLockForRenew, unlocking, os>>,
         Loaded' = Loaded, UNCHANGED serverConn
  PROVE  ServerSees
  <1>1. theObject' = theObject
    BY DEF theObject
  <1>2. UNCHANGED serverVars
    BY <1>1 DEF serverVars, serverFile, serverTokens, serverLock, serverStack
  <1> QED
    BY <1>2, Stutters

\* Another pointer to the loaded object.
LEMMA ConnAdds ==
  ASSUME Mapped, Mapped', NEW c \in Calls, NEW role \in Roles, NEW o \in Objects,
         exists[o] = "loaded", UNCHANGED exists, conns' = conns \cup {<<c, role, o>>}
  PROVE  serverConn' = serverConn \cup {<<c, role>>}
  <1>1. ASSUME NEW d \in Calls, NEW r \in Roles
        PROVE  <<d, r>> \in serverConn' <=> <<d, r>> \in serverConn \/ (d = c /\ r = role)
    <2>1. \A p \in Objects : Holds(d, r, p)' <=> Holds(d, r, p) \/ (d = c /\ r = role /\ p = o)
      BY DEF Holds
    <2> QED
      BY <2>1 DEF Mapped, ConnMapped
  <1>2. serverConn \subseteq Calls \X Roles /\ serverConn' \subseteq Calls \X Roles
    BY DEF Mapped, ConnMapped
  <1> QED
    BY <1>1, <1>2

\* A client binds: to the object it finds, or to one that is activated for it.
LEMMA BindSeen ==
  ASSUME NEW c \in Calls, serverStack = << >>,
         UNCHANGED <<serverFile, serverLock, serverStack>>,
         serverConn' = serverConn \cup {<<c, "complete">>},
         \/ serverConn # {} /\ UNCHANGED serverTokens
         \/ serverConn = {} /\ serverFile # NoTokens /\ serverTokens' = serverFile
  PROVE  ServerSees
  <1>1. Server!GetTokenServer(c, "complete")
    BY DEF Server!GetTokenServer, Server!Dispatchable, Server!Running, Server!Load,
           Server!LoadFails, Server!NoTokens, Server!NoToken, NoTokens, Server!memory
  <1>2. Server!CanRetryImmediately(c)
    BY <1>1 DEF Server!CanRetryImmediately
  <1>3. ~Server!InCall(c)
    BY DEF Server!InCall
  <1> QED
    BY <1>2, <1>3 DEF ServerSees, Server!TFNext, Server!ClientCalls

LEMMA FindRunningSeen ==
  ASSUME ServerInv, Mapped, Mapped', NEW c \in Calls, FindRunning(c)
  PROVE  ServerSees
  <1>1. PICK o \in rot : conns' = conns \cup {<<c, "complete", o>>}
    BY DEF FindRunning
  <1>2. o \in Objects /\ exists[o] = "loaded" /\ Connected(o, conns)
    BY DEF ServerInv, LifetimeInv, StateTypes, Registered
  <1>3. UNCHANGED <<file, exists, m_strTokens, m_spLockForRenew, unlocking>> /\ Idle
    BY DEF FindRunning, objectVars
  <1>4. serverConn' = serverConn \cup {<<c, "complete">>}
    BY <1>1, <1>2, <1>3, ConnAdds DEF Roles
  <1>5. serverConn # {}
    BY <1>2 DEF Connected, Mapped, ConnMapped, Holds
  <1>6. UNCHANGED <<serverFile, serverTokens, serverLock, serverStack>> /\ serverStack = << >>
    BY <1>2, <1>3, IdleServer DEF Mapped, ObjectMapped, serverFile, serverStack
  <1> QED
    BY <1>4, <1>5, <1>6, BindSeen

\* Activation up to Load: nothing is loaded yet.
LEMMA ActivatingSeen ==
  ASSUME ServerInv, Mapped, Mapped', NEW c \in Calls, FindNone(c) \/ CreateInstance(c) \/ GiveUp(c)
  PROVE  ServerSees
  <1>1. CASE FindNone(c) \/ GiveUp(c)
    BY <1>1, SameServer DEF FindNone, GiveUp, objectVars, Loaded, serverConn
  <1>2. CASE CreateInstance(c)
    <2>1. rot = {}
      BY <1>2 DEF CreateInstance, ServerInv, LifetimeInv, Exclusive, Busy
    <2>2. \A o \in Objects : exists[o] # "loaded" /\ exists'[o] # "loaded"
      BY <1>2, <2>1 DEF CreateInstance, ServerInv, LifetimeInv, StateTypes, Registered
    <2>3. UNCHANGED <<serverTokens, serverLock, serverConn>>
      BY <2>2 DEF Mapped, NothingMapped
    <2>4. UNCHANGED <<serverFile, serverStack>>
      BY <1>2, IdleServer DEF CreateInstance, Idle, serverFile, serverStack
    <2> QED
      BY <2>3, <2>4, Stutters DEF serverVars
  <1> QED
    BY <1>1, <1>2

LEMMA LoadSeen ==
  ASSUME ServerInv, LifetimeInv', Mapped, Mapped', NEW c \in Calls, NEW o \in Objects, Load(c, o)
  PROVE  ServerSees
  <1>1. /\ Idle /\ binding[c] = "loading" /\ Holds(c, "complete", o) /\ file # NoTokens
        /\ exists' = [exists EXCEPT ![o] = "loaded"]
        /\ m_strTokens' = [m_strTokens EXCEPT ![o] = file]
        /\ UNCHANGED <<file, conns, m_spLockForRenew, unlocking>>
    BY DEF Load, Holds
  <1>2. rot = {} /\ \A d \in Calls : Busy(d) => d = c
    BY <1>1 DEF ServerInv, LifetimeInv, Exclusive, Busy
  <1>3. /\ \A p \in Objects : exists[p] # "loaded"
        /\ exists'[o] = "loaded" /\ m_strTokens'[o] = file /\ m_spLockForRenew[o] = NULL
    BY <1>1, <1>2 DEF ServerInv, LifetimeInv, StateTypes, Registered, FileInv, TokenTypes
  <1>4. serverTokens' = file /\ serverLock' = NULL
    BY <1>1, <1>3 DEF Mapped, ObjectMapped
  <1>5. serverConn = {} /\ serverLock = NULL
    BY <1>3 DEF Mapped, NothingMapped
  <1>6. serverConn' = {<<c, "complete">>}
    <2>1. \A d \in Calls : Holds(d, "complete", o) <=> d = c
      <3>1. exists[o] = "created"
        BY <1>1, <1>3 DEF ServerInv, LifetimeInv, StateTypes, Binding, Roles
      <3> QED
        BY <1>1, <1>2, <3>1 DEF ServerInv, LifetimeInv, Loading, Busy
    <2>2. \A d \in Calls : ~Holds(d, "renewer", o)
      BY <1>3 DEF ServerInv, LifetimeInv, Loading
    <2>3. \A p \in Objects : exists'[p] = "loaded" <=> p = o
      BY <1>1, <1>3 DEF ServerInv, LifetimeInv, StateTypes
    <2>4. \A d \in Calls, role \in Roles : Holds(d, role, o)' <=> Holds(d, role, o)
      BY <1>1 DEF Holds
    <2>5. \A d \in Calls, role \in Roles : <<d, role>> \in serverConn' <=> d = c /\ role = "complete"
      BY <2>1, <2>2, <2>3, <2>4 DEF Mapped, ConnMapped, Roles
    <2>6. <<c, "complete">> \in serverConn'
      BY <2>5 DEF Roles
    <2>7. ASSUME NEW conn \in serverConn'
          PROVE  conn = <<c, "complete">>
      BY <2>5 DEF Mapped, ConnMapped
    <2> QED
      BY <2>6, <2>7
  <1>7. serverStack = << >> /\ UNCHANGED <<serverFile, serverStack>> /\ serverFile = file
    BY <1>1, IdleServer DEF serverFile, serverStack
  <1> QED
    BY <1>1, <1>4, <1>5, <1>6, <1>7, BindSeen

\* A pointer goes, and with the last one all that the server holds.
LEMMA DropSeen ==
  ASSUME NEW c \in Calls, NEW role \in Roles, serverStack = << >>, <<c, role>> \in serverConn,
         UNCHANGED <<serverFile, serverStack>>, serverConn' = serverConn \ {<<c, role>>},
         IF serverConn' = {} THEN serverTokens' = NoTokens /\ serverLock' = NULL
                             ELSE UNCHANGED <<serverTokens, serverLock>>
  PROVE  ServerSees
  <1>1. Server!ReleaseConnection(c, role)
    BY DEF Server!ReleaseConnection, Server!NoToken, Server!memory, NoTokens
  <1>2. Server!Release(c, role)
    BY <1>1 DEF Server!Release, Server!Dispatchable
  <1>3. ~Server!Unlocking(c)
    BY DEF Server!Unlocking
  <1>4. Server!ClientReleases(c)
    BY <1>2, <1>3 DEF Server!ClientReleases, Roles
  <1> QED
    BY <1>4 DEF ServerSees, Server!TFNext

LEMMA ReleaseSeen ==
  ASSUME ServerInv, LifetimeInv', Mapped, Mapped', Idle, NEW c \in Calls, NEW role \in Roles,
         NEW o \in Objects, Holds(c, role, o), ReleaseConnection(c, role, o)
  PROVE  ServerSees
  <1>1. conns' = conns \ {<<c, role, o>>} /\ UNCHANGED <<file, unlocking>>
    BY DEF ReleaseConnection
  <1>2. serverStack = << >> /\ UNCHANGED <<serverFile, serverStack>>
    BY <1>1, IdleServer DEF serverFile, serverStack, Idle
  <1>3. CASE exists[o] = "loaded"
    <2>1. <<c, role>> \in serverConn
      BY <1>3 DEF Mapped, ConnMapped
    <2>2. \A p \in Objects : exists[p] = "loaded" => p = o
      BY <1>3 DEF ServerInv, LifetimeInv, Registered
    <2>3. \A d \in Calls, r \in Roles :
            Holds(d, r, o)' <=> Holds(d, r, o) /\ ~(d = c /\ r = role)
      BY <1>1 DEF Holds
    <2>4. CASE Connected(o, conns')
      <3>1. UNCHANGED <<exists, m_strTokens, m_spLockForRenew>>
        BY <2>4 DEF ReleaseConnection, Destroyed
      <3>2. \A d \in Calls, r \in Roles :
              <<d, r>> \in serverConn' <=> <<d, r>> \in serverConn /\ ~(d = c /\ r = role)
        BY <1>3, <2>2, <2>3, <3>1 DEF Mapped, ConnMapped
      <3>3. serverConn \subseteq Calls \X Roles /\ serverConn' \subseteq Calls \X Roles
        BY DEF Mapped, ConnMapped
      <3>4. serverConn' = serverConn \ {<<c, role>>}
        BY <3>2, <3>3
      <3>5. serverConn' # {}
        BY <1>3, <2>4, <3>1 DEF Connected, Mapped, ConnMapped, Holds
      <3>6. UNCHANGED <<serverTokens, serverLock>>
        BY <1>3, <3>1 DEF Mapped, ObjectMapped
      <3> QED
        BY <1>2, <2>1, <3>4, <3>5, <3>6, DropSeen
    <2>5. CASE ~Connected(o, conns')
      <3>1. o \notin rot'
        BY <1>3, <2>5 DEF ReleaseConnection, OnReleaseConnection, ServerInv, LifetimeInv, Registered
      <3>2. exists' = [exists EXCEPT ![o] = "free"]
        BY <2>5, <3>1 DEF ReleaseConnection, Destroyed
      <3>3. \A p \in Objects : exists'[p] # "loaded"
        BY <2>2, <3>2 DEF ServerInv, LifetimeInv, StateTypes
      <3>4. serverConn' = {} /\ serverTokens' = NoTokens /\ serverLock' = NULL
        BY <3>3 DEF Mapped, NothingMapped
      <3>5. \A d \in Calls, r \in Roles : Holds(d, r, o) => d = c /\ r = role
        BY <2>3, <2>5 DEF Connected, Holds
      <3>6. ASSUME NEW conn \in serverConn
            PROVE  conn = <<c, role>>
        BY <2>2, <3>5 DEF Mapped, ConnMapped
      <3>7. serverConn' = serverConn \ {<<c, role>>}
        BY <3>4, <3>6
      <3> QED
        BY <1>2, <2>1, <3>4, <3>7, DropSeen
    <2> QED
      BY <2>4, <2>5
  <1>4. CASE exists[o] = "created"
    <2>1. role = "complete" /\ binding[c] = "loading"
      BY <1>4 DEF ServerInv, LifetimeInv, Loading, Roles
    <2>2. \A p \in Objects : exists[p] # "loaded"
      BY <2>1 DEF ServerInv, LifetimeInv, Exclusive, Registered, Busy
    <2>3. \A p \in Objects : exists'[p] # "loaded"
      BY <2>2 DEF ReleaseConnection, ServerInv, LifetimeInv, StateTypes
    <2>4. UNCHANGED <<serverTokens, serverLock, serverConn>>
      BY <2>2, <2>3 DEF Mapped, NothingMapped
    <2> QED
      BY <1>2, <2>4, Stutters DEF serverVars
  <1>5. exists[o] # "free"
    BY DEF ServerInv, LifetimeInv, Binding
  <1> QED
    BY <1>3, <1>4, <1>5 DEF ServerInv, LifetimeInv, StateTypes

LEMMA LockForRenewSeen ==
  ASSUME ServerInv, Mapped, Mapped', NEW c \in Calls, NEW o \in Objects, LockForRenew(c, o)
  PROVE  ServerSees
  <1> DEFINE new == [body |-> m_strTokens[o].refresh, status |-> "open",
                     pair |-> NoTokens, parsed |-> 3, sink |-> c]
  <1>1. /\ Idle /\ Holds(c, "complete", o) /\ binding[c] = "bound"
        /\ m_spLockForRenew[o] = NULL
        /\ m_spLockForRenew' = [m_spLockForRenew EXCEPT ![o] = new]
        /\ conns' = conns \cup {<<c, "renewer", o>>}
        /\ UNCHANGED <<file, exists, m_strTokens, unlocking>>
    BY DEF LockForRenew, Holds
  <1>2. exists[o] = "loaded"
    BY <1>1 DEF ServerInv, LifetimeInv, StateTypes, Binding, Loading, Roles
  <1>3. serverTokens = m_strTokens[o] /\ serverLock = NULL /\ UNCHANGED serverTokens
    BY <1>1, <1>2 DEF Mapped, ObjectMapped
  <1>4. serverLock' = new
    BY <1>1, <1>2 DEF Mapped, ObjectMapped, ServerInv, FileInv, TokenTypes
  <1>5. serverConn' = serverConn \cup {<<c, "renewer">>}
    BY <1>1, <1>2, ConnAdds DEF Roles
  <1>6. <<c, "complete">> \in serverConn
    BY <1>1, <1>2 DEF Mapped, ConnMapped, Roles
  <1>7. serverStack = << >> /\ UNCHANGED <<serverFile, serverStack>>
    BY <1>1, IdleServer DEF serverFile, serverStack
  <1>8. new = Server!NewRequest(c)
    BY <1>3 DEF Server!NewRequest, Server!NoTokens, Server!NoToken, NoTokens
  <1> HIDE DEF new
  <1>9. Server!LockForRenew(c)
    BY <1>3, <1>4, <1>5, <1>7, <1>8 DEF Server!LockForRenew, Server!Dispatchable, Server!memory
  <1>10. Server!MayLock(c) /\ ~Server!InCall(c)
    BY <1>6, <1>7 DEF Server!MayLock, Server!InCall, Server!Deferred
  <1> QED
    BY <1>9, <1>10 DEF ServerSees, Server!TFNext, Server!ClientCalls

\* The POST is sent, and answered.
LEMMA PostSeen ==
  ASSUME ServerInv, Mapped, Mapped', NEW o \in Objects, SendRenew(o) \/ RenewAnswer(o)
  PROVE  ServerSees
  <1>1. /\ m_spLockForRenew[o] # NULL /\ m_spLockForRenew[o] \in Request
        /\ exists[o] = "loaded"
        /\ UNCHANGED <<file, conns, exists, m_strTokens, unlocking, os>>
    BY DEF SendRenew, RenewAnswer, RenewAnswered, ServerInv, FileInv, TokenTypes
  <1>2. serverTokens = m_strTokens[o] /\ serverLock = m_spLockForRenew[o]
    BY <1>1 DEF Mapped, ObjectMapped
  <1>3. /\ UNCHANGED <<serverTokens, serverConn, serverFile>>
        /\ serverLock' = m_spLockForRenew'[o]
    BY <1>1, <1>2 DEF Mapped, ObjectMapped, serverConn, Loaded, serverFile
  <1>4. CASE SendRenew(o)
    <2>1. serverStack = << >> /\ UNCHANGED serverStack
      BY <1>4, IdleServer DEF SendRenew, serverStack, Idle
    <2>2. serverLock' = [serverLock EXCEPT !.status = "sent"]
      BY <1>2, <1>3, <1>4 DEF SendRenew, ServerInv, FileInv, TokenTypes
    <2>3. Server!SendRenew
      BY <1>3, <2>1, <2>2 DEF Server!SendRenew, Server!Dispatchable, Server!memory
    <2>4. PICK c \in Calls : Server!Renewer(c) /\ serverLock.status = "open"
      BY <1>1, <1>2, <1>4 DEF SendRenew, Server!Renewer, Request
    <2>5. ~Server!InCall(c)
      BY <2>1 DEF Server!InCall
    <2> QED
      BY <2>3, <2>4, <2>5 DEF ServerSees, Server!TFNext, Server!ClientCalls
  <1>5. CASE RenewAnswer(o)
    <2>1. unlocking = NULL
      <3>1. ASSUME unlocking # NULL
            PROVE  unlocking.object = o
        BY <1>1, <3>1 DEF ServerInv, LifetimeInv, Registered, FileInv, TokenTypes, Saved, Unlocking
      <3> QED
        BY <1>5, <3>1 DEF RenewAnswer, ServerInv, Emptied
    <2>2. UNCHANGED serverStack
      BY <1>1, <2>1 DEF serverStack
    <2>3. ASSUME NEW answered, NEW pair, NEW parsed, RenewAnswered(o, answered, pair, parsed)
          PROVE  Server!RenewAnswered(answered, pair, parsed)
      <3>1. serverLock' = [serverLock EXCEPT !.status = answered, !.pair = pair, !.parsed = parsed]
        BY <1>2, <1>3, <2>3 DEF RenewAnswered, ServerInv, FileInv, TokenTypes
      <3> QED
        BY <1>3, <2>2, <3>1 DEF Server!RenewAnswered, Server!memory
    <2>4. Server!RenewAnswer
      BY <1>1, <1>2, <1>5, <2>3 DEF RenewAnswer, Server!RenewAnswer, TokenPair, Server!TokenPair,
         NoTokens, Server!NoTokens, Server!NoToken
    <2> QED
      BY <2>4 DEF ServerSees, Server!TFNext
  <1> QED
    BY <1>4, <1>5

\* The answer is taken over; the file is saved as soon as it is emptied.
LEMMA UnLockFromRenewSeen ==
  ASSUME ServerInv, Mapped, Mapped', NEW c \in Calls, NEW o \in Objects, UnLockFromRenew(c, o)
  PROVE  ServerSees
  <1> DEFINE xhr == m_spLockForRenew[o]
  <1>1. /\ Idle /\ xhr # NULL /\ xhr \in Request /\ xhr.sink = c /\ exists[o] = "loaded"
        /\ xhr.status \in Server!Answered /\ Holds(c, "renewer", o)
        /\ m_strTokens' = [m_strTokens EXCEPT ![o] = Tokens(o)]
        /\ m_strTokens[o] \in TokenPair
        /\ UNCHANGED <<conns, exists>>
    BY DEF UnLockFromRenew, Server!Answered, ServerInv, FileInv, TokenTypes, Holds
  <1>2. /\ serverTokens = m_strTokens[o] /\ serverLock = xhr
        /\ serverTokens' = Tokens(o) /\ serverLock' = m_spLockForRenew'[o]
        /\ UNCHANGED serverConn /\ <<c, "renewer">> \in serverConn
    BY <1>1 DEF Mapped, ObjectMapped, ConnMapped, ServerInv, FileInv, TokenTypes, serverConn,
                Loaded, Roles
  <1>3. serverStack = << >> /\ serverFile = file /\ unlocking = NULL
    BY <1>1, IdleServer DEF Idle
  <1>4. Server!MayUnLock(c) /\ ~Server!InCall(c)
    BY <1>1, <1>2, <1>3 DEF Server!MayUnLock, Server!Renewer, Server!InCall
  <1>5. xhr.status # "200" => UNCHANGED serverTokens
    BY <1>2 DEF Tokens
  <1>6. CASE xhr.status = "200" /\ xhr.parsed < 3
    <2>1. serverLock' = [serverLock EXCEPT !.sink = NULL]
      BY <1>2, <1>6 DEF UnLockFromRenew, ServerInv, FileInv, TokenTypes
    <2>2. UNCHANGED <<serverFile, serverStack>>
      BY <1>3, <1>6 DEF UnLockFromRenew, serverFile, serverStack
    <2>3. Server!UpdateAccessRefreshToken(serverLock)
      BY <1>2, <1>6, <2>2 DEF Server!UpdateAccessRefreshToken, Tokens, Request
    <2>4. Server!UnLockFromRenew(c)
      BY <1>2, <1>3, <1>6, <2>1, <2>2, <2>3 DEF Server!UnLockFromRenew, Server!Dispatchable,
         Server!Throws
    <2> QED
      BY <1>4, <2>4 DEF ServerSees, Server!TFNext, Server!ClientCalls
  <1>7. CASE ~(xhr.status = "200" /\ xhr.parsed < 3)
    <2>1. /\ unlocking'.object = o /\ unlocking' # NULL /\ UNCHANGED m_spLockForRenew
          /\ unlocking'.phase = "saving" <=> xhr.status = "200"
          /\ xhr.status # "200" => UNCHANGED file
      <3>1. \A phase \in {"saving", "saved"} : [object |-> o, phase |-> phase] # NULL
        BY LifetimeAssumption DEF Unlocking
      <3> QED
        BY <1>7, <3>1 DEF UnLockFromRenew
    <2>2. UNCHANGED serverLock
      BY <1>2, <2>1
    <2>3. serverStack' = << [method |-> "UnLockFromRenew", caller |-> c,
                             succeeded |-> serverLock.status = "200", callee |-> NULL] >>
      BY <1>1, <1>2, <2>1 DEF serverStack
    <2>4. xhr.status # "200" => UNCHANGED serverFile
      BY <1>3, <2>1 DEF serverFile
    <2>5. xhr.status = "200" => \/ serverFile' = serverTokens'
                                \/ "save" \in Faults /\ serverFile' \in {serverFile, NoTokens}
      <3> SUFFICES ASSUME xhr.status = "200"
                   PROVE  \/ serverFile' = serverTokens'
                          \/ "save" \in Faults /\ serverFile' \in {serverFile, NoTokens}
        OBVIOUS
      <3>1. OpenStream
        BY <1>7 DEF UnLockFromRenew
      <3>2. CASE os' = "good"
        BY <1>1, <1>2, <2>1, <3>2 DEF serverFile, ServerInv, FileInv, TokenTypes
      <3>3. CASE "save" \in Faults /\ os' = "failed" /\ file' \in {file, NoTokens}
        BY <1>3, <3>3 DEF serverFile
      <3> QED
        BY <3>1, <3>2, <3>3 DEF OpenStream
    <2>6. xhr.status = "200" => Server!UpdateAccessRefreshToken(serverLock)
      <3> SUFFICES ASSUME xhr.status = "200"
                   PROVE  Server!UpdateAccessRefreshToken(serverLock)
        OBVIOUS
      <3>1. xhr.parsed = 3 /\ xhr.parsed >= 1 /\ xhr.parsed >= 2
        BY <1>1, <1>7 DEF Request
      <3>2. serverTokens' = [access |-> xhr.pair.access, refresh |-> xhr.pair.refresh]
        BY <1>2, <3>1 DEF Tokens
      <3>3. serverTokens' = [access |-> serverTokens'.access, refresh |-> serverTokens'.refresh]
        BY <3>2
      <3>4. Server!NoTokens = NoTokens
        BY DEF Server!NoTokens, Server!NoToken, NoTokens
      <3>5. Server!Save
        BY <2>5, <3>3, <3>4 DEF Server!Save
      <3> QED
        BY <1>2, <3>1, <3>2, <3>5 DEF Server!UpdateAccessRefreshToken
    <2>7. Server!UnLockFromRenew(c)
      BY <1>2, <1>3, <1>5, <1>7, <2>2, <2>3, <2>4, <2>6 DEF Server!UnLockFromRenew,
         Server!Dispatchable, Server!Throws, Server!memory
    <2> QED
      BY <1>4, <2>7 DEF ServerSees, Server!TFNext, Server!ClientCalls
  <1> QED
    BY <1>6, <1>7

LEMMA WriteSeen ==
  ASSUME ServerInv, Write
  PROVE  ServerSees
  <1>1. unlocking' = [unlocking EXCEPT !.phase = "saved"] /\ unlocking \in Unlocking
    BY DEF Write, ServerInv, FileInv, TokenTypes
  <1>2. unlocking' # NULL /\ unlocking'.object = unlocking.object /\ unlocking'.phase = "saved"
    <2>1. unlocking' \in Unlocking
      BY <1>1 DEF Unlocking
    <2> QED
      BY <1>1, <2>1, LifetimeAssumption DEF Unlocking
  <1>3. UNCHANGED serverFile
    BY <1>2 DEF Write, serverFile
  <1>4. UNCHANGED <<serverTokens, serverLock, serverConn>>
    BY DEF Write, objectVars, serverTokens, serverLock, serverConn, Loaded, theObject
  <1>5. UNCHANGED serverStack
    BY <1>2 DEF Write, objectVars, serverStack
  <1> QED
    BY <1>3, <1>4, <1>5, Stutters DEF serverVars

LEMMA UnLockReturnSeen ==
  ASSUME ServerInv, Mapped, Mapped', UnLockReturn
  PROVE  ServerSees
  <1>1. PICK o \in Objects :
          /\ unlocking.object = o /\ exists[o] = "loaded"
          /\ m_spLockForRenew[o] # NULL /\ m_spLockForRenew[o] \in Request
          /\ m_spLockForRenew[o].sink \in Calls
          /\ m_spLockForRenew' = [m_spLockForRenew EXCEPT ![o] = NULL]
    BY DEF UnLockReturn, ServerInv, FileInv, TokenTypes, Saved, Unlocking, Request
  <1>2. /\ unlocking # NULL /\ unlocking.phase = "saved" /\ unlocking' = NULL
        /\ UNCHANGED <<file, conns, exists, m_strTokens>>
    BY DEF UnLockReturn
  <1>3. UNCHANGED <<serverTokens, serverConn, serverFile>> /\ serverLock' = NULL
    BY <1>1, <1>2 DEF Mapped, ObjectMapped, ServerInv, FileInv, TokenTypes, serverConn, Loaded,
                      serverFile
  <1> DEFINE c == m_spLockForRenew[o].sink
  <1>4. /\ serverStack' = << >> /\ Len(serverStack) = 1 /\ serverStack # << >>
        /\ Head(serverStack).method = "UnLockFromRenew" /\ Head(serverStack).caller = c
        /\ Tail(serverStack) = << >>
    BY <1>1, <1>2 DEF serverStack
  <1>5. Server!UnLockReturn(c)
    BY <1>3, <1>4 DEF Server!UnLockReturn, Server!Draining, Server!memory
  <1> QED
    BY <1>1, <1>5 DEF ServerSees, Server!TFNext, Server!ServerSteps

\* The surrogate ends: the file is lost if it was just being written.
LEMMA SurrogateDiesSeen ==
  ASSUME ServerInv, Mapped', SurrogateDies
  PROVE  ServerSees
  <1>1. /\ serverTokens' = NoTokens /\ serverLock' = NULL /\ serverConn' = {}
        /\ serverStack' = << >> /\ serverFile' = file
    BY DEF SurrogateDies, Mapped, NothingMapped, serverStack, serverFile
  <1>2. CASE ~(Saving /\ os = "good")
    <2>1. UNCHANGED serverFile
      BY <1>1, <1>2 DEF serverFile, Saving
    <2> QED
      BY <1>1, <2>1 DEF SurrogateDies, Server!SurrogateDies, Server!NoToken, NoTokens, ServerSees,
         Server!TFNext
  <1>3. CASE Saving /\ os = "good"
    <2>1. /\ file = NoTokens
          /\ m_spLockForRenew[unlocking.object].status = "200"
      BY <1>3 DEF ServerInv, Emptied, Saving
    <2> DEFINE frame == [method |-> "UnLockFromRenew", callee |-> NULL,
                         caller |-> m_spLockForRenew[unlocking.object].sink,
                         succeeded |-> TRUE]
    <2>2. serverStack = <<frame>>
      BY <1>3, <2>1 DEF serverStack, Saving
    <2>3. /\ serverStack # << >> /\ Head(serverStack).callee = NULL
          /\ Head(serverStack).succeeded
      BY <2>2
    <2> QED
      BY <1>1, <2>1, <2>3 DEF SurrogateDies, Server!SurrogateDies, Server!Dispatchable,
         Server!NoToken, Server!NoTokens, NoTokens, ServerSees, Server!TFNext
  <1> QED
    BY <1>2, <1>3

LEMMA NextSees ==
  ASSUME ServerInv, LifetimeInv', Mapped, Mapped', [Next]_vars
  PROVE  ServerSees
  <1>1. ASSUME NEW c \in Calls, NEW o \in Objects, LoadFails(c, o)
        PROVE  ServerSees
    BY <1>1, ReleaseSeen DEF LoadFails, Holds, Roles
  <1>2. ASSUME NEW c \in Calls, NEW o \in Objects, NEW role \in Roles, Release(c, role, o)
        PROVE  ServerSees
    BY <1>2, ReleaseSeen DEF Release, Holds
  <1>3. CASE UNCHANGED vars
    BY <1>3, SameServer DEF vars, objectVars, Loaded, serverConn
  <1> QED
    BY <1>1, <1>2, <1>3, FindRunningSeen, ActivatingSeen, LoadSeen, LockForRenewSeen, PostSeen,
       UnLockFromRenewSeen, WriteSeen, UnLockReturnSeen, SurrogateDiesSeen DEF Next

LEMMA InitServer ==
  ASSUME Init
  PROVE  ServerInv /\ Server!TFInit
  <1>1. ServerInv
    BY InitInv, InitFile DEF ServerInv, Init, ConnTypes, Emptied
  <1>2. NothingMapped /\ serverStack = << >> /\ serverFile = file
    BY <1>1, Maps DEF ServerInv, Mapped, Init, serverStack, serverFile
  <1>3. serverTokens = NoTokens /\ serverLock = NULL /\ serverConn = {}
    BY <1>2 DEF NothingMapped, Init
  <1>4. Server!TFInit
    BY <1>2, <1>3 DEF Init, Server!TFInit, Server!TokenPair, Server!NoTokens, Server!NoToken,
       TokenPair, NoTokens
  <1> QED
    BY <1>1, <1>4

LEMMA ServerInvariance == Spec => [](SerialActivation => ServerInv)
  <1> DEFINE I == SerialActivation => ServerInv
  <1>1. Init => I
    BY InitServer
  <1>2. I /\ [Next]_vars => I'
    BY NextInv, NextFile, NextConnTypes, NextEmptied DEF ServerInv
  <1> QED
    BY <1>1, <1>2, PTL DEF Spec

\* Objects, connections, registrations and the renew stay within their types: what
\* is loaded, and what is saved, is a pair of real tokens (Load, UpdateAccessRefreshToken).
THEOREM TypeCorrect == Spec => [](SerialActivation => TypeOK)
  <1>1. (SerialActivation => ServerInv) => (SerialActivation => TypeOK)
    BY DEF ServerInv, LifetimeInv, StateTypes, FileInv, TokenTypes, ConnTypes, TypeOK
  <1> QED
    BY <1>1, ServerInvariance, PTL

\* Clients that are activated one at a time, with binding, saving and the end of
\* the surrogate in these steps, see the server of module TokenFile, where each
\* of them is a single step (Load, Save, OnReleaseConnection).
THEOREM ImplementsServer ==
  ASSUME SerialActivation
  PROVE  Spec => ServerSpec
  <1>1. Init => Server!TFInit
    BY InitServer
  <1>2. ServerInv /\ ServerInv' /\ [Next]_vars => [Server!TFNext]_(Server!tfVars)
    <2>1. ServerInv => Mapped
      BY Maps DEF ServerInv
    <2>2. ServerInv' => Mapped'
      BY <2>1, PTL
    <2>3. ServerInv' => LifetimeInv'
      BY DEF ServerInv
    <2> QED
      BY <2>1, <2>2, <2>3, NextSees DEF ServerSees
  <1>3. Spec => []ServerInv
    <2>1. (SerialActivation => ServerInv) => ServerInv
      OBVIOUS
    <2> QED
      BY <2>1, ServerInvariance, PTL
  <1> QED
    BY <1>1, <1>2, <1>3, PTL DEF Spec, ServerSpec, Server!TFSpec

=============================================================================
