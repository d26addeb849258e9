-------------------------- MODULE MFCApplicationDlg --------------------------
(***************************************************************************)
(* The MFC sample: a dialog that starts calls, keeps them in a list, and   *)
(* collects them with a timer that looks at the head of the list.  It can  *)
(* be closed while the list is empty, and cancelled at any time.           *)
(*                                                                         *)
(* All calls live in the one process of the dialog.  Its messages are      *)
(* handled between the handlers of the calls: MFC's message filter does    *)
(* not dispatch them while an outgoing COM call is waited for.             *)
(***************************************************************************)
EXTENDS CoAuthServiceCall

VARIABLES m_lstCmd,  \* the calls started and not yet collected
          dialog     \* "open", "closed", or "gone" with calls that are under way

vars == <<tfVars, callVars, serviceVars, m_lstCmd, dialog>>

TypeOK ==
  /\ TFTypeOK
  /\ ServiceTypeOK
  /\ CallTypeOK
  /\ m_lstCmd \in Seq(Calls)
  /\ dialog \in {"open", "closed", "gone"}

Init ==
  /\ TFInit
  /\ tokenFile = [access |-> 1, refresh |-> 1]
  /\ ServiceInit
  /\ CallInit
  /\ m_lstCmd = << >>
  /\ dialog = "open"

-----------------------------------------------------------------------------
Idle == dialog = "open" /\ \A c \in Calls : pc[c] \notin Handling

\* The first part of the handler; the list grows when Init() has returned.
OnBnClickedRunping(c) ==
  /\ Idle
  /\ InitRequest(c)
  /\ UNCHANGED <<m_lstCmd, dialog>>

SendRequest(c) ==
  /\ Send(c)
  /\ m_lstCmd' = IF m_eState[c] = "InitialRequest" THEN Append(m_lstCmd, c) ELSE m_lstCmd
  /\ UNCHANGED dialog

\* The process is gone, with all its calls.
Die ==
  /\ dialog' = "gone"
  /\ pc' = [c \in Calls |-> IF pc[c] \in {"new", "collected"} THEN pc[c] ELSE "dead"]
  /\ UNCHANGED <<tfVars, m_eState, m_bstrAccessToken, m_pRenewTokenAsync, requestVars,
                 serviceVars, m_lstCmd>>

\* TIMER_GARBAGE: collect the head of the list if it has finished.  An
\* exception in Dispose() is handled by nobody.
OnTimer ==
  /\ Idle
  /\ m_lstCmd # << >>
  /\ LET c == Head(m_lstCmd) IN
       /\ m_eState[c] = "Finish"
       /\ IF DisposeThrows(c)
            THEN Die
            ELSE Dispose(c) /\ m_lstCmd' = Tail(m_lstCmd) /\ UNCHANGED dialog

\* Mutant of OnSysCommand: closes with calls in the list.
OnSysCommandAlways ==
  /\ Idle
  /\ dialog' = "closed"
  /\ UNCHANGED <<tfVars, callVars, serviceVars, m_lstCmd>>

\* SC_CLOSE is ignored while calls are in the list.
OnSysCommand ==
  /\ Idle
  /\ m_lstCmd = << >>
  /\ dialog' = "closed"
  /\ UNCHANGED <<tfVars, callVars, serviceVars, m_lstCmd>>

\* Escape: CDialog::OnCancel, which the class does not override, ends the
\* dialog, and InitInstance its process, without a look at the list.
OnCancel == Idle /\ Die

\* An exception of the first open() or send() leaves Init, and nobody catches it.
InitThrows(c) ==
  /\ "init" \in Faults
  /\ pc[c] \in {"loading", "opened"}
  /\ m_eState[c] = "InitialRequest"
  /\ dialog = "open"
  /\ Die

Crash ==
  /\ "crash" \in Faults
  /\ dialog = "open"
  /\ Die

-----------------------------------------------------------------------------
Step(c) ==
  \/ SendRequest(c)
  \/ /\ \/ OnLoading(c)
        \/ Authorized(c)
        \/ OnComplete(c)
        \/ RenewInit(c)
        \/ RenewSend(c)
        \/ RenewComplete(c)
        \/ Drain(c)
        \/ RenewReturn(c)
        \/ DropServer(c)
        \/ ServiceAnswers(c)
     /\ UNCHANGED <<m_lstCmd, dialog>>

TokenEndpoint == Exchange /\ UNCHANGED <<callVars, m_lstCmd, dialog>>
Expire == ExpireToken /\ UNCHANGED <<callVars, m_lstCmd, dialog>>
Revoke == RevokeConsent /\ UNCHANGED <<callVars, m_lstCmd, dialog>>

Terminating == dialog # "open" /\ UNCHANGED vars

Next ==
  \/ \E c \in Calls : OnBnClickedRunping(c) \/ Step(c) \/ InitThrows(c)
  \/ OnTimer
  \/ OnSysCommand
  \/ OnCancel
  \/ Crash
  \/ TokenEndpoint
  \/ Expire
  \/ Revoke
  \/ Terminating

\* As in CallbackoAuth; the garbage timer is set when the dialog opens and
\* never killed.
Fairness == (\A c \in Calls : WF_vars(Step(c))) /\ WF_vars(TokenEndpoint) /\ WF_vars(OnTimer)

Spec == Init /\ [][Next]_vars /\ Fairness

-----------------------------------------------------------------------------
(* Properties *)

\* A call that is collected has nobody left who could call it back: it is not
\* in the queue of the server, not the sink of a POST, and in no activation.
CollectedIsIdle ==
  \A c \in Calls : pc[c] = "collected" =>
    /\ ~Deferred(c) /\ ~Renewer(c)
    /\ \A i \in 1..Len(stack) : c # stack[i].caller /\ c # stack[i].callee

\* The renew is transparent: as long as only the token the calls started with
\* has expired, every call that finishes has succeeded.
TransparentRenew ==
  expired <= 1 => \A c \in Calls : m_eState[c] = "Finish" => notified[c] = <<"onSucceeded">>

\* SC_CLOSE (OnSysCommand) closes the dialog only when every call it started
\* has finished and was collected.
ClosesWhenDone ==
  [][dialog' = "closed" => \A c \in Calls : pc[c] \in {"new", "collected"}]_vars

\* The renew has been given up, and the server stays locked.
RenewAbandoned ==
  /\ m_spLockForRenew # NULL
  /\ \A c \in Calls : Renewer(c) => pc[c] \in {"ended", "collected", "dead"} /\ ~Unlocking(c)

\* Whatever fails, every call that is started reaches Finish, where OnTimer can
\* collect it, unless the process goes first, Continue() failed, or the call is
\* deferred behind a renew that was given up.
EveryCallFinishes ==
  \A c \in Calls :
    pc[c] = "loading" ~> \/ m_eState[c] = "Finish"
                        \/ dialog = "gone"
                        \/ (pc[c] = "ended" /\ m_eState[c] = "RetryOnce")
                        \/ (pc[c] = "queued" /\ RenewAbandoned)

\* The renewer of a call that has finished has made the renew it was created
\* for, so that Dispose() finds the POST it takes the sink off.
RenewerHasRequest ==
  \A c \in Calls : m_eState[c] = "Finish" => m_pRenewTokenAsync[c] # "without"

\* Every step of the composition is a step the server specification allows.
ServerSpec == TFSpec

\* What a call promises its creator (module ServiceCall), as far as safety goes.
started == {c \in Calls : pc[c] # "new"}

Contract == INSTANCE ServiceCall
ContractSafe == Contract!SafeSpec

=============================================================================
