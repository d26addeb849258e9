------------------------------- MODULE MainDlg -------------------------------
(***************************************************************************)
(* The WTL sample: a dialog that starts calls of the ATL library, on a     *)
(* button and, at a rate set with a slider, on a timer.  Its calls live in *)
(* the one process of the dialog, the others each in a process of its own. *)
(* Nothing keeps the user from closing it while calls are under way.       *)
(***************************************************************************)
EXTENDS CallbackoAuth

CONSTANTS Own,        \* the calls of the dialog
          SLIDER_MAX

ASSUME MainDlgAssumption ==
  /\ Own \subseteq Calls
  /\ SLIDER_MAX \in 1..5

VARIABLES dialog,            \* "open", "ended", or "gone" with its process
          slider,            \* position shown by the track bar
          dragging,          \* the user holds its thumb
          m_TimerStressPos,
          timer              \* seconds between two ticks of TIMER_STRESS, 0 if killed

sliderVars == <<slider, dragging, m_TimerStressPos, timer>>
dialogVars == <<dialog, sliderVars>>
allVars == <<vars, dialogVars>>

SLIDER_MIN == 0
Positions == SLIDER_MIN..SLIDER_MAX

MainDlgTypeOK ==
  /\ TypeOK
  /\ dialog \in {"open", "ended", "gone"}
  /\ slider \in Positions
  /\ dragging \in BOOLEAN
  /\ m_TimerStressPos \in Positions
  /\ timer \in 0..25

OnInitDialog ==
  /\ Init
  /\ dialog = "open"
  /\ slider = SLIDER_MIN
  /\ dragging = FALSE
  /\ m_TimerStressPos = 0
  /\ timer = 0

-----------------------------------------------------------------------------
(* The slider *)

\* Mutant of SetTimerStressPos: a timer that was killed is not set again.
SetTimerStressPosUnset(newPos) ==
  IF m_TimerStressPos # newPos
    THEN /\ m_TimerStressPos' = newPos
         /\ timer' = IF 0 < newPos /\ timer # 0 THEN 5 * (6 - newPos) ELSE 0
    ELSE UNCHANGED <<m_TimerStressPos, timer>>

SetTimerStressPos(newPos) ==
  IF m_TimerStressPos # newPos
    THEN /\ m_TimerStressPos' = newPos
         /\ timer' = IF 0 < newPos THEN 5 * (6 - newPos) ELSE 0
    ELSE UNCHANGED <<m_TimerStressPos, timer>>

\* Mutant of Move: a click beside the thumb does not reach the timer.
MoveByKeysOnly ==
  /\ slider' \in Positions \cap {slider - 1, slider, slider + 1}
  /\ SetTimerStressPos(slider') \/ UNCHANGED <<m_TimerStressPos, timer>>
  /\ UNCHANGED dragging

\* Pos1 and End, arrows, a click beside the thumb (a page is one position):
\* the track bar has moved when it tells the dialog.
Move ==
  /\ slider' \in Positions \cap {SLIDER_MIN, SLIDER_MAX, slider - 1, slider, slider + 1}
  /\ SetTimerStressPos(slider')
  /\ UNCHANGED dragging

Drag ==
  /\ slider' \in Positions
  /\ dragging' = TRUE
  /\ UNCHANGED <<m_TimerStressPos, timer>>

\* SB_THUMBPOSITION: the position is in the message.
Drop ==
  /\ dragging
  /\ dragging' = FALSE
  /\ SetTimerStressPos(slider)
  /\ UNCHANGED slider

OnHScroll ==
  /\ dialog = "open"
  /\ (~dragging /\ Move) \/ Drag \/ Drop
  /\ UNCHANGED <<vars, dialog>>

-----------------------------------------------------------------------------
(* Calls and the end of the dialog *)

\* The message loop may take it in any outgoing call of the other calls.
OnBnClickedRunping(c) ==
  /\ dialog = "open"
  /\ c \in Own
  /\ InitRequest(c)
  /\ UNCHANGED dialogVars

OnTimer(c) ==
  /\ timer # 0
  /\ OnBnClickedRunping(c)

OnCancel ==
  /\ dialog = "open"
  /\ dialog' = "ended"
  /\ UNCHANGED <<vars, sliderVars>>

\* DoModal returns, _tWinMain leaves the apartment and returns: the process
\* goes with its window and all its calls, wherever they are.
WinMainReturns ==
  /\ dialog = "ended"
  /\ dialog' = "gone"
  /\ pc' = [c \in Calls |-> IF c \in Own /\ pc[c] \notin {"new", "done"} THEN "dead" ELSE pc[c]]
  /\ UNCHANGED <<tfVars, m_eState, m_bstrAccessToken, header, status, notified, sends,
                 serviceVars>>
  /\ slider' = SLIDER_MIN
  /\ dragging' = FALSE
  /\ m_TimerStressPos' = 0
  /\ timer' = 0

-----------------------------------------------------------------------------
Others ==
  \/ \E c \in Calls \ Own : InitRequest(c)
  \/ \E c \in Calls : Step(c) \/ InitThrows(c)
  \/ SurrogateEnds
  \/ TokenEndpoint
  \/ Expire
  \/ Revoke

\* Nobody catches an exception that leaves OnBnClickedRunping.
Uncaught == \E c \in Own : pc[c] # "dead" /\ pc'[c] = "dead"

MainDlgNext ==
  \/ /\ Others
     /\ dialog' = IF Uncaught THEN "ended" ELSE dialog
     /\ UNCHANGED sliderVars
  \/ OnHScroll
  \/ \E c \in Calls : OnBnClickedRunping(c) \/ OnTimer(c)
  \/ OnCancel
  \/ WinMainReturns
  \/ Terminating /\ UNCHANGED dialogVars

\* As in CallbackoAuth; once the dialog has ended, its process does; the
\* timer ticks.
MainDlgFairness ==
  /\ \A c \in Calls : WF_allVars(Step(c) /\ UNCHANGED dialogVars) /\ WF_allVars(OnTimer(c))
  /\ WF_allVars(TokenEndpoint /\ UNCHANGED dialogVars)
  /\ WF_allVars(WinMainReturns)

MainDlgSpec == OnInitDialog /\ [][MainDlgNext]_allVars /\ MainDlgFairness

-----------------------------------------------------------------------------
(* Properties *)

\* The timer ticks at the rate the slider shows (OnHScroll, SetTimerStressPos),
\* and not at all at its left end, except while the thumb is dragged.
StressFollowsSlider ==
  ~dragging => timer = IF slider = 0 THEN 0 ELSE 5 * (6 - slider)

\* The stress test runs: while the slider is not at its left end, the dialog
\* starts calls until there is none left to start.
StressStartsCalls ==
  \A c \in Own :
    slider > 0 ~> (pc[c] # "new" \/ slider = 0 \/ dragging \/ dialog # "open")

\* A call of another process stays without an answer only if it was deferred
\* behind a renew of the dialog's and the dialog was closed, or if it fell with
\* the surrogate.
OthersEndUnlessClosed ==
  \A c \in Calls \ Own :
    pc[c] = "loading" ~> \/ notified[c] # << >>
                        \/ pc[c] \in {"dead", "stranded"}
                        \/ (dialog = "gone" /\ pc[c] = "queued" /\ RenewAbandoned)

=============================================================================
