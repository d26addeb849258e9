----------------------------- MODULE MainDlgProofs -----------------------------
(***************************************************************************)
(* That the stress timer of the WTL sample follows its slider, for every   *)
(* range of the slider and whatever the calls do meanwhile; and that types *)
(* and protocol of the server, contract and conclusions of the calls are   *)
(* kept, although the process of the dialog may go with any number of them *)
(* at once.                                                                *)
(***************************************************************************)
EXTENDS MainDlg, CallContractProofs

SliderInv ==
  /\ slider \in Positions
  /\ m_TimerStressPos \in Positions
  /\ ~dragging => m_TimerStressPos = slider
  /\ timer = IF m_TimerStressPos = 0 THEN 0 ELSE 5 * (6 - m_TimerStressPos)

LEMMA SetTimerStressPosSets ==
  ASSUME SliderInv, NEW newPos \in Positions, SetTimerStressPos(newPos)
  PROVE  /\ m_TimerStressPos' = newPos
         /\ timer' = IF newPos = 0 THEN 0 ELSE 5 * (6 - newPos)
  BY MainDlgAssumption DEF SliderInv, SetTimerStressPos, Positions, SLIDER_MIN

LEMMA OnHScrollStep ==
  ASSUME SliderInv, OnHScroll
  PROVE  SliderInv'
  <1>1. CASE Move
    <2>1. slider' \in Positions /\ SetTimerStressPos(slider')
      BY <1>1 DEF Move
    <2> QED
      BY <2>1, SetTimerStressPosSets DEF SliderInv
  <1>2. CASE Drag
    BY <1>2 DEF Drag, SliderInv
  <1>3. CASE Drop
    <2>1. SetTimerStressPos(slider) /\ slider' = slider /\ slider \in Positions
      BY <1>3 DEF Drop, SliderInv
    <2> QED
      BY <2>1, SetTimerStressPosSets DEF SliderInv
  <1> QED
    BY <1>1, <1>2, <1>3 DEF OnHScroll

LEMMA SliderStep ==
  ASSUME SliderInv, [MainDlgNext]_allVars
  PROVE  SliderInv'
  <1>1. CASE UNCHANGED sliderVars
    BY <1>1 DEF sliderVars, SliderInv
  <1>2. CASE OnHScroll
    BY <1>2, OnHScrollStep
  <1>3. CASE WinMainReturns
    BY <1>3, MainDlgAssumption DEF WinMainReturns, SliderInv, Positions, SLIDER_MIN
  <1>4. UNCHANGED sliderVars \/ OnHScroll \/ WinMainReturns
    BY DEF MainDlgNext, OnBnClickedRunping, OnTimer, OnCancel, dialogVars, allVars
  <1> QED
    BY <1>1, <1>2, <1>3, <1>4

\* Except while its thumb is dragged, the slider shows the rate of the timer
\* (OnHScroll, SetTimerStressPos).
THEOREM TimerFollows == MainDlgSpec => []StressFollowsSlider
  <1>1. OnInitDialog => SliderInv
    BY MainDlgAssumption DEF OnInitDialog, SliderInv, Positions, SLIDER_MIN
  <1>2. SliderInv /\ [MainDlgNext]_allVars => SliderInv'
    BY SliderStep
  <1>3. SliderInv => StressFollowsSlider
    BY DEF SliderInv, StressFollowsSlider
  <1> QED
    BY <1>1, <1>2, <1>3, PTL DEF MainDlgSpec

-----------------------------------------------------------------------------
(* The calls *)

\* What is known of the calls of module CallbackoAuth.
CallsInv ==
  /\ CallInv /\ StageInv /\ FailInv /\ RememberInv
  /\ sends \in [Calls -> 0..2]
  /\ expired \in 0..MaxExpired
  /\ revoked \in BOOLEAN

\* The calls of a process that ends leave queue, stack, lock and connections of
\* the server as they are.
LEMMA WinMainReturnsKeeps ==
  ASSUME CallsInv, WinMainReturns
  PROVE  CallsInv'
  <1>1. /\ UNCHANGED <<tfVars, issued, expired, revoked, m_eState, m_bstrAccessToken, header,
                       status, notified, sends>>
        /\ pc \in [Calls -> Places]
        /\ pc' = [c \in Calls |-> IF c \in Own /\ pc[c] \notin {"new", "done"} THEN "dead"
                                  ELSE pc[c]]
    BY DEF WinMainReturns, serviceVars, CallsInv, CallInv
  <1>2. UNCHANGED <<m_strAccessToken, tokenFile, m_spLockForRenew, m_lstRetryRequest, extConn,
                    stack>>
    BY <1>1 DEF tfVars, memory
  <1>3. /\ pc' \in [Calls -> Places]
        /\ \A c \in Calls : pc'[c] = pc[c] \/ (pc'[c] = "dead" /\ pc[c] \notin {"new", "done"})
    BY <1>1 DEF Places
  <1>4. TFInv'
    BY <1>1, NextTFInv DEF CallsInv, CallInv
  <1>5. QueueLink'
    <2>1. \A i \in 1..Len(m_lstRetryRequest) : m_lstRetryRequest[i] \in Calls
      BY DEF CallsInv, CallInv, TFInv, TFTypeOK
    <2> QED BY <1>2, <1>3, <2>1 DEF CallsInv, CallInv, QueueLink
  <1>6. StackLink'
    <2>1. \A i \in 1..Len(stack) : stack[i].caller \in Calls
      BY Callers DEF CallsInv, CallInv
    <2> QED BY <1>2, <1>3, <2>1 DEF CallsInv, CallInv, StackLink
  <1>7. RejectedLink' /\ RenewLink'
    BY <1>2, <1>3 DEF CallsInv, CallInv, RejectedLink, RenewLink, Renewer
  <1>8. StageInv' /\ FailInv'
    BY <1>1, <1>3 DEF CallsInv, StageInv, Stage, FailInv, Explained, Explanation, Opening,
       Underway, Rejected
  <1>9. RememberInv'
    BY <1>1, <1>2, <1>3 DEF CallsInv, RememberInv, Tokens, Remembers
  <1> QED BY <1>1, <1>3, <1>4, <1>5, <1>6, <1>7, <1>8, <1>9 DEF CallsInv, CallInv

LEMMA CallsKept ==
  ASSUME CallsInv, Generation = Nat \ {0}, [Next]_vars
  PROVE  CallsInv'
  BY NextCallInv, NextSeen, NextExplained, NextRemembers, SendsCounted, BoundsKept
     DEF CallsInv, CallInv

\* A step of the dialog is one of the calls and the server, or the end of its process.
LEMMA MainDlgStep ==
  ASSUME [MainDlgNext]_allVars
  PROVE  [Next]_vars \/ WinMainReturns
  BY DEF MainDlgNext, Others, OnHScroll, OnBnClickedRunping, OnTimer, OnCancel, Next, allVars

LEMMA InitCalls ==
  ASSUME Generation = Nat \ {0}, Init
  PROVE  CallsInv
  <1>1. CallInv /\ StageInv /\ RememberInv
    BY InitCallInv, InitSeen, InitRemembers
  <1>2. FailInv
    BY DEF Init, FailInv, Explained, Opening, Rejected
  <1>3. expired = 0 /\ revoked = FALSE /\ sends \in [Calls -> 0..2]
    BY DEF Init, ServiceInit
  <1>4. expired \in 0..MaxExpired
    BY <1>3, MaxExpiredAssumption
  <1>5. revoked \in BOOLEAN
    BY <1>3
  <1> QED BY <1>1, <1>2, <1>3, <1>4, <1>5 DEF CallsInv

DialogTypes == dialog \in {"open", "ended", "gone"} /\ dragging \in BOOLEAN

LEMMA DialogTyped ==
  ASSUME DialogTypes, [MainDlgNext]_allVars
  PROVE  DialogTypes'
  BY DEF DialogTypes, MainDlgNext, OnHScroll, Move, Drag, Drop, OnBnClickedRunping, OnTimer,
         OnCancel, WinMainReturns, dialogVars, sliderVars, allVars

\* The end of a process is nothing the server does, and nothing the creators of
\* its calls see: they are gone as well.
LEMMA WinMainReturnsSeen ==
  ASSUME WinMainReturns
  PROVE  UNCHANGED tfVars /\ UNCHANGED Contract!contractVars
  <1>1. /\ UNCHANGED <<tfVars, notified, sends>>
        /\ \A c \in Calls : pc'[c] = "new" <=> pc[c] = "new"
    BY DEF WinMainReturns
  <1>2. UNCHANGED started
    BY <1>1 DEF started
  <1> QED BY <1>1, <1>2 DEF Contract!contractVars

LEMMA DialogCalls ==
  ASSUME Generation = Nat \ {0}
  PROVE  MainDlgSpec => []CallsInv
  <1>1. OnInitDialog => CallsInv
    BY InitCalls DEF OnInitDialog
  <1>2. CallsInv /\ [MainDlgNext]_allVars => CallsInv'
    BY MainDlgStep, WinMainReturnsKeeps, CallsKept
  <1> QED BY <1>1, <1>2, PTL DEF MainDlgSpec

\* Dialog, calls, server and service stay within their types, also when the
\* process of the dialog ends with calls under way (DoModal, _tWinMain).
THEOREM DialogTypeCorrect ==
  ASSUME Generation = Nat \ {0}
  PROVE  MainDlgSpec => []MainDlgTypeOK
  <1>1. OnInitDialog => DialogTypes /\ SliderInv
    <2>1. OnInitDialog => SliderInv
      BY MainDlgAssumption DEF OnInitDialog, SliderInv, Positions, SLIDER_MIN
    <2>2. dragging = FALSE => dragging \in BOOLEAN
      OBVIOUS
    <2>3. OnInitDialog => DialogTypes
      BY <2>2 DEF OnInitDialog, DialogTypes
    <2> QED BY <2>1, <2>3
  <1>2. (DialogTypes /\ SliderInv) /\ [MainDlgNext]_allVars => (DialogTypes /\ SliderInv)'
    BY DialogTyped, SliderStep
  <1>3. CallsInv /\ DialogTypes /\ SliderInv => MainDlgTypeOK
    <2> SUFFICES ASSUME CallsInv, DialogTypes, SliderInv
                 PROVE  MainDlgTypeOK
      OBVIOUS
    <2>1. TypeOK
      BY DEF CallsInv, CallInv, TFInv, StageInv, FailInv, RememberInv, TypeOK, ServiceTypeOK,
         NoToken
    <2>2. timer \in 0..25
      BY MainDlgAssumption DEF SliderInv, Positions, SLIDER_MIN
    <2> QED BY <2>1, <2>2 DEF MainDlgTypeOK, DialogTypes, SliderInv
  <1> QED BY <1>1, <1>2, <1>3, DialogCalls, PTL DEF MainDlgSpec

\* A dialog that is closed on its calls does not break the protocol of the
\* server: it only leaves it connections of a dead process (OnCancel).
THEOREM DialogKeepsProtocol ==
  ASSUME Generation = Nat \ {0}
  PROVE  MainDlgSpec => ServerSpec
  <1>1. OnInitDialog => TFInit
    BY InitCallInv DEF OnInitDialog
  <1>2. CallsInv /\ [MainDlgNext]_allVars => [TFNext]_tfVars
    BY MainDlgStep, WinMainReturnsSeen, NextCallInv DEF CallsInv
  <1> QED BY <1>1, <1>2, DialogCalls, PTL DEF MainDlgSpec, ServerSpec, TFSpec

\* Nor does it make a call break its contract: no request goes out a third
\* time, and no call is notified twice.
THEOREM DialogKeepsContract ==
  ASSUME Generation = Nat \ {0}
  PROVE  MainDlgSpec => ContractSafe
  <1>1. OnInitDialog => Contract!Init
    BY InitSeen DEF OnInitDialog
  <1>2. CallsInv /\ [MainDlgNext]_allVars => [Contract!Next]_Contract!contractVars
    BY MainDlgStep, WinMainReturnsSeen, NextSeen DEF CallsInv
  <1> QED BY <1>1, <1>2, DialogCalls, PTL DEF MainDlgSpec, ContractSafe, Contract!SafeSpec

\* Beside a dialog that may be closed, too, one call renews at a time, onFailed
\* concludes what happened, and no call remembers too old a token.
THEOREM DialogHarmless ==
  ASSUME Generation = Nat \ {0}
  PROVE  MainDlgSpec => [](SingleRenew /\ FailureExplained /\ RememberedNotOlder)
  <1>1. CallsInv => SingleRenew
    BY DEF CallsInv, CallInv, RenewLink, SingleRenew
  <1>2. CallsInv => FailureExplained
    BY DEF CallsInv, StageInv, FailInv, Explained, Explanation, FailureExplained
  <1>3. CallsInv => RememberedNotOlder
    BY DEF CallsInv, RememberInv, Remembers, RememberedNotOlder, NoToken
  <1> QED BY <1>1, <1>2, <1>3, DialogCalls, PTL

=============================================================================
