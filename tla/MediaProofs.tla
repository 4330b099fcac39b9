---------------------------- MODULE MediaProofs ----------------------------
(***************************************************************************)
(* Proofs about Media, for every time-out longer than a pause, every       *)
(* period of the keep-alive shorter than the time-out, any number of       *)
(* receivers and whatever options they are started with.                   *)
(***************************************************************************)
EXTENDS Media, TLAPS

(* What the sender knows of one receiver, next to the timers of both.  A   *)
(* receiver that plays sends a request before its session is used up, one  *)
(* that pauses plays again before; and one that was killed has at most the *)
(* rest of its session, and at the end the rest of the sender's period.    *)
SessionInv(r) ==
  /\ session[r] # NoSession => sender = "up" /\ receiver[r] # "off"
  /\ receiver[r] # "killed" => silent[r] = 0
  /\ receiver[r] = "on" /\ state[r] = "PAUSED" => ~ stateFlag[r]
  /\ receiver[r] = "on" /\ session[r] # NoSession =>
       IF state[r] = "PLAYING" THEN session[r] > keepIn[r]
                               ELSE session[r] > stateIn[r]
  /\ receiver[r] = "killed" /\ session[r] > 0 => silent[r] + session[r] <= Timeout
  /\ receiver[r] = "killed" /\ session[r] = 0 =>
       silent[r] + cleanIn <= Timeout + CleanPeriod

(* The static flag of the size timer is what is not shown.                 *)
PictureInv(r) ==
  /\ receiver[r] = "off" => ~ sizeFlag[r]
  /\ receiver[r] = "on" => wide[r] = ~ sizeFlag[r]

MediaInv == MediaTypeOK /\ \A r \in Receivers : SessionInv(r) /\ PictureInv(r)

(* Two receivers do not touch one another: a step of one of them leaves    *)
(* what the others have, and the sender, alone.                            *)
OtherReceiver(r, s) ==
  /\ UNCHANGED senderVars
  /\ session'[s] = session[s] /\ receiver'[s] = receiver[s]
  /\ sizeIn'[s] = sizeIn[s] /\ stateIn'[s] = stateIn[s]
  /\ sizeFlag'[s] = sizeFlag[s] /\ stateFlag'[s] = stateFlag[s]
  /\ wide'[s] = wide[s] /\ state'[s] = state[s]
  /\ keepIn'[s] = keepIn[s] /\ silent'[s] = silent[s]

ReceiverStep(r) ==
  \/ StartReceiver(r) \/ KillReceiver(r) \/ NextReceiver(r)
  \/ ChangeSize(r) \/ ControlState(r) \/ SendKeepAlive(r)

-----------------------------------------------------------------------------
(* The type invariant is kept by every step, whatever the order.           *)
LEMMA MediaTypeStep ==
  ASSUME MediaInv, [MediaNext]_mediaVars
  PROVE  MediaTypeOK'
<1> USE MediaAssumption
<1> USE DEF MediaInv, MediaTypeOK, SizePeriod, StatePeriod, CleanPeriod, NoSession, Long
<1>1. CASE Fork
  BY <1>1 DEF Fork, timerVars
<1>2. CASE Attach
  BY <1>2 DEF Attach, timerVars
<1>3. CASE KillSender
  BY <1>3 DEF KillSender, timerVars
<1>4. CASE Cleanup
  BY <1>4 DEF Cleanup, Again, timerVars
<1>5. CASE Tick
  BY <1>5 DEF Tick, NothingDue, Less, timerVars
<1>6. ASSUME NEW r \in Receivers, ReceiverStep(r)
      PROVE  MediaTypeOK'
  <2>1. CASE StartReceiver(r)
    BY <2>1 DEF StartReceiver, FirstSize, Open, Renew, senderVars
  <2>2. CASE KillReceiver(r)
    BY <2>2 DEF KillReceiver, senderVars, timerVars
  <2>3. CASE NextReceiver(r)
    BY <2>3 DEF NextReceiver, senderVars
  <2>4. CASE ChangeSize(r)
    BY <2>4 DEF ChangeSize, senderVars
  <2>5. CASE ControlState(r)
    BY <2>5 DEF ControlState, SetTo, NextFlag, Request, Open, Renew, senderVars
  <2>6. CASE SendKeepAlive(r)
    BY <2>6 DEF SendKeepAlive, Renew, senderVars, timerVars
  <2>7. QED
    BY <1>6, <2>1, <2>2, <2>3, <2>4, <2>5, <2>6 DEF ReceiverStep
<1>7. CASE UNCHANGED mediaVars
  BY <1>7 DEF mediaVars, senderVars, timerVars
<1>8. QED
  BY <1>1, <1>2, <1>3, <1>4, <1>5, <1>6, <1>7 DEF MediaNext, ReceiverStep

(* The step of one receiver leaves the others alone.                       *)
LEMMA OthersAlone ==
  ASSUME MediaTypeOK, NEW r \in Receivers, ReceiverStep(r),
         NEW s \in Receivers \ {r}
  PROVE  OtherReceiver(r, s)
<1> USE DEF MediaTypeOK, OtherReceiver, ReceiverStep, senderVars, timerVars
<1>1. CASE StartReceiver(r)
  BY <1>1 DEF StartReceiver, Open, Renew
<1>2. CASE KillReceiver(r)
  BY <1>2 DEF KillReceiver
<1>3. CASE NextReceiver(r)
  BY <1>3 DEF NextReceiver
<1>4. CASE ChangeSize(r)
  BY <1>4 DEF ChangeSize
<1>5. CASE ControlState(r)
  BY <1>5 DEF ControlState, Request, Open, Renew
<1>6. CASE SendKeepAlive(r)
  BY <1>6 DEF SendKeepAlive, Renew
<1>7. QED
  BY <1>1, <1>2, <1>3, <1>4, <1>5, <1>6

-----------------------------------------------------------------------------
(* What the sender knows of a receiver agrees with the timers of both      *)
(* after every step.                                                       *)
LEMMA SessionStep ==
  ASSUME MediaInv, [MediaNext]_mediaVars, NEW s \in Receivers
  PROVE  SessionInv(s)'
<1> USE MediaAssumption
<1>0. MediaTypeOK /\ SessionInv(s)
  BY DEF MediaInv
<1> USE DEF MediaTypeOK, SessionInv, SizePeriod, StatePeriod, CleanPeriod, NoSession, Long
<1>1. CASE Fork
  BY <1>0, <1>1 DEF Fork, timerVars
<1>2. CASE Attach
  BY <1>0, <1>2 DEF Attach, timerVars
<1>3. CASE KillSender
  BY <1>0, <1>3 DEF KillSender, timerVars
<1>4. CASE Cleanup
  BY <1>0, <1>4 DEF Cleanup, Again, timerVars
<1>5. CASE Tick
  <2> USE <1>0, <1>5 DEF Tick
  <2>1. /\ session[s] \in NoSession..Timeout /\ silent[s] \in 0..Long
        /\ cleanIn \in 0..CleanPeriod /\ keepIn[s] \in 0..KeepAlive
        /\ stateIn[s] \in 0..StatePeriod
        /\ sender = "up" => cleanIn' = cleanIn - 1 /\ cleanIn > 0
        /\ UNCHANGED <<sender, receiver, state, stateFlag>>
    BY DEF NothingDue
  <2>2. session'[s] = IF session[s] > 0 THEN session[s] - 1 ELSE session[s]
    OBVIOUS
  <2>3. CASE receiver[s] = "on"
    <3>1. keepIn'[s] = keepIn[s] - 1 /\ stateIn'[s] = stateIn[s] - 1
      BY <2>3 DEF Less
    <3>2. silent'[s] = silent[s]
      BY <2>3
    <3>3. QED
      BY <2>1, <2>2, <2>3, <3>1, <3>2
  <2>4. CASE receiver[s] = "killed"
    <3>1. silent'[s] = IF silent[s] < Long THEN silent[s] + 1 ELSE silent[s]
      BY <2>4
    <3>2. session[s] = 0 => cleanIn' = cleanIn - 1
      BY <2>1
    <3>3. QED
      BY <2>1, <2>2, <2>4, <3>1, <3>2
  <2>5. CASE receiver[s] = "off"
    BY <2>1, <2>2, <2>5
  <2>6. QED
    BY <2>3, <2>4, <2>5
<1>6. ASSUME NEW r \in Receivers, ReceiverStep(r), r # s
      PROVE  SessionInv(s)'
  <2>1. OtherReceiver(r, s)
    BY <1>0, <1>6, OthersAlone
  <2>2. QED
    BY <1>0, <2>1 DEF OtherReceiver, senderVars
<1>7. ASSUME ReceiverStep(s)
      PROVE  SessionInv(s)'
  <2>1. CASE StartReceiver(s)
    BY <1>0, <2>1 DEF StartReceiver, FirstSize, Open, Renew, senderVars
  <2>2. CASE KillReceiver(s)
    BY <1>0, <2>2 DEF KillReceiver, senderVars, timerVars
  <2>3. CASE NextReceiver(s)
    BY <1>0, <2>3 DEF NextReceiver, senderVars
  <2>4. CASE ChangeSize(s)
    BY <1>0, <2>4 DEF ChangeSize, senderVars
  <2>5. CASE ControlState(s)
    <3> USE <1>0, <2>5 DEF ControlState
    <3>1. /\ UNCHANGED <<sender, cleanIn, receiver, keepIn, silent>>
          /\ stateIn'[s] = StatePeriod /\ stateFlag'[s] = ~ stateFlag[s]
          /\ state'[s] = IF stateFlag[s] THEN "PAUSED" ELSE "PLAYING"
      BY DEF senderVars, SetTo, NextFlag
    <3>2. (session'[s] = Timeout /\ sender = "up") \/ session'[s] = session[s]
      BY DEF Request, Open, Renew
    <3>3. state'[s] # state[s] /\ session[s] # NoSession => session'[s] = Timeout
      BY DEF Request, Renew
    <3>4. session[s] \in NoSession..Timeout /\ keepIn[s] \in 0..KeepAlive
      OBVIOUS
    <3>5. CASE stateFlag[s]
      <4>1. state'[s] = "PAUSED" /\ ~ stateFlag'[s] /\ state[s] = "PLAYING"
        BY <3>1, <3>5
      <4>2. session'[s] \in {NoSession, Timeout}
        BY <3>2, <3>3, <4>1
      <4>3. QED
        BY <3>1, <3>2, <3>4, <4>1, <4>2
    <3>6. CASE ~ stateFlag[s]
      <4>1. state'[s] = "PLAYING"
        BY <3>1, <3>6
      <4>2. CASE state[s] = "PLAYING"
        BY <3>1, <3>2, <3>4, <4>1, <4>2
      <4>3. CASE state[s] = "PAUSED"
        <5>1. session'[s] \in {NoSession, Timeout}
          BY <3>2, <3>3, <4>1, <4>3
        <5>2. QED
          BY <3>1, <3>2, <3>4, <4>1, <5>1
      <4>4. QED
        BY <4>2, <4>3
    <3>7. QED
      BY <3>5, <3>6
  <2>6. CASE SendKeepAlive(s)
    BY <1>0, <2>6 DEF SendKeepAlive, Renew, senderVars, timerVars
  <2>7. QED
    BY <1>7, <2>1, <2>2, <2>3, <2>4, <2>5, <2>6 DEF ReceiverStep
<1>8. CASE UNCHANGED mediaVars
  BY <1>0, <1>8 DEF mediaVars, senderVars, timerVars
<1>9. QED
  BY <1>1, <1>2, <1>3, <1>4, <1>5, <1>6, <1>7, <1>8 DEF MediaNext, ReceiverStep

(* The flag and the picture of a receiver agree after every step.          *)
LEMMA PictureStep ==
  ASSUME MediaInv, [MediaNext]_mediaVars, NEW s \in Receivers
  PROVE  PictureInv(s)'
<1>0. MediaTypeOK /\ PictureInv(s)
  BY DEF MediaInv
<1> USE DEF MediaTypeOK, PictureInv
<1>1. CASE Fork \/ Attach \/ KillSender \/ Cleanup \/ Tick
  BY <1>0, <1>1 DEF Fork, Attach, KillSender, Cleanup, Tick, timerVars
<1>2. ASSUME NEW r \in Receivers, ReceiverStep(r), r # s
      PROVE  PictureInv(s)'
  BY <1>0, <1>2, OthersAlone DEF OtherReceiver
<1>3. ASSUME ReceiverStep(s)
      PROVE  PictureInv(s)'
  <2>1. CASE StartReceiver(s)
    BY <1>0, <2>1 DEF StartReceiver, FirstSize
  <2>2. CASE KillReceiver(s)
    BY <1>0, <2>2 DEF KillReceiver, timerVars
  <2>3. CASE NextReceiver(s)
    BY <1>0, <2>3 DEF NextReceiver
  <2>4. CASE ChangeSize(s)
    BY <1>0, <2>4 DEF ChangeSize
  <2>5. CASE ControlState(s)
    BY <1>0, <2>5 DEF ControlState
  <2>6. CASE SendKeepAlive(s)
    BY <1>0, <2>6 DEF SendKeepAlive, timerVars
  <2>7. QED
    BY <1>3, <2>1, <2>2, <2>3, <2>4, <2>5, <2>6 DEF ReceiverStep
<1>4. CASE UNCHANGED mediaVars
  BY <1>0, <1>4 DEF mediaVars, timerVars
<1>5. QED
  BY <1>1, <1>2, <1>3, <1>4 DEF MediaNext, ReceiverStep

LEMMA MediaInvInit == MediaInit => MediaInv
BY MediaAssumption
   DEF MediaInit, MediaInv, MediaTypeOK, SessionInv, PictureInv, SizePeriod,
       StatePeriod, CleanPeriod, NoSession, Long

LEMMA MediaInvStep == MediaInv /\ [MediaNext]_mediaVars => MediaInv'
BY MediaTypeStep, SessionStep, PictureStep DEF MediaInv

(* The inductive invariant of the media processes.                         *)
THEOREM MediaInvariant == MediaSpec => []MediaInv
BY MediaInvInit, MediaInvStep, PTL DEF MediaSpec

-----------------------------------------------------------------------------
(* The variables of the two programs keep their types; the countdown of no *)
(* timer goes below zero, and no session lasts longer than the time-out.   *)
THEOREM MediaTypeCorrect == MediaSpec => []MediaTypeOK
<1>1. MediaInv => MediaTypeOK
  BY DEF MediaInv
<1>2. QED
  BY <1>1, MediaInvariant, PTL

(* A killed receiver is forgotten by the sender (the timer of              *)
(* rtsp_sender.c) within the time-out and one period, for every time-out.  *)
THEOREM DeadSessionsGo == MediaSpec => []DeadSessionGoes
<1>1. MediaInv => DeadSessionGoes
  <2> SUFFICES ASSUME MediaInv, NEW r \in Receivers,
                      receiver[r] = "killed", session[r] # NoSession
               PROVE  silent[r] <= Timeout + CleanPeriod
    BY DEF DeadSessionGoes
  <2>1. MediaTypeOK /\ SessionInv(r)
    BY DEF MediaInv
  <2>2. session[r] \in 0..Timeout /\ silent[r] \in Nat /\ cleanIn \in 0..CleanPeriod
    BY <2>1, MediaAssumption DEF MediaTypeOK, NoSession, Long, CleanPeriod
  <2>3. QED
    BY <2>1, <2>2, MediaAssumption DEF SessionInv, CleanPeriod
<1>2. QED
  BY <1>1, MediaInvariant, PTL

(* No step but the end of the sender takes away the session of a receiver  *)
(* that runs, however the timers of the two fall together.                 *)
THEOREM LiveSessionsStay == MediaSpec => LiveSessionStays
<1> DEFINE Stays == \A r \in Receivers :
      receiver[r] = "on" /\ session[r] # NoSession /\ sender' # "off" =>
        session'[r] # NoSession
<1>1. MediaInv /\ [MediaNext]_mediaVars => [Stays]_mediaVars
  <2> SUFFICES ASSUME MediaInv, MediaNext, NEW s \in Receivers,
                      receiver[s] = "on", session[s] # NoSession, sender' # "off"
               PROVE  session'[s] # NoSession
    BY DEF mediaVars
  <2> USE MediaAssumption
  <2>0. MediaTypeOK /\ SessionInv(s)
    BY DEF MediaInv
  <2>1. session[s] \in 1..Timeout
    BY <2>0 DEF MediaTypeOK, SessionInv, NoSession, SizePeriod, StatePeriod
  <2> USE DEF MediaTypeOK, NoSession
  <2>2. CASE Fork \/ Attach \/ KillSender
    BY <2>0, <2>1, <2>2 DEF Fork, Attach, KillSender
  <2>3. CASE Cleanup
    BY <2>0, <2>1, <2>3 DEF Cleanup
  <2>4. CASE Tick
    BY <2>0, <2>1, <2>4 DEF Tick
  <2>5. ASSUME NEW r \in Receivers, ReceiverStep(r), r # s
        PROVE  session'[s] # NoSession
    BY <2>0, <2>1, <2>5, OthersAlone DEF OtherReceiver
  <2>6. CASE ReceiverStep(s)
    BY <2>0, <2>1, <2>6
       DEF ReceiverStep, StartReceiver, KillReceiver, NextReceiver, ChangeSize,
           ControlState, SendKeepAlive, Request, Open, Renew
  <2>7. QED
    BY <2>2, <2>3, <2>4, <2>5, <2>6 DEF MediaNext, ReceiverStep
<1>2. QED
  BY <1>1, MediaInvariant, PTL DEF MediaSpec, LiveSessionStays

(* Every call of timeout_videosize_change_cb changes the picture.          *)
THEOREM SizesAlternate == MediaSpec => SizeAlternates
<1> DEFINE Alternates == \A r \in Receivers :
      sizeFlag'[r] # sizeFlag[r] /\ receiver[r] = "on" => wide'[r] # wide[r]
<1>1. MediaInv /\ [MediaNext]_mediaVars => [Alternates]_mediaVars
  <2> SUFFICES ASSUME MediaInv, MediaNext, NEW s \in Receivers,
                      sizeFlag'[s] # sizeFlag[s], receiver[s] = "on"
               PROVE  wide'[s] # wide[s]
    BY DEF mediaVars
  <2>0. MediaTypeOK /\ PictureInv(s)
    BY DEF MediaInv
  <2>1. ReceiverStep(s)
    <3>1. ASSUME NEW r \in Receivers, ReceiverStep(r)
          PROVE  r = s
      BY <2>0, <3>1, OthersAlone DEF OtherReceiver
    <3>2. sizeFlag' # sizeFlag
      OBVIOUS
    <3>3. QED
      BY <3>1, <3>2 DEF MediaNext, ReceiverStep, Fork, Attach, KillSender,
                        Cleanup, Tick, timerVars
  <2>2. ChangeSize(s)
    BY <2>0, <2>1 DEF ReceiverStep, StartReceiver, KillReceiver, NextReceiver,
                      ControlState, SendKeepAlive, timerVars
  <2>3. QED
    BY <2>0, <2>2 DEF ChangeSize, MediaTypeOK, PictureInv
<1>2. QED
  BY <1>1, MediaInvariant, PTL DEF MediaSpec, SizeAlternates

-----------------------------------------------------------------------------
(* The branches of rtsp_receiver.c, by options.                            *)
LEMMA LineLemma ==
  ASSUME NEW opts \in SUBSET {"v", "l", "a"}, opts # {"a"}
  PROVE  VideoLine(opts).location = AudioLine(opts).location
<1> USE DEF VideoLine, AudioLine, MSC_CreateVideoStreamLine,
            MSC_CreateAudioStreamLine, OrDefault, Null, Value
<1>1. CASE "l" \in opts
  BY <1>1
<1>2. CASE "l" \notin opts /\ "a" \notin opts
  BY <1>2
<1>3. CASE "l" \notin opts /\ "a" \in opts
  <2>1. "v" \in opts
    BY <1>3
  <2>2. QED
    BY <1>3, <2>1
<1>4. QED
  BY <1>1, <1>2, <1>3

(* However a receiver was started, its picture and its sound come from the *)
(* same place, -a alone excepted.                                          *)
THEOREM SameSources == MediaSpec => []SameSource
<1>1. MediaTypeOK => SameSource
  BY LineLemma DEF MediaTypeOK, SameSource
<1>2. QED
  BY <1>1, MediaTypeCorrect, PTL
=============================================================================
