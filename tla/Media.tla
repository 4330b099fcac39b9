------------------------------- MODULE Media -------------------------------
(***************************************************************************)
(* The media sender (rtsp_sender.c) and its receivers (rtsp_receiver.c) in *)
(* time, in seconds: GLib calls a timer when it is due, before any more    *)
(* time passes.  A receiver has a timer that changes the size of the       *)
(* picture and one that pauses it and lets it go on; the sender has one    *)
(* that forgets the sessions of which nothing was heard for too long.      *)
(* Receivers are killed without a word to the sender (closeChildProcess of *)
(* user.c), so this timer is all that takes their sessions away.           *)
(*                                                                         *)
(* What GStreamer does with RTSP is external, modelled as far as the two   *)
(* programs rely on it.                                                    *)
(***************************************************************************)
EXTENDS Integers

CONSTANTS
  Receivers,  \* runs of rtsp_receiver
  Options,    \* Options[r]: the sets of options it may be started with
  Timeout,    \* after so many seconds without a request a session is stale
  KeepAlive   \* a receiver that plays sends a request so often

(* The periods of the timers.                                              *)
SizePeriod == 3
StatePeriod == 5
CleanPeriod == 2

ASSUME MediaAssumption ==
  /\ Options \in [Receivers -> SUBSET SUBSET {"v", "l", "a"}]
  /\ KeepAlive \in 1..(Timeout - 1)
  /\ Timeout \in Nat /\ Timeout > StatePeriod

VARIABLES
  sender,     \* the process of rtsp_sender
  cleanIn,    \* its timer: seconds until the next call
  session,    \* what the sender knows of each receiver: the seconds its
              \* session is still good for, or NoSession
  receiver,   \* the processes of rtsp_receiver
  options,    \* the options each was started with
  sizeIn, stateIn,      \* the timers of each
  sizeFlag, stateFlag,  \* their static variables
  wide,       \* the picture is 720x480, not 360x240
  state,      \* the state of the two pipelines
  keepIn,     \* external: seconds until rtspsrc sends the next request
  silent      \* auxiliary: the seconds since the receiver was killed

senderVars == <<sender, cleanIn>>
timerVars == <<sizeIn, stateIn, sizeFlag, stateFlag, wide, state>>
mediaVars == <<senderVars, session, receiver, options, timerVars, keepIn, silent>>

NoSession == -1
Long == Timeout + CleanPeriod + 1

MediaTypeOK ==
  /\ sender \in {"off", "starting", "up"}
  /\ cleanIn \in 0..CleanPeriod
  /\ session \in [Receivers -> NoSession..Timeout]
  /\ receiver \in [Receivers -> {"off", "on", "killed"}]
  /\ options \in [Receivers -> SUBSET {"v", "l", "a"}]
  /\ sizeIn \in [Receivers -> 0..SizePeriod]
  /\ stateIn \in [Receivers -> 0..StatePeriod]
  /\ sizeFlag \in [Receivers -> BOOLEAN] /\ stateFlag \in [Receivers -> BOOLEAN]
  /\ wide \in [Receivers -> BOOLEAN]
  /\ state \in [Receivers -> {"PLAYING", "PAUSED"}]
  /\ keepIn \in [Receivers -> 0..KeepAlive]
  /\ silent \in [Receivers -> 0..Long]

-----------------------------------------------------------------------------
(* The options of a receiver: what each buffer holds after getopt_long.    *)
Value(opts, option) == IF option \in opts THEN "given" ELSE "empty"
Null == "NULL"
OrDefault(value, default) == IF value = Null THEN default ELSE value

MSC_CreateVideoStreamLine(location, depay) ==
  [location |-> OrDefault(location, "RTSP_LOCATION"),
   depay |-> OrDefault(depay, "VIDEO_RTP_DEPAY")]
MSC_CreateAudioStreamLine(location, depay) ==
  [location |-> OrDefault(location, "RTSP_LOCATION"),
   depay |-> OrDefault(depay, "AUDIO_RTP_DEPAY")]

(* A location makes the receiver forget the depayloader asked for.         *)
VideoLine(opts) ==
  LET location == Value(opts, "l")
      depay == Value(opts, "v")
  IN IF location # "empty" THEN MSC_CreateVideoStreamLine(location, Null)
     ELSE IF depay # "empty" THEN MSC_CreateVideoStreamLine(Null, depay)
     ELSE MSC_CreateVideoStreamLine(Null, Null)

(* Mutant of AudioLine: with -a the location is not looked at.             *)
AudioLineDepayFirst(opts) ==
  IF "a" \in opts THEN MSC_CreateAudioStreamLine(Null, "given")
  ELSE MSC_CreateAudioStreamLine(
         IF "l" \in opts THEN "given" ELSE Null, Null)
(* The branch for the sound looks whether a depayloader for the picture    *)
(* was asked for, so that with -a alone it takes the empty location.       *)
AudioLine(opts) ==
  LET location == Value(opts, "l")
      depay == Value(opts, "a")
  IN IF location # "empty" THEN MSC_CreateAudioStreamLine(location, Null)
     ELSE IF depay = "empty" THEN MSC_CreateAudioStreamLine(Null, Null)
     ELSE IF Value(opts, "v") # "empty"
          THEN MSC_CreateAudioStreamLine(Null, depay)
     ELSE MSC_CreateAudioStreamLine(location, depay)

-----------------------------------------------------------------------------
(* RTSP, as far as it is used: a request renews the session; a session is  *)
(* opened when the sender listens, or not at all (nobody reads the errors  *)
(* of the pipelines, which may try again when they are set to play).       *)
Renew(r) == session' = [session EXCEPT ![r] = Timeout]
Open(r) ==
  \/ sender = "up" /\ Renew(r)
  \/ sender # "up" /\ UNCHANGED session
Request(r) ==
  IF session[r] # NoSession THEN Renew(r)
  ELSE Open(r) \/ UNCHANGED session

(* The server forks the sender, which listens some time later, and kills   *)
(* it; what it knew is gone.                                               *)
Fork ==
  /\ sender = "off" /\ sender' = "starting"
  /\ UNCHANGED <<cleanIn, session, receiver, options, timerVars, keepIn, silent>>

Attach ==
  /\ sender = "starting" /\ sender' = "up"
  /\ cleanIn' = CleanPeriod
  /\ UNCHANGED <<session, receiver, options, timerVars, keepIn, silent>>

KillSender ==
  /\ sender # "off" /\ sender' = "off"
  /\ cleanIn' = 0
  /\ session' = [r \in Receivers |-> NoSession]
  /\ UNCHANGED <<receiver, options, timerVars, keepIn, silent>>

(* Mutant of Again: the callback returns FALSE, and is not called again.   *)
NotAgain == cleanIn' = 10 * Long /\ UNCHANGED sender
Again == cleanIn' = CleanPeriod /\ UNCHANGED sender

(* timeout: gst_rtsp_session_pool_cleanup.                                 *)
Cleanup ==
  /\ sender = "up" /\ cleanIn = 0
  /\ Again
  /\ session' = [r \in Receivers |->
                   IF session[r] = 0 THEN NoSession ELSE session[r]]
  /\ UNCHANGED <<receiver, options, timerVars, keepIn, silent>>

-----------------------------------------------------------------------------
(* Mutant of FirstSize: the small picture comes first.                     *)
FirstSizeSmall == FALSE
FirstSize == TRUE

(* A receiver starts: the timers are set, both pipelines are set to play.  *)
StartReceiver(r) ==
  /\ receiver[r] = "off"
  /\ receiver' = [receiver EXCEPT ![r] = "on"]
  /\ \E opts \in Options[r] : options' = [options EXCEPT ![r] = opts]
  /\ sizeIn' = [sizeIn EXCEPT ![r] = SizePeriod]
  /\ stateIn' = [stateIn EXCEPT ![r] = StatePeriod]
  /\ wide' = [wide EXCEPT ![r] = FirstSize]
  /\ state' = [state EXCEPT ![r] = "PLAYING"]
  /\ keepIn' = [keepIn EXCEPT ![r] = KeepAlive]
  /\ Open(r)
  /\ UNCHANGED <<senderVars, sizeFlag, stateFlag, silent>>

(* closeChildProcess of user.c.  Its session ends later, by the sender.    *)
KillReceiver(r) ==
  /\ receiver[r] = "on"
  /\ receiver' = [receiver EXCEPT ![r] = "killed"]
  /\ UNCHANGED <<senderVars, session, options, timerVars, keepIn, silent>>

(* The next run of a receiver (one process for each run).                  *)
NextReceiver(r) ==
  /\ receiver[r] = "killed" /\ session[r] = NoSession
  /\ receiver' = [receiver EXCEPT ![r] = "off"]
  /\ options' = [options EXCEPT ![r] = {}]
  /\ sizeFlag' = [sizeFlag EXCEPT ![r] = FALSE]
  /\ stateFlag' = [stateFlag EXCEPT ![r] = FALSE]
  /\ sizeIn' = [sizeIn EXCEPT ![r] = 0]
  /\ stateIn' = [stateIn EXCEPT ![r] = 0]
  /\ keepIn' = [keepIn EXCEPT ![r] = 0]
  /\ silent' = [silent EXCEPT ![r] = 0]
  /\ UNCHANGED <<senderVars, session, wide, state>>

(* timeout_videosize_change_cb.                                            *)
ChangeSize(r) ==
  /\ receiver[r] = "on" /\ sizeIn[r] = 0
  /\ sizeIn' = [sizeIn EXCEPT ![r] = SizePeriod]
  /\ wide' = [wide EXCEPT ![r] = sizeFlag[r]]
  /\ sizeFlag' = [sizeFlag EXCEPT ![r] = ~ @]
  /\ UNCHANGED <<senderVars, session, receiver, options, stateIn, stateFlag,
                 state, keepIn, silent>>

(* Mutant of NextFlag: flag = FALSE is forgotten.                          *)
NextFlagStuck(flag) == TRUE
NextFlag(flag) == ~ flag

(* client_setPaused and client_setPlaying, for both pipelines.             *)
SetTo(flag) == IF flag THEN "PAUSED" ELSE "PLAYING"

(* timeout_state_control_cb: the first call finds the pipelines playing.   *)
ControlState(r) ==
  /\ receiver[r] = "on" /\ stateIn[r] = 0
  /\ stateIn' = [stateIn EXCEPT ![r] = StatePeriod]
  /\ state' = [state EXCEPT ![r] = SetTo(stateFlag[r])]
  /\ stateFlag' = [stateFlag EXCEPT ![r] = NextFlag(@)]
  /\ IF state'[r] # state[r] \/ session[r] = NoSession
     THEN Request(r) ELSE UNCHANGED session
  /\ UNCHANGED <<senderVars, receiver, options, sizeIn, sizeFlag, wide, keepIn,
                 silent>>

(* While it plays, rtspsrc keeps its session; a pause is kept by nobody.   *)
SendKeepAlive(r) ==
  /\ receiver[r] = "on" /\ keepIn[r] = 0
  /\ keepIn' = [keepIn EXCEPT ![r] = KeepAlive]
  /\ IF state[r] = "PLAYING" /\ session[r] # NoSession
     THEN Renew(r) ELSE UNCHANGED session
  /\ UNCHANGED <<senderVars, receiver, options, timerVars, silent>>

-----------------------------------------------------------------------------
(* A second passes; first everything that is due is done.                  *)
(* Mutant of NothingDue: time does not wait for the timers.                *)
NothingDueCares == TRUE
NothingDue ==
  /\ sender = "up" => cleanIn > 0
  /\ \A r \in Receivers : receiver[r] = "on" =>
       sizeIn[r] > 0 /\ stateIn[r] > 0 /\ keepIn[r] > 0

Less(r, n) == IF receiver[r] = "on" THEN n - 1 ELSE n
Tick ==
  /\ NothingDue
  /\ cleanIn' = IF sender = "up" THEN cleanIn - 1 ELSE cleanIn
  /\ sizeIn' = [r \in Receivers |-> Less(r, sizeIn[r])]
  /\ stateIn' = [r \in Receivers |-> Less(r, stateIn[r])]
  /\ keepIn' = [r \in Receivers |-> Less(r, keepIn[r])]
  /\ session' = [r \in Receivers |->
                   IF session[r] > 0 THEN session[r] - 1 ELSE session[r]]
  /\ silent' = [r \in Receivers |->
                  IF receiver[r] = "killed" /\ silent[r] < Long
                  THEN silent[r] + 1 ELSE silent[r]]
  /\ UNCHANGED <<sender, receiver, options, sizeFlag, stateFlag, wide, state>>

MediaInit ==
  /\ sender = "off" /\ cleanIn = 0
  /\ session = [r \in Receivers |-> NoSession]
  /\ receiver = [r \in Receivers |-> "off"]
  /\ options = [r \in Receivers |-> {}]
  /\ sizeIn = [r \in Receivers |-> 0] /\ stateIn = [r \in Receivers |-> 0]
  /\ sizeFlag = [r \in Receivers |-> FALSE]
  /\ stateFlag = [r \in Receivers |-> FALSE]
  /\ wide = [r \in Receivers |-> TRUE]
  /\ state = [r \in Receivers |-> "PLAYING"]
  /\ keepIn = [r \in Receivers |-> 0] /\ silent = [r \in Receivers |-> 0]

MediaNext ==
  \/ Fork \/ Attach \/ KillSender \/ Cleanup
  \/ \E r \in Receivers :
       \/ StartReceiver(r) \/ KillReceiver(r) \/ NextReceiver(r)
       \/ ChangeSize(r) \/ ControlState(r) \/ SendKeepAlive(r)
  \/ Tick

MediaSpec == MediaInit /\ [][MediaNext]_mediaVars

-----------------------------------------------------------------------------
(* The picture and the sound come from one place, however the receiver was *)
(* started (by user.c: with -l).  The exception is -a alone, with which    *)
(* the sound has an empty location.                                        *)
SameSource ==
  \A r \in Receivers : receiver[r] = "on" /\ options[r] # {"a"} =>
    VideoLine(options[r]).location = AudioLine(options[r]).location

(* The sender never takes away the session of a receiver that lives: its   *)
(* pauses, in which nothing keeps the session, are shorter than the time   *)
(* after which a session is stale, wherever the timers of the two and the  *)
(* requests in between happen to fall.                                     *)
LiveSessionStays ==
  [][\A r \in Receivers :
       receiver[r] = "on" /\ session[r] # NoSession /\ sender' # "off" =>
         session'[r] # NoSession]_mediaVars

(* A receiver that was killed, and says goodbye to nobody, is forgotten by *)
(* the sender: not later than the time-out and one period of its timer.    *)
DeadSessionGoes ==
  \A r \in Receivers : receiver[r] = "killed" /\ session[r] # NoSession =>
    silent[r] <= Timeout + CleanPeriod

(* Every call of the size timer changes the picture: what its static flag  *)
(* says is what is shown, from the first picture on and in every run.      *)
SizeAlternates ==
  [][\A r \in Receivers :
       sizeFlag'[r] # sizeFlag[r] /\ receiver[r] = "on" => wide'[r] # wide[r]]_mediaVars
=============================================================================
