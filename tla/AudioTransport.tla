--------------------------- MODULE AudioTransport ---------------------------
(***************************************************************************)
(* The three threads of the audio engine (AudioIO): the main thread, which *)
(* starts, stops and seeks a stream; the audio thread, which exchanges     *)
(* samples between the sequences and the ring buffers; and PortAudio's     *)
(* callback.  They share four atomic flags, an acknowledgement the audio   *)
(* thread leaves for the main thread, and one mutex.                       *)
(***************************************************************************)
EXTENDS Integers

CONSTANTS
    Free,            \* nobody holds mSuspendAudioThread
    MaxStreams,      \* bound: streams started
    MaxSeeks,        \* bound: seeks the user asks for
    CaptureCapacity, \* callbacks whose input the capture rings can hold
    Faults           \* what else may happen, a subset of AllFaults

(* A stop while a callback serves a seek or is still going to; a stop after *)
(* a seek was served and before the audio thread has resumed.              *)
AllFaults == {"stopDuringSeek", "stopBeforeResume"}

ASSUME BoundAssumption ==
    MaxStreams \in Nat /\ MaxSeeks \in Nat /\ CaptureCapacity \in Nat
ASSUME FaultsAssumption == Faults \subseteq AllFaults
ASSUME FreeAssumption == Free \notin {"main", "callback"}

VARIABLES
    main,       \* where the main thread is
    then,       \* what a StopStream is part of: a stop, a start or monitoring
    audio,      \* where the audio thread is in a pass of its loop
    lastState,  \* its local lastState
    cb,         \* where PortAudio's callback is
    cbToken,    \* the token CallbackDoSeek read before it locked
    once,       \* mAudioThreadShouldCallSequenceBufferExchangeOnce
    running,    \* mAudioThreadSequenceBufferExchangeLoopRunning
    monitoring, \* mAudioThreadMonitoring
    active,     \* mAudioThreadSequenceBufferExchangeLoopActive
    ack,        \* mAudioThreadAcknowledge
    mutex,      \* mSuspendAudioThread
    token,      \* mStreamToken
    lastToken,  \* mNextStreamToken
    stream,     \* the PortAudio stream
    seek,       \* mSeek is not zero
    seeks,      \* how many seeks were asked for
    primed,     \* the playback rings were filled since they were emptied
    captured    \* callbacks whose input is still in the capture rings

flags == <<once, running, monitoring, active, ack>>
mainVars == <<main, then, token, lastToken, seeks>>
audioVars == <<audio, lastState>>
cbVars == <<cb, cbToken>>
vars == <<mainVars, audioVars, cbVars, flags, mutex, stream, seek, primed,
          captured>>

Init ==
    /\ main = "idle" /\ then = "idle"
    /\ audio = "top" /\ lastState = "skip"
    /\ cb = "out" /\ cbToken = 0
    /\ once = FALSE /\ running = FALSE /\ monitoring = FALSE
    /\ active = FALSE /\ ack = "none"
    /\ mutex = Free
    /\ token = 0 /\ lastToken = 0
    /\ stream = "closed"
    /\ seek = FALSE /\ seeks = 0
    /\ primed = FALSE /\ captured = 0

IsMonitoring == stream # "closed" /\ token = 0

-----------------------------------------------------------------------------
(* The audio thread: one pass of the loop of AudioThread().                *)

PassBegins ==
    /\ audio = "top"
    /\ audio' = "testOnce"
    /\ active' = TRUE
    /\ UNCHANGED <<mainVars, lastState, cbVars, once, running, monitoring,
                   ack, mutex, stream, seek, primed, captured>>

TestOnce ==
    /\ audio = "testOnce"
    /\ audio' = IF once THEN "exchangeOnce" ELSE "testRunning"
    /\ UNCHANGED <<mainVars, lastState, cbVars, flags, mutex, stream, seek,
                   primed, captured>>

TestRunning ==
    /\ audio = "testRunning"
    /\ audio' = IF running THEN "announce" ELSE "testMonitoring"
    /\ UNCHANGED <<mainVars, lastState, cbVars, flags, mutex, stream, seek,
                   primed, captured>>

TestMonitoring ==
    /\ audio = "testMonitoring"
    /\ audio' = IF monitoring THEN "announceMonitoring" ELSE "retire"
    /\ UNCHANGED <<mainVars, lastState, cbVars, flags, mutex, stream, seek,
                   primed, captured>>

(* Acknowledge a start that was not acknowledged yet, and exchange.        *)
Announce ==
    /\ audio = "announce"
    /\ ack' = IF lastState # "callback" THEN "start" ELSE ack
    /\ lastState' = "callback"
    /\ audio' = "exchange"
    /\ UNCHANGED <<mainVars, cbVars, once, running, monitoring, active,
                   mutex, stream, seek, primed, captured>>

(* Mutant: monitoring is not acknowledged.                                 *)
AnnounceMonitoringSilently ==
    /\ audio = "announceMonitoring"
    /\ lastState' = "monitoring"
    /\ audio' = "bottom"
    /\ UNCHANGED <<mainVars, cbVars, flags, mutex, stream, seek, primed,
                   captured>>

AnnounceMonitoring ==
    /\ audio = "announceMonitoring"
    /\ ack' = IF lastState # "monitoring" THEN "start" ELSE ack
    /\ lastState' = "monitoring"
    /\ audio' = "bottom"
    /\ UNCHANGED <<mainVars, cbVars, once, running, monitoring, active,
                   mutex, stream, seek, primed, captured>>

(* Told to neither loop nor process once: acknowledge the stop.            *)
Retire ==
    /\ audio = "retire"
    /\ ack' = IF lastState # "skip" THEN "stop" ELSE ack
    /\ lastState' = "skip"
    /\ audio' = "bottom"
    /\ UNCHANGED <<mainVars, cbVars, once, running, monitoring, active,
                   mutex, stream, seek, primed, captured>>

(* SequenceBufferExchange in the running loop: the capture rings are only  *)
(* drained when they hold enough.                                          *)
Exchange ==
    /\ audio = "exchange"
    /\ captured' \in {0, captured}
    /\ audio' = "bottom"
    /\ UNCHANGED <<mainVars, lastState, cbVars, flags, mutex, stream, seek,
                   primed>>

(* SequenceBufferExchange on request: the playback rings are filled and    *)
(* the capture rings drained whatever they hold.                           *)
ExchangeOnce ==
    /\ audio = "exchangeOnce"
    /\ primed' = TRUE
    /\ captured' = 0
    /\ audio' = "clearOnce"
    /\ UNCHANGED <<mainVars, lastState, cbVars, flags, mutex, stream, seek>>

ClearOnce ==
    /\ audio = "clearOnce"
    /\ once' = FALSE
    /\ lastState' = "prime"
    /\ audio' = "bottom"
    /\ UNCHANGED <<mainVars, cbVars, running, monitoring, active, ack,
                   mutex, stream, seek, primed, captured>>

PassEnds ==
    /\ audio = "bottom"
    /\ active' = FALSE
    /\ audio' = "top"
    /\ UNCHANGED <<mainVars, lastState, cbVars, once, running, monitoring,
                   ack, mutex, stream, seek, primed, captured>>

AudioThread ==
    \/ PassBegins \/ TestOnce \/ TestRunning \/ TestMonitoring \/ Announce
    \/ AnnounceMonitoring \/ Retire \/ Exchange \/ ExchangeOnce \/ ClearOnce
    \/ PassEnds

-----------------------------------------------------------------------------
(* PortAudio's callback: AudioCallback().                                  *)

CallbackBegins ==
    /\ stream = "running"
    /\ cb = "out"
    /\ cb' = "fill"
    /\ UNCHANGED <<mainVars, audioVars, cbToken, flags, mutex, stream, seek,
                   primed, captured>>

(* FillOutputBuffers: nothing to do when monitoring; a seek is served      *)
(* instead of filling; otherwise samples are taken from the rings.         *)
FillOutputBuffers ==
    /\ cb = "fill"
    /\ cb' = CASE token <= 0 -> "out"
               [] token > 0 /\ seek -> "lock"
               [] token > 0 /\ ~seek -> "capture"
    /\ cbToken' = IF token > 0 /\ seek THEN token ELSE cbToken
    /\ UNCHANGED <<mainVars, audioVars, flags, mutex, stream, seek, primed,
                   captured>>

(* DrainInputBuffers, if the stream records; the callback may find the     *)
(* playback complete.                                                      *)
DrainInputBuffers ==
    /\ cb = "capture"
    /\ captured' \in {captured, captured + 1}
    /\ captured' <= CaptureCapacity
    /\ stream' \in {stream, "finished"}
    /\ cb' = "out"
    /\ UNCHANGED <<mainVars, audioVars, cbToken, flags, mutex, seek, primed>>

Seeking == {"lock", "pause", "reposition", "reload"}

(* CallbackDoSeek: wait for the mutex; a stream that was destroyed in the  *)
(* meantime is left; otherwise the audio thread is told to pause.          *)
SeekLocks ==
    /\ cb = "lock"
    /\ mutex = Free
    /\ IF cbToken # token
       THEN /\ cb' = "out"
            /\ stream' = IF stream = "running" THEN "finished" ELSE stream
            /\ UNCHANGED <<mutex, running>>
       ELSE /\ cb' = "pause"
            /\ mutex' = "callback"
            /\ running' = FALSE
            /\ UNCHANGED stream
    /\ UNCHANGED <<mainVars, audioVars, cbToken, once, monitoring, active,
                   ack, seek, primed, captured>>

(* Mutant: the seek does not wait for the pass that is under way.          *)
SeekWithoutPause ==
    /\ cb = "pause"
    /\ cb' = "reposition"
    /\ UNCHANGED <<mainVars, audioVars, cbToken, flags, mutex, stream, seek,
                   primed, captured>>

SeekPauses ==
    /\ cb = "pause"
    /\ ~active
    /\ cb' = "reposition"
    /\ UNCHANGED <<mainVars, audioVars, cbToken, flags, mutex, stream, seek,
                   primed, captured>>

(* The mixers are repositioned, the rings emptied, and the audio thread is *)
(* asked to fill them again.                                               *)
SeekRepositions ==
    /\ cb = "reposition"
    /\ seek' = FALSE
    /\ primed' = FALSE
    /\ once' = TRUE
    /\ cb' = "reload"
    /\ UNCHANGED <<mainVars, audioVars, cbToken, running, monitoring, active,
                   ack, mutex, stream, captured>>

(* Mutant: the seek does not wait until the rings are filled again.        *)
SeekWithoutReload ==
    /\ cb = "reload"
    /\ running' = TRUE
    /\ mutex' = Free
    /\ cb' = "out"
    /\ UNCHANGED <<mainVars, audioVars, cbToken, once, monitoring, active,
                   ack, stream, seek, primed, captured>>

SeekReturns ==
    /\ cb = "reload"
    /\ ~once
    /\ running' = TRUE
    /\ mutex' = Free
    /\ cb' = "out"
    /\ UNCHANGED <<mainVars, audioVars, cbToken, once, monitoring, active,
                   ack, stream, seek, primed, captured>>

CallbackBody ==
    \/ FillOutputBuffers \/ DrainInputBuffers \/ SeekLocks \/ SeekPauses
    \/ SeekRepositions \/ SeekReturns

-----------------------------------------------------------------------------
(* The main thread: StartStream and StartMonitoring.                       *)

(* StopMonitoring first, when monitoring; then the token is taken.         *)
StartStream ==
    /\ main = "idle"
    /\ token = 0
    /\ lastToken < MaxStreams
    /\ IF IsMonitoring
       THEN main' = "stop" /\ then' = "setup" /\ UNCHANGED token
       ELSE main' = "setup" /\ token' = -1 /\ UNCHANGED then
    /\ UNCHANGED <<lastToken, seeks, audioVars, cbVars, flags, mutex, stream,
                   seek, primed, captured>>

(* StartPortAudioStream or AllocateBuffers fails.                          *)
SetupFails ==
    /\ main = "setup"
    /\ token' = 0
    /\ seek' = FALSE
    /\ main' = "idle"
    /\ UNCHANGED <<then, lastToken, seeks, audioVars, cbVars, flags, mutex,
                   stream, primed, captured>>

(* Buffers, mixers and the transport state are made, the time queue primed *)
(* and the audio thread asked to fill the rings.                           *)
Setup ==
    /\ main = "setup"
    /\ stream' = "open"
    /\ seek' = FALSE
    /\ primed' = FALSE
    /\ captured' = 0
    /\ once' = TRUE
    /\ main' = "prime"
    /\ UNCHANGED <<then, token, lastToken, seeks, audioVars, cbVars, running,
                   monitoring, active, ack, mutex>>

(* The token is set before PortAudio is started; StartAudioThread.         *)
StartAudioThread ==
    /\ main = "prime"
    /\ ~once
    /\ lastToken' = lastToken + 1
    /\ token' = lastToken'
    /\ running' = TRUE
    /\ main' = "launch"
    /\ UNCHANGED <<then, seeks, audioVars, cbVars, once, monitoring, active,
                   ack, mutex, stream, seek, primed, captured>>

(* Pa_StartStream, which may fail.                                         *)
Launch ==
    /\ main = "launch"
    /\ \/ stream' = "running" /\ main' = "awaitStart"
       \/ main' = "failed" /\ UNCHANGED stream
    /\ UNCHANGED <<then, token, lastToken, seeks, audioVars, cbVars, flags,
                   mutex, seek, primed, captured>>

(* StartPortAudioStream, which may fail, then Pa_StartStream, which may    *)
(* fail with nobody noticing.                                              *)
OpenMonitor ==
    \/ /\ monitoring' = TRUE
       /\ stream' \in {"open", "running"}
       /\ main' = "awaitStart"
    \/ /\ main' = "idle"
       /\ UNCHANGED <<monitoring, stream>>

StartMonitoring ==
    /\ main = "idle"
    /\ token = 0
    /\ IF IsMonitoring
       THEN /\ main' = "stop" /\ then' = "monitor"
            /\ UNCHANGED <<monitoring, stream>>
       ELSE OpenMonitor /\ UNCHANGED then
    /\ UNCHANGED <<token, lastToken, seeks, audioVars, cbVars, once, running,
                   active, ack, mutex, seek, primed, captured>>

(* WaitForAudioThreadStarted: the load and the store are two steps.        *)
StartSeen ==
    /\ main = "awaitStart" /\ ack = "start" /\ main' = "ackStart"
    /\ UNCHANGED <<then, token, lastToken, seeks, audioVars, cbVars, flags,
                   mutex, stream, seek, primed, captured>>

StartAcknowledged ==
    /\ main = "ackStart"
    /\ ack' = "none"
    /\ main' = "idle"
    /\ UNCHANGED <<then, token, lastToken, seeks, audioVars, cbVars, once,
                   running, monitoring, active, mutex, stream, seek,
                   primed, captured>>

(* PortAudio did not start: the start and stop handshakes, then the        *)
(* cleanup.                                                                *)
FailedStartSeen ==
    /\ main = "failed"
    /\ ack = "start"
    /\ main' = "failedStop"
    /\ ack' = "none"
    /\ UNCHANGED <<then, token, lastToken, seeks, audioVars, cbVars, once,
                   running, monitoring, active, mutex, stream, seek,
                   primed, captured>>

FailedStop ==
    /\ main = "failedStop"
    /\ running' = FALSE
    /\ monitoring' = FALSE
    /\ main' = "failedAwaitStop"
    /\ UNCHANGED <<then, token, lastToken, seeks, audioVars, cbVars, once,
                   active, ack, mutex, stream, seek,
                   primed, captured>>

FailedStopSeen ==
    /\ main = "failedAwaitStop"
    /\ ack = "stop"
    /\ ack' = "none"
    /\ token' = 0
    /\ main' = "cleanup"
    /\ UNCHANGED <<then, lastToken, seeks, audioVars, cbVars, once, running,
                   monitoring, active, mutex, stream, seek, primed,
                   captured>>

StartStreamCleanup ==
    /\ main = "cleanup"
    /\ stream' = "closed"
    /\ main' = "idle"
    /\ UNCHANGED <<then, token, lastToken, seeks, audioVars, cbVars, flags,
                   mutex, seek, primed, captured>>

-----------------------------------------------------------------------------
(* The main thread: SeekStream and StopStream.                             *)

SeekStream ==
    /\ main = "idle"
    /\ token > 0
    /\ seeks < MaxSeeks
    /\ seek' = TRUE
    /\ seeks' = seeks + 1
    /\ UNCHANGED <<main, then, token, lastToken, audioVars, cbVars, flags,
                   mutex, stream, primed, captured>>

StopStream ==
    /\ main = "idle"
    /\ stream # "closed"
    /\ (seek /\ stream = "running") \/ cb \in Seeking
           => "stopDuringSeek" \in Faults
    /\ running /\ lastState # "callback" => "stopBeforeResume" \in Faults
    /\ main' = "stop"
    /\ then' = "idle"
    /\ UNCHANGED <<token, lastToken, seeks, audioVars, cbVars, flags, mutex,
                   stream, seek, primed, captured>>

(* The mutex is held to the end; StopAudioThread.                          *)
StopAudioThread ==
    /\ main = "stop"
    /\ mutex = Free
    /\ mutex' = "main"
    /\ running' = FALSE
    /\ monitoring' = FALSE
    /\ main' = "abort"
    /\ UNCHANGED <<then, token, lastToken, seeks, audioVars, cbVars, once,
                   active, ack, stream, seek, primed, captured>>

(* Pa_AbortStream: no callback begins any more, and the call returns when  *)
(* none is running.                                                        *)
AbortStream ==
    /\ main = "abort"
    /\ stream' = "finished"
    /\ main' = "close"
    /\ UNCHANGED <<then, token, lastToken, seeks, audioVars, cbVars, flags,
                   mutex, seek, primed, captured>>

CloseStream ==
    /\ main = "close"
    /\ cb = "out"
    /\ stream' = "closed"
    /\ main' = "awaitStop"
    /\ UNCHANGED <<then, token, lastToken, seeks, audioVars, cbVars, flags,
                   mutex, seek, primed, captured>>

StopSeen ==
    /\ main = "awaitStop" /\ ack = "stop" /\ main' = "ackStop"
    /\ UNCHANGED <<then, token, lastToken, seeks, audioVars, cbVars, flags,
                   mutex, stream, seek, primed, captured>>

(* Mutant: the last exchange is left out.                                  *)
StopAcknowledgedNoDrain ==
    /\ main = "ackStop"
    /\ ack' = "none"
    /\ main' = "teardown"
    /\ UNCHANGED <<then, token, lastToken, seeks, audioVars, cbVars, once,
                   running, monitoring, active, mutex, stream, seek,
                   primed, captured>>

(* Only a stream, not monitoring, has captured data to drain.              *)
StopAcknowledged ==
    /\ main = "ackStop"
    /\ ack' = "none"
    /\ main' = IF token > 0 THEN "drain" ELSE "teardown"
    /\ UNCHANGED <<then, token, lastToken, seeks, audioVars, cbVars, once,
                   running, monitoring, active, mutex, stream, seek,
                   primed, captured>>

(* ProcessOnceAndWait.                                                     *)
ProcessOnce ==
    /\ main = "drain"
    /\ once' = TRUE
    /\ main' = "awaitOnce"
    /\ UNCHANGED <<then, token, lastToken, seeks, audioVars, cbVars, running,
                   monitoring, active, ack, mutex, stream, seek,
                   primed, captured>>

OnceDone ==
    /\ main = "awaitOnce"
    /\ ~once
    /\ main' = "teardown"
    /\ UNCHANGED <<then, token, lastToken, seeks, audioVars, cbVars, flags,
                   mutex, stream, seek, primed, captured>>

(* The transport state and the buffers are released, the recording is      *)
(* committed and the token given back; the mutex is unlocked on return,    *)
(* and what StopStream was part of goes on.                                *)
Teardown ==
    /\ main = "teardown"
    /\ mutex' = Free
    /\ captured' = 0
    /\ primed' = FALSE
    /\ CASE then = "idle" ->
              /\ main' = "idle" /\ token' = 0
              /\ UNCHANGED <<monitoring, stream>>
         [] then = "setup" ->
              /\ main' = "setup" /\ token' = -1
              /\ UNCHANGED <<monitoring, stream>>
         [] then = "monitor" ->
              OpenMonitor /\ token' = 0
    /\ then' = "idle"
    /\ UNCHANGED <<lastToken, seeks, audioVars, cbVars, once, running,
                   active, ack, seek>>

(* Steps a call of the main thread takes once it is under way.             *)
MainSteps ==
    \/ Setup \/ SetupFails \/ StartAudioThread \/ Launch \/ StartSeen
    \/ StartAcknowledged \/ FailedStartSeen \/ FailedStop \/ FailedStopSeen
    \/ StartStreamCleanup \/ StopAudioThread \/ AbortStream \/ CloseStream
    \/ StopSeen \/ StopAcknowledged \/ ProcessOnce \/ OnceDone \/ Teardown

User == StartStream \/ StartMonitoring \/ SeekStream \/ StopStream

Next ==
    \/ AudioThread \/ CallbackBegins \/ CallbackBody
    \/ MainSteps \/ User

(* Threads are scheduled; the user and the device owe nothing.  The loops  *)
(* of CallbackDoSeek and of the handshakes poll; the audio thread sleeps   *)
(* most of each period with the active flag down, so a poll that goes on   *)
(* for ever finds it down (strong fairness).                               *)
Fairness ==
    /\ WF_vars(AudioThread)
    /\ WF_vars(CallbackBody)
    /\ SF_vars(SeekPauses)
    /\ WF_vars(MainSteps)

Spec == Init /\ [][Next]_vars /\ Fairness

-----------------------------------------------------------------------------
(* Properties.                                                             *)

TypeOK ==
    /\ main \in {"idle", "setup", "prime", "launch", "awaitStart", "ackStart",
                 "failed", "failedStop", "failedAwaitStop", "cleanup",
                 "stop", "abort", "close", "awaitStop", "ackStop", "drain",
                 "awaitOnce", "teardown"}
    /\ then \in {"idle", "setup", "monitor"}
    /\ audio \in {"top", "testOnce", "testRunning", "testMonitoring",
                  "announce", "announceMonitoring", "retire", "exchange",
                  "exchangeOnce", "clearOnce", "bottom"}
    /\ lastState \in {"skip", "prime", "monitoring", "callback"}
    /\ cb \in {"out", "fill", "lock", "pause", "reposition", "reload",
               "capture"}
    /\ cbToken \in 0..MaxStreams
    /\ once \in BOOLEAN /\ running \in BOOLEAN /\ monitoring \in BOOLEAN
    /\ active \in BOOLEAN /\ ack \in {"none", "start", "stop"}
    /\ mutex \in {Free, "main", "callback"}
    /\ token \in -1..MaxStreams /\ lastToken \in 0..MaxStreams
    /\ stream \in {"closed", "open", "running", "finished"}
    /\ seek \in BOOLEAN /\ seeks \in 0..MaxSeeks
    /\ primed \in BOOLEAN /\ captured \in 0..CaptureCapacity

Exchanging == audio \in {"exchange", "exchangeOnce"}
Rebuilding == main \in {"setup", "cleanup", "teardown"}

(* The audio thread exchanges samples neither while the main thread makes  *)
(* or releases the buffers, mixers and effects (StartStream, StopStream),  *)
(* nor while the callback repositions them for a seek; and no callback is  *)
(* running while they are released.                                        *)
BuffersNotShared ==
    /\ Exchanging => ~Rebuilding /\ cb # "reposition"
    /\ Rebuilding => cb = "out"

(* Input that made it into the callback has left the capture rings when    *)
(* StopStream commits the recording.                                       *)
CapturedIsRecorded == main = "teardown" /\ token > 0 => captured = 0

(* The callback of a stream takes no samples from rings that were emptied  *)
(* (by a start or a seek) and not filled again.                            *)
RingsPrimed == cb = "fill" /\ token > 0 => primed

(* StartStream, StartMonitoring and StopStream return, and so does the     *)
(* callback, whether or not it serves a seek: no handshake waits for ever. *)
CallsReturn ==
    /\ main # "idle" ~> main = "idle"
    /\ cb # "out" ~> cb = "out"
=============================================================================
