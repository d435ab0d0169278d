----------------------- MODULE AudioTransport_proofs -----------------------
(***************************************************************************)
(* What the threads of the audio engine share is used by one of them at a  *)
(* time, for any number of streams and seeks, as long as no stop overtakes *)
(* a seek (Faults = {}).  What was captured is recorded and no stale ring  *)
(* is played even if one does.                                             *)
(***************************************************************************)
EXTENDS AudioTransport, TLAPS

(* Phases of the main thread: without a stream; with the flags lowered and *)
(* the answer outstanding; with a stream or monitoring that may run.       *)
Off == \/ main \in {"setup", "prime", "drain", "awaitOnce", "teardown",
                    "cleanup"}
       \/ (main = "idle" /\ stream = "closed")
Lowered == main \in {"abort", "close", "awaitStop", "failedAwaitStop"}
Up == main \in {"idle", "awaitStart", "ackStart", "stop"} /\ stream # "closed"

Paused == cb \in {"pause", "reposition", "reload"}

(* The token, the stream and the mutex tell the phase.                     *)
PhaseInv ==
    /\ main \in {"prime", "launch", "failed", "failedStop",
                 "failedAwaitStop", "cleanup"} => stream = "open"
    /\ main \in {"awaitStart", "ackStart", "stop", "abort"}
         => stream # "closed"
    /\ main \in {"idle", "awaitStart", "ackStart", "stop", "abort"}
       /\ stream = "open" => token = 0
    /\ main = "close" => stream = "finished"
    /\ main \in {"setup", "awaitStop", "ackStop", "drain", "awaitOnce",
                 "teardown"} => stream = "closed"
    /\ token = -1 <=> main \in {"setup", "prime"}
    /\ main \in {"launch", "failed", "failedStop", "failedAwaitStop", "drain",
                 "awaitOnce"} => token > 0
    /\ main = "cleanup" => token = 0
    /\ main = "idle" /\ stream = "closed" => token = 0
    /\ then # "idle"
         => /\ token = 0
            /\ main \in {"stop", "abort", "close", "awaitStop", "ackStop",
                        "teardown"}
    /\ main \in {"setup", "prime"} \/ then = "setup"
         => lastToken < MaxStreams
    /\ mutex = "main" <=> main \in {"abort", "close", "awaitStop", "ackStop",
                                    "drain", "awaitOnce", "teardown"}
    /\ mutex = "callback" <=> Paused

(* The callback runs only while the stream does; who asks for an exchange  *)
(* waits for it, and the audio thread lowers the flag at its end.          *)
RequestInv ==
    /\ cb # "out" => Up \/ main \in {"abort", "close"}
    /\ once => main \in {"prime", "awaitOnce"} \/ cb = "reload"
    /\ audio \in {"exchangeOnce", "clearOnce"} => once

(* What an exchange on request leaves behind.                              *)
ExchangeInv ==
    /\ (main = "prime" \/ cb = "reload") /\ (~once \/ audio = "clearOnce")
         => primed
    /\ token > 0 => \/ primed \/ cb = "reload"
    /\ main = "awaitOnce" /\ (~once \/ audio = "clearOnce") => captured = 0
    /\ main = "teardown" /\ token > 0 => captured = 0

(* This much holds whatever a stop overtakes.                              *)
Requests == TypeOK /\ PhaseInv /\ RequestInv /\ ExchangeInv

(* The callback serves a seek only while the main thread is idle.          *)
CallbackInv ==
    /\ stream = "finished" /\ Up => cb = "out"
    /\ cb \in Seeking => main = "idle" /\ token > 0 /\ cbToken = token
    /\ seek /\ token > 0 => main = "idle" \/ (cb = "out" /\ stream # "running")
    /\ main \in {"prime", "launch", "failed", "failedStop",
                 "failedAwaitStop"} => ~seek
    /\ cb = "capture" => token > 0

(* The flags the audio thread goes by.                                     *)
FlagInv ==
    /\ active <=> audio # "top"
    /\ running <=>
         \/ main \in {"launch", "failed", "failedStop"}
         \/ Up /\ token > 0 /\ ~Paused
    /\ monitoring <=> Up /\ token = 0

(* Where the audio thread can be, given what it was told.                  *)
LoopInv ==
    /\ audio \in {"announce", "exchange"}
         => running \/ cb = "pause" \/ (Lowered /\ lastState = "callback")
    /\ audio = "announceMonitoring"
         => monitoring \/ (Lowered /\ lastState = "monitoring")
    /\ running /\ lastState = "callback"
         => audio \notin {"testMonitoring", "retire"}
    /\ monitoring /\ lastState = "monitoring" => audio # "retire"

(* What the acknowledgement and lastState say of each other.               *)
AckInv ==
    /\ ack = "stop" => lastState \in {"skip", "prime"}
    /\ Off => ack # "start" /\ lastState \in {"skip", "prime"}
    /\ main \in {"launch", "failed", "awaitStart", "ackStart"} /\ ack = "start"
         => lastState = IF token > 0 THEN "callback" ELSE "monitoring"
    /\ main = "ackStart" => ack = "start"
    /\ main = "stop" /\ token > 0 => lastState = "callback"
    /\ main \in {"idle", "stop"} /\ monitoring => lastState = "monitoring"
    /\ main = "failedStop" => lastState = "callback"
    /\ Lowered => \/ lastState \in {"callback", "monitoring"}
                  \/ lastState = "skip" /\ ack = "stop"
    /\ main = "ackStop" => ack = "stop" /\ lastState = "skip"
    /\ cb = "reload" /\ ~once => lastState \in {"skip", "prime"}

Inv == Requests /\ CallbackInv /\ FlagInv /\ LoopInv /\ AckInv

USE BoundAssumption, FreeAssumption

(* Types are kept; the count of streams needs PhaseInv, since the bound is  *)
(* tested when a start begins and the count grows later.                   *)
LEMMA StepKeepsTypes ==
    ASSUME TypeOK, PhaseInv, [Next]_vars
    PROVE  TypeOK'
<1> USE DEF TypeOK, mainVars, audioVars, cbVars, flags
<1>1. CASE PassBegins
  BY <1>1 DEF PassBegins
<1>2. CASE TestOnce
  BY <1>2 DEF TestOnce
<1>3. CASE TestRunning
  BY <1>3 DEF TestRunning
<1>4. CASE TestMonitoring
  BY <1>4 DEF TestMonitoring
<1>5. CASE Announce
  BY <1>5 DEF Announce
<1>6. CASE AnnounceMonitoring
  BY <1>6 DEF AnnounceMonitoring
<1>7. CASE Retire
  BY <1>7 DEF Retire
<1>8. CASE Exchange
  BY <1>8 DEF Exchange
<1>9. CASE ExchangeOnce
  BY <1>9 DEF ExchangeOnce
<1>10. CASE ClearOnce
  <2>1. once' \in BOOLEAN
    BY <1>10, Zenon DEF ClearOnce, mainVars, audioVars, cbVars, flags, TypeOK
  <2> QED
    BY <1>10, <2>1 DEF ClearOnce
<1>11. CASE PassEnds
  <2>1. active' \in BOOLEAN
    BY <1>11, Zenon DEF PassEnds, mainVars, audioVars, cbVars, flags, TypeOK
  <2> QED
    BY <1>11, <2>1 DEF PassEnds
<1>12. CASE CallbackBegins
  BY <1>12 DEF CallbackBegins
<1>13. CASE FillOutputBuffers
  BY <1>13 DEF FillOutputBuffers
<1>14. CASE DrainInputBuffers
  BY <1>14 DEF DrainInputBuffers
<1>15. CASE SeekLocks
  <2>1. running' \in BOOLEAN
    BY <1>15, Zenon DEF SeekLocks, mainVars, audioVars, cbVars, flags, TypeOK
  <2> QED
    BY <1>15, <2>1 DEF SeekLocks
<1>16. CASE SeekPauses
  BY <1>16 DEF SeekPauses
<1>17. CASE SeekRepositions
  <2>1. seek' \in BOOLEAN /\ primed' \in BOOLEAN
    BY <1>17, Zenon DEF SeekRepositions, mainVars, audioVars, cbVars, flags,
                        TypeOK
  <2> QED
    BY <1>17, <2>1 DEF SeekRepositions
<1>18. CASE SeekReturns
  BY <1>18 DEF SeekReturns
<1>19. CASE Setup
  <2>1. seek' \in BOOLEAN /\ primed' \in BOOLEAN
    BY <1>19, Zenon DEF Setup, mainVars, audioVars, cbVars, flags, TypeOK
  <2> QED
    BY <1>19, <2>1 DEF Setup
<1>20. CASE SetupFails
  <2>1. seek' \in BOOLEAN
    BY <1>20, Zenon DEF SetupFails, mainVars, audioVars, cbVars, flags, TypeOK
  <2> QED
    BY <1>20, <2>1 DEF SetupFails
<1>21. CASE StartAudioThread
  <2>1. running' \in BOOLEAN
    BY <1>21, Zenon DEF StartAudioThread, mainVars, audioVars, cbVars, flags,
                        TypeOK
  <2> QED
    BY <1>21, <2>1 DEF StartAudioThread, PhaseInv
<1>22. CASE Launch
  BY <1>22 DEF Launch
<1>23. CASE StartSeen
  BY <1>23 DEF StartSeen
<1>24. CASE StartAcknowledged
  BY <1>24 DEF StartAcknowledged
<1>25. CASE FailedStartSeen
  BY <1>25 DEF FailedStartSeen
<1>26. CASE FailedStop
  <2>1. running' \in BOOLEAN /\ monitoring' \in BOOLEAN
    BY <1>26, Zenon DEF FailedStop, mainVars, audioVars, cbVars, flags, TypeOK
  <2> QED
    BY <1>26, <2>1 DEF FailedStop
<1>27. CASE FailedStopSeen
  BY <1>27 DEF FailedStopSeen
<1>28. CASE StartStreamCleanup
  BY <1>28 DEF StartStreamCleanup
<1>29. CASE StopAudioThread
  <2>1. running' \in BOOLEAN /\ monitoring' \in BOOLEAN
    BY <1>29, Zenon DEF StopAudioThread, mainVars, audioVars, cbVars, flags,
                        TypeOK
  <2> QED
    BY <1>29, <2>1 DEF StopAudioThread
<1>30. CASE AbortStream
  BY <1>30 DEF AbortStream
<1>31. CASE CloseStream
  BY <1>31 DEF CloseStream
<1>32. CASE StopSeen
  BY <1>32 DEF StopSeen
<1>33. CASE StopAcknowledged
  BY <1>33 DEF StopAcknowledged
<1>34. CASE ProcessOnce
  BY <1>34 DEF ProcessOnce
<1>35. CASE OnceDone
  BY <1>35 DEF OnceDone
<1>36. CASE Teardown
  <2>1. primed' \in BOOLEAN
    BY <1>36, Zenon DEF Teardown, OpenMonitor, mainVars, audioVars, cbVars, flags, TypeOK
  <2>2. CASE then = "idle"
    BY <1>36, <2>1, <2>2 DEF Teardown, OpenMonitor
  <2>3. CASE then = "setup"
    BY <1>36, <2>1, <2>3 DEF Teardown, OpenMonitor
  <2>4. CASE then = "monitor"
    <3>1. monitoring' \in BOOLEAN
      BY <1>36, <2>4, Zenon DEF Teardown, OpenMonitor
    <3>2. stream' \in {"closed", "open", "running", "finished"}
          /\ main' \in {"awaitStart", "idle"}
      BY <1>36, <2>4 DEF Teardown, OpenMonitor
    <3> QED
      BY <1>36, <2>1, <2>4, <3>1, <3>2 DEF Teardown
  <2> QED
    BY <2>2, <2>3, <2>4
<1>37. CASE StartStream
  BY <1>37 DEF StartStream, IsMonitoring
<1>38. CASE StartMonitoring
  <2>1. monitoring' \in BOOLEAN
    BY <1>38, Zenon DEF StartMonitoring, OpenMonitor, IsMonitoring, mainVars, audioVars,
                        cbVars, flags, TypeOK
  <2> QED
    BY <1>38, <2>1 DEF StartMonitoring, OpenMonitor, IsMonitoring
<1>39. CASE SeekStream
  BY <1>39 DEF SeekStream
<1>40. CASE StopStream
  BY <1>40 DEF StopStream, Seeking
<1>41. CASE UNCHANGED vars
  BY <1>41 DEF vars
<1> QED
  BY <1>1, <1>2, <1>3, <1>4, <1>5, <1>6, <1>7, <1>8, <1>9,
     <1>10, <1>11, <1>12, <1>13, <1>14, <1>15, <1>16, <1>17, <1>18,
     <1>19, <1>20, <1>21, <1>22, <1>23, <1>24, <1>25, <1>26, <1>27,
     <1>28, <1>29, <1>30, <1>31, <1>32, <1>33, <1>34, <1>35, <1>36,
     <1>37, <1>38, <1>39, <1>40, <1>41
     DEF Next, AudioThread, CallbackBody, MainSteps, User

(* Where the callback may be, who has asked for an exchange and what it    *)
(* leaves behind do not depend on the faults.                              *)
LEMMA StepKeepsRequests ==
    ASSUME Requests, [Next]_vars
    PROVE  Requests'
<1>0. TypeOK'
  BY StepKeepsTypes DEF Requests
<1> USE DEF Requests, PhaseInv, RequestInv, ExchangeInv, Up, Paused, Seeking
<1>1. CASE PassBegins
  BY <1>0, <1>1 DEF PassBegins, mainVars, audioVars, cbVars, flags, TypeOK
<1>2. CASE TestOnce
  BY <1>0, <1>2 DEF TestOnce, mainVars, audioVars, cbVars, flags, TypeOK
<1>3. CASE TestRunning
  BY <1>0, <1>3 DEF TestRunning, mainVars, audioVars, cbVars, flags, TypeOK
<1>4. CASE TestMonitoring
  BY <1>0, <1>4 DEF TestMonitoring, mainVars, audioVars, cbVars, flags, TypeOK
<1>5. CASE Announce
  BY <1>0, <1>5 DEF Announce, mainVars, audioVars, cbVars, flags, TypeOK
<1>6. CASE AnnounceMonitoring
  BY <1>0, <1>6 DEF AnnounceMonitoring, mainVars, audioVars, cbVars, flags, TypeOK
<1>7. CASE Retire
  BY <1>0, <1>7 DEF Retire, mainVars, audioVars, cbVars, flags, TypeOK
<1>8. CASE Exchange
  BY <1>0, <1>8 DEF Exchange, mainVars, audioVars, cbVars, flags, TypeOK
<1>9. CASE ExchangeOnce
  BY <1>0, <1>9 DEF ExchangeOnce, mainVars, audioVars, cbVars, flags, TypeOK
<1>10. CASE ClearOnce
  <2> USE <1>10 DEF ClearOnce, mainVars, audioVars, cbVars, flags
  <2>1. PhaseInv'
    BY DEF TypeOK
  <2>2. RequestInv'
    BY DEF TypeOK
  <2>3. ExchangeInv'
    BY DEF TypeOK
  <2> QED
    BY <1>0, <2>1, <2>2, <2>3 DEF Requests
<1>11. CASE PassEnds
  <2> USE <1>11 DEF PassEnds, mainVars, audioVars, cbVars, flags
  <2>1. PhaseInv'
    BY DEF TypeOK
  <2>2. RequestInv'
    BY DEF TypeOK
  <2>3. ExchangeInv'
    BY DEF TypeOK
  <2> QED
    BY <1>0, <2>1, <2>2, <2>3 DEF Requests
<1>12. CASE CallbackBegins
  BY <1>0, <1>12 DEF CallbackBegins, mainVars, audioVars, cbVars, flags, TypeOK
<1>13. CASE FillOutputBuffers
  BY <1>0, <1>13 DEF FillOutputBuffers, mainVars, audioVars, cbVars, flags, TypeOK
<1>14. CASE DrainInputBuffers
  BY <1>0, <1>14 DEF DrainInputBuffers, mainVars, audioVars, cbVars, flags, TypeOK
<1>15. CASE SeekLocks
  <2> USE <1>15 DEF SeekLocks, mainVars, audioVars, cbVars, flags
  <2>1. PhaseInv'
    BY DEF TypeOK
  <2>2. RequestInv'
    BY DEF TypeOK
  <2>3. ExchangeInv'
    BY DEF TypeOK
  <2> QED
    BY <1>0, <2>1, <2>2, <2>3 DEF Requests
<1>16. CASE SeekPauses
  BY <1>0, <1>16 DEF SeekPauses, mainVars, audioVars, cbVars, flags, TypeOK
<1>17. CASE SeekRepositions
  <2> USE <1>17 DEF SeekRepositions, mainVars, audioVars, cbVars, flags
  <2>1. PhaseInv'
    BY DEF TypeOK
  <2>2. RequestInv'
    BY DEF TypeOK
  <2>3. ExchangeInv'
    BY DEF TypeOK
  <2> QED
    BY <1>0, <2>1, <2>2, <2>3 DEF Requests
<1>18. CASE SeekReturns
  BY <1>0, <1>18 DEF SeekReturns, mainVars, audioVars, cbVars, flags, TypeOK
<1>19. CASE Setup
  <2> USE <1>19 DEF Setup, mainVars, audioVars, cbVars, flags
  <2>1. PhaseInv'
    BY DEF TypeOK
  <2>2. RequestInv'
    BY DEF TypeOK
  <2>3. ExchangeInv'
    BY DEF TypeOK
  <2> QED
    BY <1>0, <2>1, <2>2, <2>3 DEF Requests
<1>20. CASE SetupFails
  <2> USE <1>20 DEF SetupFails, mainVars, audioVars, cbVars, flags
  <2>1. PhaseInv'
    BY DEF TypeOK
  <2>2. RequestInv'
    BY DEF TypeOK
  <2>3. ExchangeInv'
    BY DEF TypeOK
  <2> QED
    BY <1>0, <2>1, <2>2, <2>3 DEF Requests
<1>21. CASE StartAudioThread
  BY <1>0, <1>21 DEF StartAudioThread, mainVars, audioVars, cbVars, flags, TypeOK
<1>22. CASE Launch
  BY <1>0, <1>22 DEF Launch, mainVars, audioVars, cbVars, flags, TypeOK
<1>23. CASE StartSeen
  BY <1>0, <1>23 DEF StartSeen, mainVars, audioVars, cbVars, flags, TypeOK
<1>24. CASE StartAcknowledged
  BY <1>0, <1>24 DEF StartAcknowledged, mainVars, audioVars, cbVars, flags, TypeOK
<1>25. CASE FailedStartSeen
  BY <1>0, <1>25 DEF FailedStartSeen, mainVars, audioVars, cbVars, flags, TypeOK
<1>26. CASE FailedStop
  BY <1>0, <1>26 DEF FailedStop, mainVars, audioVars, cbVars, flags, TypeOK
<1>27. CASE FailedStopSeen
  BY <1>0, <1>27 DEF FailedStopSeen, mainVars, audioVars, cbVars, flags, TypeOK
<1>28. CASE StartStreamCleanup
  BY <1>0, <1>28 DEF StartStreamCleanup, mainVars, audioVars, cbVars, flags, TypeOK
<1>29. CASE StopAudioThread
  <2> USE <1>29 DEF StopAudioThread, mainVars, audioVars, cbVars, flags
  <2>1. PhaseInv'
    BY DEF TypeOK
  <2>2. RequestInv'
    BY DEF TypeOK
  <2>3. ExchangeInv'
    BY DEF TypeOK
  <2> QED
    BY <1>0, <2>1, <2>2, <2>3 DEF Requests
<1>30. CASE AbortStream
  BY <1>0, <1>30 DEF AbortStream, mainVars, audioVars, cbVars, flags, TypeOK
<1>31. CASE CloseStream
  BY <1>0, <1>31 DEF CloseStream, mainVars, audioVars, cbVars, flags, TypeOK
<1>32. CASE StopSeen
  BY <1>0, <1>32 DEF StopSeen, mainVars, audioVars, cbVars, flags, TypeOK
<1>33. CASE StopAcknowledged
  BY <1>0, <1>33 DEF StopAcknowledged, mainVars, audioVars, cbVars, flags, TypeOK
<1>34. CASE ProcessOnce
  BY <1>0, <1>34 DEF ProcessOnce, mainVars, audioVars, cbVars, flags, TypeOK
<1>35. CASE OnceDone
  BY <1>0, <1>35 DEF OnceDone, mainVars, audioVars, cbVars, flags, TypeOK
<1>36. CASE Teardown
  <2> USE <1>36 DEF Teardown, OpenMonitor, mainVars, audioVars, cbVars, flags
  <2>1. CASE then = "idle"
    BY <1>0, <2>1 DEF TypeOK
  <2>2. CASE then = "setup"
    BY <1>0, <2>2 DEF TypeOK
  <2>3. CASE then = "monitor"
    BY <1>0, <2>3 DEF TypeOK
  <2> QED
    BY <2>1, <2>2, <2>3 DEF TypeOK
<1>37. CASE StartStream
  <2> USE <1>37 DEF StartStream, mainVars, audioVars, cbVars, flags, IsMonitoring
  <2>1. PhaseInv'
    BY DEF TypeOK
  <2>2. RequestInv'
    BY DEF TypeOK
  <2>3. ExchangeInv'
    BY DEF TypeOK
  <2> QED
    BY <1>0, <2>1, <2>2, <2>3 DEF Requests
<1>38. CASE StartMonitoring
  <2> USE <1>38 DEF StartMonitoring, OpenMonitor, mainVars, audioVars, cbVars, flags, IsMonitoring
  <2>1. PhaseInv'
    BY DEF TypeOK
  <2>2. RequestInv'
    BY DEF TypeOK
  <2>3. ExchangeInv'
    BY DEF TypeOK
  <2> QED
    BY <1>0, <2>1, <2>2, <2>3 DEF Requests
<1>39. CASE SeekStream
  BY <1>0, <1>39 DEF SeekStream, mainVars, audioVars, cbVars, flags, TypeOK
<1>40. CASE StopStream
  BY <1>0, <1>40 DEF StopStream, mainVars, audioVars, cbVars, flags, TypeOK
<1>41. CASE UNCHANGED vars
  BY <1>0, <1>41 DEF vars, mainVars, audioVars, cbVars, flags, TypeOK
<1> QED
  BY <1>1, <1>2, <1>3, <1>4, <1>5, <1>6, <1>7, <1>8, <1>9, <1>10, <1>11,
     <1>12, <1>13, <1>14, <1>15, <1>16, <1>17, <1>18, <1>19, <1>20, <1>21,
     <1>22, <1>23, <1>24, <1>25, <1>26, <1>27, <1>28, <1>29, <1>30, <1>31,
     <1>32, <1>33, <1>34, <1>35, <1>36, <1>37, <1>38, <1>39, <1>40, <1>41
     DEF Next, AudioThread, CallbackBody, MainSteps, User

(* The invariant is inductive: one case for each action, and for an action *)
(* that moves several threads' state one step for each part.               *)
LEMMA StepKeepsInv ==
    ASSUME Inv, [Next]_vars, Faults = {}
    PROVE  Inv'
<1>0. Requests'
  BY StepKeepsRequests DEF Inv
<1> USE DEF Inv, CallbackInv, FlagInv, LoopInv, AckInv,
            Off, Lowered, Up, Paused, Seeking
<1> USE DEF Requests, PhaseInv, RequestInv
<1>1. CASE PassBegins
  BY <1>0, <1>1 DEF PassBegins, mainVars, audioVars, cbVars, flags, TypeOK
<1>2. CASE TestOnce
  BY <1>0, <1>2 DEF TestOnce, mainVars, audioVars, cbVars, flags, TypeOK
<1>3. CASE TestRunning
  BY <1>0, <1>3 DEF TestRunning, mainVars, audioVars, cbVars, flags, TypeOK
<1>4. CASE TestMonitoring
  BY <1>0, <1>4 DEF TestMonitoring, mainVars, audioVars, cbVars, flags, TypeOK
<1>5. CASE Announce
  BY <1>0, <1>5 DEF Announce, mainVars, audioVars, cbVars, flags, TypeOK
<1>6. CASE AnnounceMonitoring
  BY <1>0, <1>6 DEF AnnounceMonitoring, mainVars, audioVars, cbVars, flags, TypeOK
<1>7. CASE Retire
  BY <1>0, <1>7 DEF Retire, mainVars, audioVars, cbVars, flags, TypeOK
<1>8. CASE Exchange
  BY <1>0, <1>8 DEF Exchange, mainVars, audioVars, cbVars, flags, TypeOK
<1>9. CASE ExchangeOnce
  BY <1>0, <1>9 DEF ExchangeOnce, mainVars, audioVars, cbVars, flags, TypeOK
<1>10. CASE ClearOnce
  <2> USE <1>10 DEF ClearOnce, mainVars, audioVars, cbVars, flags
  <2>1. CallbackInv'
    BY DEF TypeOK
  <2>2. FlagInv'
    BY DEF TypeOK
  <2>3. LoopInv'
    BY DEF TypeOK
  <2>4. AckInv'
    BY DEF TypeOK
  <2> QED
    BY <1>0, <2>1, <2>2, <2>3, <2>4 DEF Inv
<1>11. CASE PassEnds
  <2> USE <1>11 DEF PassEnds, mainVars, audioVars, cbVars, flags
  <2>1. CallbackInv'
    BY DEF TypeOK
  <2>2. FlagInv'
    BY DEF TypeOK
  <2>3. LoopInv'
    BY DEF TypeOK
  <2>4. AckInv'
    BY DEF TypeOK
  <2> QED
    BY <1>0, <2>1, <2>2, <2>3, <2>4 DEF Inv
<1>12. CASE CallbackBegins
  BY <1>0, <1>12 DEF CallbackBegins, mainVars, audioVars, cbVars, flags, TypeOK
<1>13. CASE FillOutputBuffers
  BY <1>0, <1>13 DEF FillOutputBuffers, mainVars, audioVars, cbVars, flags, TypeOK
<1>14. CASE DrainInputBuffers
  BY <1>0, <1>14 DEF DrainInputBuffers, mainVars, audioVars, cbVars, flags, TypeOK
<1>15. CASE SeekLocks
  <2> USE <1>15 DEF SeekLocks, mainVars, audioVars, cbVars, flags
  <2>1. CallbackInv'
    BY DEF TypeOK
  <2>2. FlagInv'
    BY DEF TypeOK
  <2>3. LoopInv'
    BY DEF TypeOK
  <2>4. AckInv'
    BY DEF TypeOK
  <2> QED
    BY <1>0, <2>1, <2>2, <2>3, <2>4 DEF Inv
<1>16. CASE SeekPauses
  BY <1>0, <1>16 DEF SeekPauses, mainVars, audioVars, cbVars, flags, TypeOK
<1>17. CASE SeekRepositions
  <2> USE <1>17 DEF SeekRepositions, mainVars, audioVars, cbVars, flags
  <2>1. CallbackInv'
    BY DEF TypeOK
  <2>2. FlagInv'
    BY DEF TypeOK
  <2>3. LoopInv'
    BY DEF TypeOK
  <2>4. AckInv'
    BY DEF TypeOK
  <2> QED
    BY <1>0, <2>1, <2>2, <2>3, <2>4 DEF Inv
<1>18. CASE SeekReturns
  BY <1>0, <1>18 DEF SeekReturns, mainVars, audioVars, cbVars, flags, TypeOK
<1>19. CASE Setup
  <2> USE <1>19 DEF Setup, mainVars, audioVars, cbVars, flags
  <2>1. CallbackInv'
    BY DEF TypeOK
  <2>2. FlagInv'
    BY DEF TypeOK
  <2>3. LoopInv'
    BY DEF TypeOK
  <2>4. AckInv'
    BY DEF TypeOK
  <2> QED
    BY <1>0, <2>1, <2>2, <2>3, <2>4 DEF Inv
<1>20. CASE SetupFails
  <2> USE <1>20 DEF SetupFails, mainVars, audioVars, cbVars, flags
  <2>1. CallbackInv'
    BY DEF TypeOK
  <2>2. FlagInv'
    BY DEF TypeOK
  <2>3. LoopInv'
    BY DEF TypeOK
  <2>4. AckInv'
    BY DEF TypeOK
  <2> QED
    BY <1>0, <2>1, <2>2, <2>3, <2>4 DEF Inv
<1>21. CASE StartAudioThread
  BY <1>0, <1>21 DEF StartAudioThread, mainVars, audioVars, cbVars, flags, TypeOK
<1>22. CASE Launch
  BY <1>0, <1>22 DEF Launch, mainVars, audioVars, cbVars, flags, TypeOK
<1>23. CASE StartSeen
  BY <1>0, <1>23 DEF StartSeen, mainVars, audioVars, cbVars, flags, TypeOK
<1>24. CASE StartAcknowledged
  BY <1>0, <1>24 DEF StartAcknowledged, mainVars, audioVars, cbVars, flags, TypeOK
<1>25. CASE FailedStartSeen
  BY <1>0, <1>25 DEF FailedStartSeen, mainVars, audioVars, cbVars, flags, TypeOK
<1>26. CASE FailedStop
  BY <1>0, <1>26 DEF FailedStop, mainVars, audioVars, cbVars, flags, TypeOK
<1>27. CASE FailedStopSeen
  BY <1>0, <1>27 DEF FailedStopSeen, mainVars, audioVars, cbVars, flags, TypeOK
<1>28. CASE StartStreamCleanup
  BY <1>0, <1>28 DEF StartStreamCleanup, mainVars, audioVars, cbVars, flags, TypeOK
<1>29. CASE StopAudioThread
  <2> USE <1>29 DEF StopAudioThread, mainVars, audioVars, cbVars, flags
  <2>1. CallbackInv'
    BY DEF TypeOK
  <2>2. FlagInv'
    BY DEF TypeOK
  <2>3. LoopInv'
    BY DEF TypeOK
  <2>4. AckInv'
    BY DEF TypeOK
  <2> QED
    BY <1>0, <2>1, <2>2, <2>3, <2>4 DEF Inv
<1>30. CASE AbortStream
  BY <1>0, <1>30 DEF AbortStream, mainVars, audioVars, cbVars, flags, TypeOK
<1>31. CASE CloseStream
  BY <1>0, <1>31 DEF CloseStream, mainVars, audioVars, cbVars, flags, TypeOK
<1>32. CASE StopSeen
  BY <1>0, <1>32 DEF StopSeen, mainVars, audioVars, cbVars, flags, TypeOK
<1>33. CASE StopAcknowledged
  BY <1>0, <1>33 DEF StopAcknowledged, mainVars, audioVars, cbVars, flags, TypeOK
<1>34. CASE ProcessOnce
  BY <1>0, <1>34 DEF ProcessOnce, mainVars, audioVars, cbVars, flags, TypeOK
<1>35. CASE OnceDone
  BY <1>0, <1>35 DEF OnceDone, mainVars, audioVars, cbVars, flags, TypeOK
<1>36. CASE Teardown
  <2> USE <1>36 DEF Teardown, OpenMonitor, mainVars, audioVars, cbVars, flags
  <2>1. CASE then = "idle"
    <3>1. CallbackInv'
      BY <2>1 DEF TypeOK
    <3>2. FlagInv'
      BY <2>1 DEF TypeOK
    <3>3. LoopInv'
      BY <2>1 DEF TypeOK
    <3>4. AckInv'
      BY <2>1 DEF TypeOK
    <3> QED
      BY <1>0, <3>1, <3>2, <3>3, <3>4 DEF Inv
  <2>2. CASE then = "setup"
    <3>1. CallbackInv'
      BY <2>2 DEF TypeOK
    <3>2. FlagInv'
      BY <2>2 DEF TypeOK
    <3>3. LoopInv'
      BY <2>2 DEF TypeOK
    <3>4. AckInv'
      BY <2>2 DEF TypeOK
    <3> QED
      BY <1>0, <3>1, <3>2, <3>3, <3>4 DEF Inv
  <2>3. CASE then = "monitor"
    <3>1. CallbackInv'
      BY <2>3 DEF TypeOK
    <3>2. FlagInv'
      BY <2>3 DEF TypeOK
    <3>3. LoopInv'
      BY <2>3 DEF TypeOK
    <3>4. AckInv'
      BY <2>3 DEF TypeOK
    <3> QED
      BY <1>0, <3>1, <3>2, <3>3, <3>4 DEF Inv
  <2> QED
    BY <2>1, <2>2, <2>3 DEF TypeOK
<1>37. CASE StartStream
  BY <1>0, <1>37 DEF StartStream, mainVars, audioVars, cbVars, flags, IsMonitoring,
               TypeOK
<1>38. CASE StartMonitoring
  <2> USE <1>38 DEF StartMonitoring, OpenMonitor, mainVars, audioVars, cbVars, flags, IsMonitoring
  <2>1. CallbackInv'
    BY DEF TypeOK
  <2>2. FlagInv'
    BY DEF TypeOK
  <2>3. LoopInv'
    BY DEF TypeOK
  <2>4. AckInv'
    BY DEF TypeOK
  <2> QED
    BY <1>0, <2>1, <2>2, <2>3, <2>4 DEF Inv
<1>39. CASE SeekStream
  BY <1>0, <1>39 DEF SeekStream, mainVars, audioVars, cbVars, flags, TypeOK
<1>40. CASE StopStream
  BY <1>0, <1>40 DEF StopStream, mainVars, audioVars, cbVars, flags, TypeOK
<1>41. CASE UNCHANGED vars
  BY <1>0, <1>41 DEF vars, mainVars, audioVars, cbVars, flags, TypeOK
<1> QED
  BY <1>1, <1>2, <1>3, <1>4, <1>5, <1>6, <1>7, <1>8, <1>9, <1>10, <1>11,
     <1>12, <1>13, <1>14, <1>15, <1>16, <1>17, <1>18, <1>19, <1>20, <1>21,
     <1>22, <1>23, <1>24, <1>25, <1>26, <1>27, <1>28, <1>29, <1>30, <1>31,
     <1>32, <1>33, <1>34, <1>35, <1>36, <1>37, <1>38, <1>39, <1>40, <1>41
     DEF Next, AudioThread, CallbackBody, MainSteps, User

(* The properties follow from the invariants.                              *)
LEMMA RequestsAreSafe ==
    ASSUME Requests
    PROVE  CapturedIsRecorded /\ RingsPrimed
BY DEF Requests, TypeOK, PhaseInv, RequestInv, ExchangeInv, Up, Paused,
       CapturedIsRecorded, RingsPrimed

LEMMA InvIsSafe == Inv => BuffersNotShared
BY DEF Inv, Requests, TypeOK, PhaseInv, RequestInv, ExchangeInv, CallbackInv,
       FlagInv, LoopInv, AckInv, Off, Lowered, Up, Paused, Seeking,
       BuffersNotShared, Exchanging, Rebuilding

LEMMA InitHolds == Init => Inv
<1> SUFFICES ASSUME Init
             PROVE  Inv
  OBVIOUS
<1>1. /\ once \in BOOLEAN /\ running \in BOOLEAN /\ monitoring \in BOOLEAN
      /\ active \in BOOLEAN /\ seek \in BOOLEAN /\ primed \in BOOLEAN
  BY Zenon DEF Init
<1>2. TypeOK
  BY <1>1 DEF Init, TypeOK
<1>3. PhaseInv /\ RequestInv /\ CallbackInv /\ FlagInv
  BY DEF Init, PhaseInv, RequestInv, CallbackInv, FlagInv, Lowered, Up, Paused,
         Seeking
<1>4. LoopInv /\ AckInv /\ ExchangeInv
  BY DEF Init, LoopInv, AckInv, ExchangeInv, Off, Lowered
<1> QED
  BY <1>2, <1>3, <1>4 DEF Inv, Requests

LEMMA RequestsHold == Spec => []Requests
<1>1. Init => Requests
  BY InitHolds DEF Inv
<1>2. Requests /\ [Next]_vars => Requests'
  BY StepKeepsRequests
<1> QED
  BY <1>1, <1>2, PTL DEF Spec

LEMMA InvHolds == Faults = {} /\ Spec => []Inv
<1> SUFFICES ASSUME Faults = {}
             PROVE  Spec => []Inv
  OBVIOUS
<1>1. Init => Inv
  BY InitHolds
<1>2. Inv /\ [Next]_vars => Inv'
  BY StepKeepsInv
<1> QED
  BY <1>1, <1>2, PTL DEF Spec

(* Every thread stays within its phases, and the tokens within their       *)
(* bounds, whatever a stop overtakes.                                      *)
THEOREM TypesHold == Spec => []TypeOK
<1>1. Requests => TypeOK
  BY DEF Requests
<1> QED
  BY <1>1, RequestsHold, PTL

(* As long as no stop overtakes a seek, the handshake of flags and         *)
(* acknowledgements keeps the audio thread out of the buffers whenever the *)
(* main thread rebuilds or releases them and whenever the callback         *)
(* repositions them, and the callback is outside while they are rebuilt.   *)
THEOREM BuffersStayApart == Faults = {} /\ Spec => []BuffersNotShared
<1>1. Inv => BuffersNotShared
  BY InvIsSafe
<1> QED
  BY <1>1, InvHolds, PTL

(* The last exchange of StopStream comes after the last callback, so that  *)
(* nothing captured is left in the rings when the recording is committed:  *)
(* also when StopStream took a stale acknowledgement for its own.          *)
THEOREM CaptureDrained == Spec => []CapturedIsRecorded
<1>1. Requests => CapturedIsRecorded
  BY RequestsAreSafe
<1> QED
  BY <1>1, RequestsHold, PTL

(* The callback takes samples only from rings filled since the last start  *)
(* or seek emptied them, whatever a stop overtakes.                        *)
THEOREM RingsFilled == Spec => []RingsPrimed
<1>1. Requests => RingsPrimed
  BY RequestsAreSafe
<1> QED
  BY <1>1, RequestsHold, PTL
=============================================================================
