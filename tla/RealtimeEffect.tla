--------------------------- MODULE RealtimeEffect ---------------------------
(***************************************************************************)
(* The settings of one real-time effect (RealtimeEffectState), which the   *)
(* main thread changes while the audio thread processes with them.  Each   *)
(* direction has a MessageBuffer of two slots: settings with a counter go  *)
(* to the audio thread, the counter it has seen comes back, and Flush()    *)
(* waits until the two agree.  The effect is in a list that the audio      *)
(* thread visits at the start and at the end of each of its passes.        *)
(***************************************************************************)
EXTENDS Integers

CONSTANTS
    Free,        \* nobody holds mLockForCV
    MaxSets,     \* bound: settings the user gives
    MaxPlays,    \* bound: playbacks
    CounterSize, \* values of the counter (256 in the code)
    Faults       \* what else may happen, a subset of AllFaults

(* The effect is removed while the audio thread is between the two visits  *)
(* of the list or in one of them; the history panel restores another list  *)
(* during playback, which undo and redo stop.                              *)
AllFaults == {"removeDuringPass", "restoreWhilePlaying"}

ASSUME BoundAssumption ==
    MaxSets \in Nat /\ MaxPlays \in Nat /\ CounterSize \in Nat \ {0, 1, 2}
ASSUME FaultsAssumption == Faults \subseteq AllFaults
ASSUME FreeAssumption == Free \notin {"main", "worker"}

VARIABLES
    main,        \* where the main thread is
    then,        \* what follows the Set that is under way
    idx,         \* the slot the main thread holds or is about to claim
    audio,       \* where the audio thread is in a pass
    slot,        \* the slot the audio thread holds or is about to claim
    playing,     \* RealtimeEffectManager::mActive
    once,        \* one exchange is requested of the audio thread
    plays,       \* playbacks so far
    sets,        \* settings given so far: a setting is its number
    listed,      \* the effect is in the list
    exists,      \* the effect was added
    access,      \* the AccessState exists
    initialized, \* mInitialized
    kept,        \* mMainSettings: [value, counter]
    last,        \* mLastSettings: [value, counter]
    worker,      \* mWorkerSettings: [value, counter]
    toWorker,    \* mChannelFromMain
    toMain,      \* mChannelToMain
    lock,        \* who holds mLockForCV
    awake        \* the wait on mCV was notified

mainVars == <<main, then, idx, plays, sets>>
audioVars == <<audio, slot>>
listVars == <<listed, exists, access, initialized>>
settings == <<kept, last>>
cvVars == <<lock, awake>>
vars == <<mainVars, audioVars, playing, once, listVars, settings, worker,
          toWorker, toMain, cvVars>>

-----------------------------------------------------------------------------
(* MessageBuffer                                                           *)

Slots == {0, 1}
Buffer(datum) ==
    [data |-> [s \in Slots |-> datum], last |-> 0,
     busy |-> [s \in Slots |-> FALSE]]

(* The exchange of the busy flag: the slot that was asked for, or the      *)
(* other one when that one is busy.                                        *)
Claimed(buffer, s) == IF buffer.busy[s] THEN 1 - s ELSE s

Claim(buffer, s) == [buffer EXCEPT !.busy[s] = TRUE]
Store(buffer, s, datum) ==
    [buffer EXCEPT !.data[s] = datum, !.last = s]
Release(buffer, s) == [buffer EXCEPT !.busy[s] = FALSE]

Default == [value |-> 0, counter |-> 0]

Init ==
    /\ main = "idle" /\ then = "idle" /\ idx = 0
    /\ audio = "out" /\ slot = 0
    /\ playing = FALSE /\ once = FALSE
    /\ plays = 0 /\ sets = 0
    /\ listed = FALSE /\ exists = FALSE /\ access = FALSE
    /\ initialized = FALSE
    /\ kept = Default /\ last = Default /\ worker = Default
    /\ toWorker = Buffer(Default) /\ toMain = Buffer(0)
    /\ lock = Free /\ awake = FALSE

-----------------------------------------------------------------------------
(* The main thread gives settings and waits for them to be heard.          *)

(* Fewer than half of CounterSize settings are given between two readings: *)
(* the reply may be one reading behind.  The code counts to 256.           *)
CounterDistinguishes ==
    2 * (1 + last.value - (IF initialized THEN worker ELSE kept).value)
        < CounterSize

(* AccessState and its two channels are made on the first GetAccess().     *)
GetAccess ==
    /\ main = "idle"
    /\ exists /\ ~access
    /\ access' = TRUE
    /\ kept' = [kept EXCEPT !.counter = 0]
    /\ last' = kept'
    /\ toWorker' = Buffer(last')
    /\ toMain' = Buffer(0)
    /\ UNCHANGED <<mainVars, audioVars, playing, once, listed, exists,
                   initialized, worker, cvVars>>

(* Access::Set, on its own, followed by Flush (SetActive), or followed by  *)
(* Flush and the list of the restored state (RestoreUndoRedoState).        *)
Set(next) ==
    /\ main = "idle"
    /\ access
    /\ sets < MaxSets
    /\ CounterDistinguishes
    /\ sets' = sets + 1
    /\ last' = [value |-> sets', counter |-> (last.counter + 1) % CounterSize]
    /\ idx' = 1 - toWorker.last
    /\ main' = "setClaim"
    /\ then' = next
    /\ UNCHANGED <<plays, audioVars, playing, once, listVars, kept, worker,
                   toWorker, toMain, cvVars>>

(* Mutant: the writer takes the slot it prefers, busy or not.              *)
SetClaimsBusy ==
    /\ main = "setClaim"
    /\ toWorker' = Claim(toWorker, idx)
    /\ main' = "setStore"
    /\ UNCHANGED <<then, idx, plays, sets, audioVars, playing, once, listVars,
                   settings, worker, toMain, cvVars>>

SetClaims ==
    /\ main = "setClaim"
    /\ idx' = Claimed(toWorker, idx)
    /\ toWorker' = Claim(toWorker, idx')
    /\ main' = "setStore"
    /\ UNCHANGED <<then, plays, sets, audioVars, playing, once, listVars,
                   settings, worker, toMain, cvVars>>

SetStores ==
    /\ main = "setStore"
    /\ toWorker' = Store(toWorker, idx, last)
    /\ main' = "setRelease"
    /\ UNCHANGED <<then, idx, plays, sets, audioVars, playing, once, listVars,
                   settings, worker, toMain, cvVars>>

SetReleases ==
    /\ main = "setRelease"
    /\ toWorker' = Release(toWorker, idx)
    /\ idx' = 0
    /\ main' = IF then = "idle" THEN "idle" ELSE "flush"
    /\ UNCHANGED <<then, plays, sets, audioVars, playing, once, listVars,
                   settings, worker, toMain, cvVars>>

(* Access::Get: reads the reply without the mutex of the wait.             *)
Get ==
    /\ main = "idle"
    /\ access /\ initialized
    /\ idx' = Claimed(toMain, toMain.last)
    /\ toMain' = Claim(toMain, idx')
    /\ main' = "get"
    /\ UNCHANGED <<then, plays, sets, audioVars, playing, once, listVars,
                   settings, worker, toWorker, cvVars>>

GetReturns ==
    /\ main = "get"
    /\ toMain' = Release(toMain, idx)
    /\ idx' = 0
    /\ main' = "idle"
    /\ UNCHANGED <<then, plays, sets, audioVars, playing, once, listVars,
                   settings, worker, toWorker, cvVars>>

Flush ==
    /\ main = "idle"
    /\ access
    /\ main' = "flush"
    /\ then' = "idle"
    /\ UNCHANGED <<idx, plays, sets, audioVars, playing, once, listVars,
                   settings, worker, toWorker, toMain, cvVars>>

(* What Flush() does once the settings were heard, or when nobody listens; *)
(* a restored state then has its list assigned.                            *)
Flushed ==
    /\ kept' = last
    /\ listed' = (listed \/ then = "relist")
    /\ then' = "idle"
    /\ main' = "idle"

FlushAtOnce ==
    /\ main = "flush"
    /\ ~initialized
    /\ Flushed
    /\ UNCHANGED <<idx, plays, sets, audioVars, playing, once, exists,
                   access, initialized, last, worker, toWorker, toMain,
                   cvVars>>

(* Mutant: the reply is read and not compared.                             *)
FlushHeardAnything ==
    /\ main = "flush"
    /\ initialized
    /\ lock = Free
    /\ Flushed
    /\ UNCHANGED <<idx, plays, sets, audioVars, playing, once, exists,
                   access, initialized, last, worker, toWorker, toMain,
                   cvVars>>

FlushHeard ==
    /\ main = "flush"
    /\ initialized
    /\ lock = Free
    /\ toMain.data[toMain.last] = last.counter
    /\ Flushed
    /\ UNCHANGED <<idx, plays, sets, audioVars, playing, once, exists,
                   access, initialized, last, worker, toWorker, toMain,
                   cvVars>>

(* The wait on mCV gives the mutex back.                                   *)
FlushWaits ==
    /\ main = "flush"
    /\ initialized
    /\ lock = Free
    /\ toMain.data[toMain.last] # last.counter
    /\ awake' = FALSE
    /\ main' = "wait"
    /\ UNCHANGED <<then, idx, plays, sets, audioVars, playing, once, listVars,
                   settings, worker, toWorker, toMain, lock>>

FlushWakes ==
    /\ main = "wait"
    /\ awake
    /\ awake' = FALSE
    /\ main' = "flush"
    /\ UNCHANGED <<then, idx, plays, sets, audioVars, playing, once, listVars,
                   settings, worker, toWorker, toMain, lock>>

-----------------------------------------------------------------------------
(* The main thread changes the list, and starts and stops playback.        *)

(* EnsureInstance: the worker's settings are a copy of the kept ones.      *)
EnsureInstance == initialized' = TRUE /\ worker' = kept

(* MakeNewState and AddState: an effect is made ready before it is listed. *)
AddState ==
    /\ main = "idle"
    /\ ~exists
    /\ exists' = TRUE
    /\ listed' = TRUE
    /\ IF playing THEN EnsureInstance ELSE UNCHANGED <<initialized, worker>>
    /\ UNCHANGED <<mainVars, audioVars, playing, once, access, settings,
                   toWorker, toMain, cvVars>>

(* The list is swapped, then the effect is finalized if playing.           *)
RemoveState ==
    /\ main = "idle"
    /\ listed
    /\ audio # "out" => "removeDuringPass" \in Faults
    /\ listed' = FALSE
    /\ main' = IF playing THEN "finalize" ELSE "idle"
    /\ UNCHANGED <<then, idx, plays, sets, audioVars, playing, once, exists,
                   access, initialized, settings, worker, toWorker, toMain, cvVars>>

(* A state of the history without the effect is restored: its list is      *)
(* assigned.  Undo and redo have stopped playback; the history panel has   *)
(* not.                                                                    *)
RestoreWithout ==
    /\ main = "idle"
    /\ listed
    /\ playing => "restoreWhilePlaying" \in Faults
    /\ listed' = FALSE
    /\ UNCHANGED <<mainVars, audioVars, playing, once, exists, access,
                   initialized, settings, worker, toWorker, toMain,
                   cvVars>>

(* A state with the effect is restored: its settings, then its list.       *)
RestoreWith ==
    /\ playing => "restoreWhilePlaying" \in Faults
    /\ Set("relist")

(* Initialize of the effects in the list.  An instance nobody holds any    *)
(* more is made again, and the channels with it; a view that gives         *)
(* settings without Flush holds it.  The first exchange is on request.     *)
StartPlayback ==
    /\ main = "idle"
    /\ ~playing
    /\ plays < MaxPlays
    /\ plays' = plays + 1
    /\ playing' = TRUE
    /\ once' = TRUE
    /\ main' = "prime"
    /\ IF listed /\ ~initialized
       THEN /\ EnsureInstance
            /\ \/ UNCHANGED <<last, toWorker, toMain>>
               \/ /\ access
                  /\ last.value = kept.value
                  /\ last' = [kept EXCEPT !.counter = 0]
                  /\ toWorker' = Buffer(last')
                  /\ toMain' = Buffer(0)
       ELSE UNCHANGED <<initialized, worker, last, toWorker, toMain>>
    /\ UNCHANGED <<then, idx, sets, audioVars, listed, exists, access, kept, cvVars>>

Primed ==
    /\ main = "prime"
    /\ ~once
    /\ main' = "idle"
    /\ UNCHANGED <<then, idx, plays, sets, audioVars, playing, once, listVars,
                   settings, worker, toWorker, toMain, cvVars>>

StopPlayback ==
    /\ main = "idle"
    /\ playing
    /\ playing' = FALSE
    /\ main' = "stopping"
    /\ UNCHANGED <<then, idx, plays, sets, audioVars, once, listVars,
                   settings, worker, toWorker, toMain, cvVars>>

(* Mutant: no exchange is requested after the last pass.                   *)
StopsUndrained ==
    /\ main = "stopping"
    /\ audio = "out"
    /\ main' = "drain"
    /\ UNCHANGED <<then, idx, plays, sets, audioVars, playing, once, listVars,
                   settings, worker, toWorker, toMain, cvVars>>

(* The audio thread has stopped; it is asked for one last exchange.        *)
Stops ==
    /\ main = "stopping"
    /\ audio = "out"
    /\ once' = TRUE
    /\ main' = "drain"
    /\ UNCHANGED <<then, idx, plays, sets, audioVars, playing, listVars,
                   settings, worker, toWorker, toMain, cvVars>>

(* The transport state is destroyed: the effects in the list are finalized.*)
Drained ==
    /\ main = "drain"
    /\ ~once
    /\ main' = IF listed THEN "finalize" ELSE "idle"
    /\ UNCHANGED <<then, idx, plays, sets, audioVars, playing, once, listVars,
                   settings, worker, toWorker, toMain, cvVars>>

(* Finalize, of an effect that uses no messages.                           *)
Finalize ==
    /\ main = "finalize"
    /\ kept' = worker
    /\ initialized' = FALSE
    /\ main' = "idle"
    /\ UNCHANGED <<then, idx, plays, sets, audioVars, playing, once, listed,
                   exists, access, last, worker, toWorker, toMain,
                   cvVars>>

-----------------------------------------------------------------------------
(* The audio thread: ProcessStart and ProcessEnd of one pass.              *)

(* A pass over a list without the effect does nothing here.                *)
PassBegins ==
    /\ audio = "out"
    /\ playing \/ once
    /\ IF ~listed
       THEN once' = FALSE /\ UNCHANGED <<audio, slot>>
       ELSE /\ audio' = IF access THEN "claim" ELSE "process"
            /\ slot' = IF access THEN toWorker.last ELSE 0
            /\ UNCHANGED once
    /\ UNCHANGED <<mainVars, playing, listVars, settings, worker, toWorker,
                   toMain, cvVars>>

WorkerClaims ==
    /\ audio = "claim"
    /\ slot' = Claimed(toWorker, slot)
    /\ toWorker' = Claim(toWorker, slot')
    /\ audio' = "read"
    /\ UNCHANGED <<mainVars, playing, once, listVars, settings, worker,
                   toMain, cvVars>>

(* Mutant: the other slot is read.                                         *)
WorkerReadsOther ==
    /\ audio = "read"
    /\ worker' = toWorker.data[1 - slot]
    /\ toWorker' = Release(toWorker, slot)
    /\ slot' = 0
    /\ audio' = "process"
    /\ UNCHANGED <<mainVars, playing, once, listVars, settings, toMain, cvVars>>

(* Settings with the counter that was read before are not copied again.    *)
WorkerReads ==
    /\ audio = "read"
    /\ worker' = IF toWorker.data[slot].counter = worker.counter
                 THEN worker ELSE toWorker.data[slot]
    /\ toWorker' = Release(toWorker, slot)
    /\ slot' = 0
    /\ audio' = "process"
    /\ UNCHANGED <<mainVars, playing, once, listVars, settings, toMain, cvVars>>

(* The samples are processed, and the list is visited again.               *)
Process ==
    /\ audio = "process"
    /\ audio' = IF listed /\ access THEN "lock" ELSE "leave"
    /\ UNCHANGED <<mainVars, slot, playing, once, listVars, settings, worker,
                   toWorker, toMain, cvVars>>

WorkerLocks ==
    /\ audio = "lock"
    /\ lock = Free
    /\ lock' = "worker"
    /\ slot' = Claimed(toMain, 1 - toMain.last)
    /\ toMain' = Claim(toMain, slot')
    /\ audio' = "reply"
    /\ UNCHANGED <<mainVars, playing, once, listVars, settings, worker,
                   toWorker, awake>>

WorkerReplies ==
    /\ audio = "reply"
    /\ toMain' = Release(Store(toMain, slot, worker.counter), slot)
    /\ lock' = Free
    /\ slot' = 0
    /\ audio' = "notify"
    /\ UNCHANGED <<mainVars, playing, once, listVars, settings, worker,
                   toWorker, awake>>

(* Mutant: nobody is notified.                                             *)
WorkerStaysSilent ==
    /\ audio = "notify"
    /\ audio' = "leave"
    /\ UNCHANGED <<mainVars, slot, playing, once, listVars, settings, worker,
                   toWorker, toMain, cvVars>>

WorkerNotifies ==
    /\ audio = "notify"
    /\ awake' = (main = "wait")
    /\ audio' = "leave"
    /\ UNCHANGED <<mainVars, slot, playing, once, listVars, settings, worker,
                   toWorker, toMain, lock>>

PassEnds ==
    /\ audio = "leave"
    /\ once' = FALSE
    /\ audio' = "out"
    /\ UNCHANGED <<mainVars, slot, playing, listVars, settings, worker,
                   toWorker, toMain, cvVars>>

AudioThread ==
    \/ PassBegins \/ WorkerClaims \/ WorkerReads \/ Process \/ WorkerLocks
    \/ WorkerReplies \/ WorkerNotifies \/ PassEnds

MainSteps ==
    \/ SetClaims \/ SetStores \/ SetReleases \/ GetReturns \/ FlushAtOnce
    \/ FlushHeard \/ FlushWaits \/ FlushWakes \/ Primed \/ Stops \/ Drained
    \/ Finalize

User ==
    \/ AddState \/ RemoveState \/ RestoreWithout \/ RestoreWith \/ GetAccess
    \/ (\E next \in {"idle", "flush"} : Set(next)) \/ Get \/ Flush
    \/ StartPlayback \/ StopPlayback

Next == AudioThread \/ MainSteps \/ User

(* Both threads are scheduled.  A thread that waits for mLockForCV gets it:*)
(* the other one holds it for a few steps of each pass.                    *)
Fairness ==
    /\ WF_vars(AudioThread)
    /\ WF_vars(MainSteps)
    /\ SF_vars(FlushHeard \/ FlushWaits)

Spec == Init /\ [][Next]_vars /\ Fairness

-----------------------------------------------------------------------------
(* Properties.                                                             *)

Settings == [value : 0..MaxSets, counter : 0..CounterSize - 1]
Buffers(Data) ==
    [data : [Slots -> Data], last : Slots, busy : [Slots -> BOOLEAN]]

TypeOK ==
    /\ main \in {"idle", "setClaim", "setStore", "setRelease", "get", "flush",
                 "wait", "prime", "stopping", "drain", "finalize"}
    /\ then \in {"idle", "flush", "relist"}
    /\ idx \in Slots /\ slot \in Slots
    /\ audio \in {"out", "claim", "read", "process", "lock", "reply",
                  "notify", "leave"}
    /\ playing \in BOOLEAN /\ once \in BOOLEAN
    /\ plays \in 0..MaxPlays /\ sets \in 0..MaxSets
    /\ listed \in BOOLEAN /\ exists \in BOOLEAN /\ access \in BOOLEAN
    /\ initialized \in BOOLEAN
    /\ kept \in Settings /\ last \in Settings /\ worker \in Settings
    /\ toWorker \in Buffers(Settings)
    /\ toMain \in Buffers(0..CounterSize - 1)
    /\ lock \in {Free, "worker"} /\ awake \in BOOLEAN

SlotsNotShared ==
    /\ main \in {"setStore", "setRelease"} /\ audio = "read" => idx # slot
    /\ main = "get" /\ audio = "reply" => idx # slot

FinalizedOutsidePass == main = "finalize" => audio = "out"

(* The threads share what they use without a lock, never at one time: they *)
(* are not in the same slot of a MessageBuffer (settings are not read      *)
(* while they are swapped in, nor a reply while it is written), and the    *)
(* audio thread is in no pass over an effect that is being finalized.      *)
ThreadsApart == SlotsNotShared /\ FinalizedOutsidePass

(* Although a reader may find the slot it wants busy and take the other    *)
(* one, the settings the audio thread uses never go back to older ones.    *)
SettingsNeverGoBack == [][worker'.value >= worker.value]_vars

(* When Flush() returns during playback, the audio thread has the settings *)
(* that were given last, although the counter wraps around.                *)
FlushMeansHeard ==
    [][FlushHeard => worker.value = last.value /\ kept' = worker]_vars

(* Settings that were given without Flush() before playback was stopped    *)
(* are the kept ones after it.                                             *)
StopKeepsSettings ==
    [][main = "finalize" /\ main' = "idle" /\ ~playing
       => kept'.value = sets]_vars

Heard == worker.value = last.value \/ ~playing \/ ~listed \/ ~initialized

(* Once the user stops giving settings, the last ones are heard during     *)
(* playback, unless it stops or the effect leaves the list; and Flush(),   *)
(* which waits for that, returns whatever becomes of the effect.           *)
SettingsArrive ==
    /\ ~Heard ~> Heard
    /\ main \in {"flush", "wait"} ~> main = "idle"
=============================================================================
