------------------------ MODULE RealtimeEffect_proofs ------------------------
(***************************************************************************)
(* Proofs about RealtimeEffect, for any number of settings and playbacks   *)
(* and any size of the counter: the two threads stay out of each other's   *)
(* slots and passes, settings only go forward, Flush() returns when they   *)
(* are heard, and those given last survive the end of playback.            *)
(***************************************************************************)
EXTENDS RealtimeEffect, TLAPS

-----------------------------------------------------------------------------
(* MessageBuffer                                                           *)

(* A new buffer holds the datum and nobody is in its slots.                *)
LEMMA NewBuffer ==
    ASSUME NEW Data, NEW d \in Data
    PROVE  /\ Buffer(d) \in Buffers(Data)
           /\ \A t \in Slots : ~Buffer(d).busy[t]
<1>1. [t \in Slots |-> FALSE] \in [Slots -> BOOLEAN]
  BY Zenon
<1> QED
  BY <1>1 DEF Buffer, Buffers, Slots

(* A slot is claimed, stored into and released as one of the buffer.       *)
LEMMA BufferTypes ==
    ASSUME NEW Data, NEW b \in Buffers(Data), NEW s \in Slots, NEW d \in Data
    PROVE  /\ Claimed(b, s) \in Slots
           /\ Claim(b, s) \in Buffers(Data)
           /\ Store(b, s, d) \in Buffers(Data)
           /\ Release(b, s) \in Buffers(Data)
           /\ b.data[s] \in Data /\ b.last \in Slots /\ 1 - s \in Slots
<1>1. Claimed(b, s) \in Slots /\ 1 - s \in Slots
  BY DEF Claimed, Slots
<1>2. Claim(b, s) \in Buffers(Data)
  BY Zenon DEF Claim, Buffers
<1>3. Store(b, s, d) \in Buffers(Data)
  BY DEF Store, Buffers
<1>4. Release(b, s) \in Buffers(Data)
  BY Zenon DEF Release, Buffers
<1> QED
  BY <1>1, <1>2, <1>3, <1>4 DEF Buffers

(* What a claim, a store and a release do to the busy flags; when only one *)
(* slot is busy, the one that is claimed is the other.                     *)
LEMMA BusyFlags ==
    ASSUME NEW Data, NEW b \in Buffers(Data), NEW s \in Slots, NEW d \in Data
    PROVE  /\ \A t \in Slots : Claim(b, s).busy[t] <=> t = s \/ b.busy[t]
           /\ Store(b, s, d).busy = b.busy
           /\ \A t \in Slots :
                Release(b, s).busy[t] <=> t # s /\ b.busy[t]
BY DEF Buffers, Claim, Store, Release, Slots

LEMMA ClaimedIsFree ==
    ASSUME NEW Data, NEW b \in Buffers(Data), NEW s \in Slots, NEW o \in Slots,
           \A t \in Slots : b.busy[t] => t = o
    PROVE  ~b.busy[Claimed(b, s)]
BY DEF Claimed, Slots, Buffers

-----------------------------------------------------------------------------
(* The invariant                                                           *)

(* A slot is busy exactly while one of the threads is in it, and never     *)
(* both are.                                                               *)
SlotInv ==
    /\ \A s \in Slots :
         toWorker.busy[s] <=> \/ main \in {"setStore", "setRelease"} /\ idx = s
                              \/ audio = "read" /\ slot = s
    /\ \A s \in Slots :
         toMain.busy[s] <=> \/ main = "get" /\ idx = s
                            \/ audio = "reply" /\ slot = s
    /\ SlotsNotShared

(* The channels are only used once they were made.                         *)
AccessInv ==
    /\ main \in {"setClaim", "setStore", "setRelease", "get"} => access
    /\ audio \in {"claim", "read", "lock", "reply"} => access

(* Passes are made during playback, on request, or until the stop has seen *)
(* their end.                                                              *)
PassInv ==
    /\ audio # "out" => playing \/ once \/ main = "stopping"
    /\ once => main \in {"prime", "drain"}
    /\ main \in {"stopping", "drain"} => ~playing

(* What is finalized is no longer visited.                                 *)
FinalInv ==
    main = "finalize" => audio = "out" /\ ~once /\ (~listed \/ ~playing)

Inv == TypeOK /\ SlotInv /\ AccessInv /\ PassInv

USE BoundAssumption

(* Settings stay settings when their counter starts again.               *)
LEMMA ResetType ==
    ASSUME NEW s \in Settings
    PROVE  [s EXCEPT !.counter = 0] \in Settings
<1>1. 0 \in 0..CounterSize - 1
  OBVIOUS
<1> QED
  BY <1>1, Zenon DEF Settings

(* Every action keeps the types.                                           *)
LEMMA StepKeepsTypes == TypeOK /\ [Next]_vars => TypeOK'
<1> SUFFICES ASSUME TypeOK, [Next]_vars
             PROVE  TypeOK'
  OBVIOUS
<1> DEFINE Counters == 0..CounterSize - 1
<1>0. /\ toWorker \in Buffers(Settings) /\ toMain \in Buffers(Counters)
      /\ last \in Settings /\ kept \in Settings /\ worker \in Settings
      /\ last.counter \in Counters /\ worker.counter \in Counters
      /\ idx \in Slots /\ slot \in Slots /\ 0 \in Counters /\ 0 \in Slots
      /\ toWorker.last \in Slots /\ 1 - toWorker.last \in Slots
  BY DEF TypeOK, Settings, Slots, Buffers
<1> HIDE DEF Counters
<1> USE DEF mainVars, audioVars, listVars, settings, cvVars
<1>1. CASE PassBegins
  <2>1. once' \in BOOLEAN
    BY <1>1, Zenon DEF TypeOK, PassBegins
  <2> QED
    BY <1>0, <1>1, <2>1 DEF Counters, Settings, TypeOK, PassBegins
<1>2. CASE WorkerClaims
  <2>1. toWorker' \in Buffers(Settings)
    BY <1>0, <1>2, BufferTypes DEF WorkerClaims
  <2>2. toMain' \in Buffers(Counters)
    BY <1>0, <1>2, BufferTypes DEF WorkerClaims
  <2>3. idx' \in Slots /\ slot' \in Slots
    BY <1>0, <1>2, BufferTypes DEF WorkerClaims
  <2> QED
    BY <1>0, <1>2, <2>1, <2>2, <2>3 DEF Counters, Settings, TypeOK,
                                        WorkerClaims
<1>3. CASE WorkerReads
  <2>1. toWorker' \in Buffers(Settings) /\ worker' \in Settings
    BY <1>0, <1>3, BufferTypes DEF WorkerReads
  <2> QED
    BY <1>0, <1>3, <2>1 DEF Slots, TypeOK, WorkerReads
<1>4. CASE Process
  BY <1>4 DEF TypeOK, Process, Slots, Settings
<1>5. CASE WorkerLocks
  <2>1. toWorker' \in Buffers(Settings)
    BY <1>0, <1>5, BufferTypes DEF WorkerLocks
  <2>2. toMain' \in Buffers(Counters)
    BY <1>0, <1>5, BufferTypes DEF WorkerLocks
  <2>3. idx' \in Slots /\ slot' \in Slots
    BY <1>0, <1>5, BufferTypes DEF WorkerLocks
  <2> QED
    BY <1>0, <1>5, <2>1, <2>2, <2>3 DEF Counters, Settings, TypeOK, WorkerLocks
<1>6. CASE WorkerReplies
  <2>1. toWorker' \in Buffers(Settings)
    BY <1>0, <1>6, BufferTypes DEF WorkerReplies
  <2>2. toMain' \in Buffers(Counters)
    BY <1>0, <1>6, BufferTypes DEF WorkerReplies
  <2>3. idx' \in Slots /\ slot' \in Slots
    BY <1>0, <1>6, BufferTypes DEF WorkerReplies
  <2> QED
    BY <1>0, <1>6, <2>1, <2>2, <2>3 DEF Counters, Settings, TypeOK,
                                        WorkerReplies
<1>7. CASE WorkerNotifies
  BY <1>7 DEF TypeOK, WorkerNotifies, Slots, Settings
<1>8. CASE PassEnds
  <2>1. once' \in BOOLEAN
    BY <1>8, Zenon DEF TypeOK, PassEnds
  <2> QED
    BY <1>0, <1>8, <2>1 DEF Counters, Settings, TypeOK, PassEnds
<1>9. CASE SetClaims
  <2>1. toWorker' \in Buffers(Settings)
    BY <1>0, <1>9, BufferTypes DEF SetClaims
  <2>2. toMain' \in Buffers(Counters)
    BY <1>0, <1>9, BufferTypes DEF SetClaims
  <2>3. idx' \in Slots /\ slot' \in Slots
    BY <1>0, <1>9, BufferTypes DEF SetClaims
  <2> QED
    BY <1>0, <1>9, <2>1, <2>2, <2>3 DEF Counters, Settings, TypeOK, SetClaims
<1>10. CASE SetStores
  <2>1. toWorker' \in Buffers(Settings)
    BY <1>0, <1>10, BufferTypes DEF SetStores
  <2>2. toMain' \in Buffers(Counters)
    BY <1>0, <1>10, BufferTypes DEF SetStores
  <2>3. idx' \in Slots /\ slot' \in Slots
    BY <1>0, <1>10, BufferTypes DEF SetStores
  <2> QED
    BY <1>0, <1>10, <2>1, <2>2, <2>3 DEF Counters, Settings, TypeOK, SetStores
<1>11. CASE SetReleases
  <2>1. toWorker' \in Buffers(Settings)
    BY <1>0, <1>11, BufferTypes DEF SetReleases
  <2>2. toMain' \in Buffers(Counters)
    BY <1>0, <1>11, BufferTypes DEF SetReleases
  <2>3. idx' \in Slots /\ slot' \in Slots
    BY <1>0, <1>11, BufferTypes DEF SetReleases
  <2> QED
    BY <1>0, <1>11, <2>1, <2>2, <2>3 DEF Counters, Settings, TypeOK,
                                         SetReleases
<1>12. CASE GetReturns
  <2>1. toWorker' \in Buffers(Settings)
    BY <1>0, <1>12, BufferTypes DEF GetReturns
  <2>2. toMain' \in Buffers(Counters)
    BY <1>0, <1>12, BufferTypes DEF GetReturns
  <2>3. idx' \in Slots /\ slot' \in Slots
    BY <1>0, <1>12, BufferTypes DEF GetReturns
  <2> QED
    BY <1>0, <1>12, <2>1, <2>2, <2>3 DEF Counters, Settings, TypeOK, GetReturns
<1>13. CASE FlushAtOnce
  BY <1>13 DEF TypeOK, FlushAtOnce, Flushed, Slots, Settings
<1>14. CASE FlushHeard
  BY <1>14 DEF TypeOK, FlushHeard, Flushed, Slots, Settings
<1>15. CASE FlushWaits
  <2>1. awake' \in BOOLEAN
    BY <1>15, Zenon DEF TypeOK, FlushWaits
  <2> QED
    BY <1>0, <1>15, <2>1 DEF Counters, Settings, TypeOK, FlushWaits
<1>16. CASE FlushWakes
  <2>1. awake' \in BOOLEAN
    BY <1>16, Zenon DEF TypeOK, FlushWakes
  <2> QED
    BY <1>0, <1>16, <2>1 DEF Counters, Settings, TypeOK, FlushWakes
<1>17. CASE Primed
  BY <1>17 DEF TypeOK, Primed, Slots, Settings
<1>18. CASE Stops
  BY <1>18 DEF TypeOK, Stops, Slots, Settings
<1>19. CASE Drained
  BY <1>19 DEF TypeOK, Drained, Slots, Settings
<1>20. CASE Finalize
  <2>1. initialized' \in BOOLEAN
    BY <1>20, Zenon DEF TypeOK, Finalize
  <2> QED
    BY <1>0, <1>20, <2>1 DEF Counters, Settings, TypeOK, Finalize
<1>21. CASE AddState
  <2>1. exists' \in BOOLEAN /\ listed' \in BOOLEAN /\ initialized' \in BOOLEAN
    BY <1>21, Zenon DEF TypeOK, AddState, EnsureInstance
  <2> QED
    BY <1>0, <1>21, <2>1 DEF Counters, Settings, TypeOK, AddState,
                             EnsureInstance
<1>22. CASE RemoveState
  <2>1. listed' \in BOOLEAN
    BY <1>22, Zenon DEF TypeOK, RemoveState
  <2> QED
    BY <1>0, <1>22, <2>1 DEF Counters, Settings, TypeOK, RemoveState
<1>23. CASE RestoreWithout
  <2>1. listed' \in BOOLEAN
    BY <1>23, Zenon DEF TypeOK, RestoreWithout
  <2> QED
    BY <1>0, <1>23, <2>1 DEF Counters, Settings, TypeOK, RestoreWithout
<1>24. CASE RestoreWith
  <2>1. last' \in Settings
    BY <1>0, <1>24 DEF Counters, Settings, TypeOK, RestoreWith, Set
  <2>2. idx' \in Slots
    BY <1>0, <1>24 DEF RestoreWith, Set
  <2> QED
    BY <1>0, <1>24, <2>1, <2>2 DEF TypeOK, RestoreWith, Set
<1>25. CASE GetAccess
  <2>1. kept' \in Settings /\ last' \in Settings /\ access' \in BOOLEAN
    BY <1>25, ResetType, Zenon DEF TypeOK, GetAccess
  <2>2. toWorker' \in Buffers(Settings) /\ toMain' \in Buffers(Counters)
    <3>1. toWorker' = Buffer(last') /\ toMain' = Buffer(0)
      BY <1>25 DEF GetAccess
    <3> QED
      BY <1>0, <2>1, <3>1, NewBuffer
  <2> QED
    BY <1>0, <1>25, <2>1, <2>2 DEF Counters, TypeOK, GetAccess
<1>26. CASE \E next \in {"idle", "flush"} : Set(next)
  <2>1. last' \in Settings
    BY <1>0, <1>26 DEF Counters, Settings, TypeOK, Set
  <2>2. idx' \in Slots
    BY <1>0, <1>26 DEF Set
  <2> QED
    BY <1>0, <1>26, <2>1, <2>2 DEF TypeOK, Set
<1>27. CASE Get
  <2>1. toWorker' \in Buffers(Settings)
    BY <1>0, <1>27, BufferTypes DEF Get
  <2>2. toMain' \in Buffers(Counters)
    BY <1>0, <1>27, BufferTypes DEF Get
  <2>3. idx' \in Slots /\ slot' \in Slots
    BY <1>0, <1>27, BufferTypes DEF Get
  <2> QED
    BY <1>0, <1>27, <2>1, <2>2, <2>3 DEF Counters, Settings, TypeOK, Get
<1>28. CASE Flush
  BY <1>28 DEF TypeOK, Flush, Slots, Settings
<1>29. CASE StartPlayback
  <2>1. /\ last' \in Settings /\ worker' \in Settings
        /\ playing' \in BOOLEAN /\ once' \in BOOLEAN /\ initialized' \in BOOLEAN
    BY <1>29, ResetType, Zenon DEF TypeOK, StartPlayback, EnsureInstance
  <2>2. toWorker' \in Buffers(Settings) /\ toMain' \in Buffers(Counters)
    <3>1. \/ UNCHANGED <<toWorker, toMain>>
          \/ toWorker' = Buffer(last') /\ toMain' = Buffer(0)
      BY <1>29 DEF StartPlayback, EnsureInstance
    <3> QED
      BY <1>0, <2>1, <3>1, NewBuffer
  <2> QED
    BY <1>0, <1>29, <2>1, <2>2 DEF Counters, TypeOK, StartPlayback,
                                   EnsureInstance
<1>30. CASE StopPlayback
  <2>1. playing' \in BOOLEAN
    BY <1>30, Zenon DEF TypeOK, StopPlayback
  <2> QED
    BY <1>0, <1>30, <2>1 DEF Counters, Settings, TypeOK, StopPlayback
<1>31. CASE UNCHANGED vars
  BY <1>31 DEF TypeOK, vars
<1> QED
  BY <1>1, <1>2, <1>3, <1>4, <1>5, <1>6, <1>7, <1>8, <1>9, <1>10, <1>11,
     <1>12, <1>13, <1>14, <1>15, <1>16, <1>17, <1>18, <1>19, <1>20, <1>21,
     <1>22, <1>23, <1>24, <1>25, <1>26, <1>27, <1>28, <1>29, <1>30, <1>31
     DEF Next, AudioThread, MainSteps, User

(* Every action keeps the threads out of each other's slots.               *)
LEMMA StepKeepsInv ==
    ASSUME Inv, [Next]_vars
    PROVE  Inv'
<1>0. TypeOK'
  BY StepKeepsTypes DEF Inv
<1> DEFINE Counters == 0..CounterSize - 1
<1>00. /\ toWorker \in Buffers(Settings) /\ toMain \in Buffers(Counters)
       /\ last \in Settings /\ last' \in Settings
       /\ worker.counter \in Counters /\ 0 \in Counters
       /\ idx \in Slots /\ slot \in Slots /\ toWorker.last \in Slots
       /\ toMain.last \in Slots /\ 1 - toMain.last \in Slots
  BY <1>0 DEF Inv, TypeOK, Settings, Slots, Buffers
<1> HIDE DEF Counters
<1> USE DEF mainVars, audioVars, listVars, settings, cvVars
<1> USE DEF Inv, SlotInv, AccessInv, PassInv, SlotsNotShared
<1>1. CASE PassBegins
  BY <1>0, <1>1 DEF TypeOK, PassBegins
<1>2. CASE WorkerClaims
  <2>1. SlotInv'
    <3>1. \A t \in Slots : toWorker.busy[t] => t = idx
      BY <1>2 DEF WorkerClaims
    <3>2. ~toWorker.busy[slot'] /\ slot' \in Slots
      <4>1. slot' = Claimed(toWorker, slot)
        BY <1>2 DEF WorkerClaims
      <4>2. slot' \in Slots
        BY <1>00, <4>1, BufferTypes
      <4>3. ~toWorker.busy[Claimed(toWorker, slot)]
        BY <1>00, <3>1, ClaimedIsFree
      <4> QED
        BY <4>1, <4>2, <4>3
    <3>3. \A t \in Slots : toWorker'.busy[t] <=> t = slot' \/ toWorker.busy[t]
      <4>1. toWorker' = Claim(toWorker, slot')
        BY <1>2 DEF WorkerClaims
      <4> QED
        BY <1>00, <3>2, <4>1, BusyFlags
    <3> QED
      BY <1>00, <1>2, <3>1, <3>2, <3>3 DEF WorkerClaims
  <2>2. AccessInv' /\ PassInv'
    BY <1>2 DEF WorkerClaims
  <2> QED
    BY <1>0, <2>1, <2>2
<1>3. CASE WorkerReads
  <2>1. SlotInv'
    <3>1. \A t \in Slots :
            toWorker'.busy[t] <=> t # slot /\ toWorker.busy[t]
      <4>1. toWorker' = Release(toWorker, slot)
        BY <1>3 DEF WorkerReads
      <4> QED
        BY <1>00, <4>1, BusyFlags
    <3> QED
      BY <1>3, <3>1 DEF WorkerReads
  <2>2. AccessInv' /\ PassInv'
    BY <1>3 DEF WorkerReads
  <2> QED
    BY <1>0, <2>1, <2>2
<1>4. CASE Process
  BY <1>0, <1>4 DEF TypeOK, Process
<1>5. CASE WorkerLocks
  <2>1. SlotInv'
    <3>1. \A t \in Slots : toMain.busy[t] => t = idx
      BY <1>5 DEF WorkerLocks
    <3>2. ~toMain.busy[slot'] /\ slot' \in Slots
      <4>1. slot' = Claimed(toMain, 1 - toMain.last)
        BY <1>5 DEF WorkerLocks
      <4>2. slot' \in Slots
        BY <1>00, <4>1, BufferTypes
      <4>3. ~toMain.busy[Claimed(toMain, 1 - toMain.last)]
        BY <1>00, <3>1, ClaimedIsFree
      <4> QED
        BY <4>1, <4>2, <4>3
    <3>3. \A t \in Slots : toMain'.busy[t] <=> t = slot' \/ toMain.busy[t]
      <4>1. toMain' = Claim(toMain, slot')
        BY <1>5 DEF WorkerLocks
      <4> QED
        BY <1>00, <3>2, <4>1, BusyFlags
    <3> QED
      BY <1>00, <1>5, <3>1, <3>2, <3>3 DEF WorkerLocks
  <2>2. AccessInv' /\ PassInv'
    BY <1>5 DEF WorkerLocks
  <2> QED
    BY <1>0, <2>1, <2>2
<1>6. CASE WorkerReplies
  <2>1. SlotInv'
    <3>1. \A t \in Slots :
            toMain'.busy[t] <=> t # slot /\ toMain.busy[t]
      <4>1. Store(toMain, slot, worker.counter) \in Buffers(Counters)
        BY <1>00, BufferTypes
      <4>2. Store(toMain, slot, worker.counter).busy = toMain.busy
        BY <1>00, BusyFlags
      <4>3. toMain' = Release(Store(toMain, slot, worker.counter), slot)
        BY <1>6 DEF WorkerReplies
      <4> QED
        BY <1>00, <4>1, <4>2, <4>3, BusyFlags
    <3> QED
      BY <1>6, <3>1 DEF WorkerReplies
  <2>2. AccessInv' /\ PassInv'
    BY <1>6 DEF WorkerReplies
  <2> QED
    BY <1>0, <2>1, <2>2
<1>7. CASE WorkerNotifies
  BY <1>0, <1>7 DEF TypeOK, WorkerNotifies
<1>8. CASE PassEnds
  BY <1>0, <1>8 DEF TypeOK, PassEnds
<1>9. CASE SetClaims
  <2>1. SlotInv'
    <3>1. \A t \in Slots : toWorker.busy[t] => t = slot
      BY <1>9 DEF SetClaims
    <3>2. ~toWorker.busy[idx'] /\ idx' \in Slots
      <4>1. idx' = Claimed(toWorker, idx)
        BY <1>9 DEF SetClaims
      <4>2. idx' \in Slots
        BY <1>00, <4>1, BufferTypes
      <4>3. ~toWorker.busy[Claimed(toWorker, idx)]
        BY <1>00, <3>1, ClaimedIsFree
      <4> QED
        BY <4>1, <4>2, <4>3
    <3>3. \A t \in Slots : toWorker'.busy[t] <=> t = idx' \/ toWorker.busy[t]
      <4>1. toWorker' = Claim(toWorker, idx')
        BY <1>9 DEF SetClaims
      <4> QED
        BY <1>00, <3>2, <4>1, BusyFlags
    <3> QED
      BY <1>00, <1>9, <3>1, <3>2, <3>3 DEF SetClaims
  <2>2. AccessInv' /\ PassInv'
    BY <1>9 DEF SetClaims
  <2> QED
    BY <1>0, <2>1, <2>2
<1>10. CASE SetStores
  <2>1. SlotInv'
    <3>1. toWorker'.busy = toWorker.busy
      BY <1>00, <1>10, BusyFlags DEF SetStores
    <3> QED
      BY <1>10, <3>1 DEF SetStores
  <2>2. AccessInv' /\ PassInv'
    BY <1>10 DEF SetStores
  <2> QED
    BY <1>0, <2>1, <2>2
<1>11. CASE SetReleases
  <2>1. SlotInv'
    <3>1. \A t \in Slots :
            toWorker'.busy[t] <=> t # idx /\ toWorker.busy[t]
      <4>1. toWorker' = Release(toWorker, idx)
        BY <1>11 DEF SetReleases
      <4> QED
        BY <1>00, <4>1, BusyFlags
    <3> QED
      BY <1>11, <3>1 DEF SetReleases
  <2>2. AccessInv' /\ PassInv'
    BY <1>11 DEF SetReleases
  <2> QED
    BY <1>0, <2>1, <2>2
<1>12. CASE GetReturns
  <2>1. SlotInv'
    <3>1. \A t \in Slots :
            toMain'.busy[t] <=> t # idx /\ toMain.busy[t]
      <4>1. toMain' = Release(toMain, idx)
        BY <1>12 DEF GetReturns
      <4> QED
        BY <1>00, <4>1, BusyFlags
    <3> QED
      BY <1>12, <3>1 DEF GetReturns
  <2>2. AccessInv' /\ PassInv'
    BY <1>12 DEF GetReturns
  <2> QED
    BY <1>0, <2>1, <2>2
<1>13. CASE FlushAtOnce
  BY <1>0, <1>13 DEF TypeOK, FlushAtOnce, Flushed
<1>14. CASE FlushHeard
  BY <1>0, <1>14 DEF TypeOK, FlushHeard, Flushed
<1>15. CASE FlushWaits
  BY <1>0, <1>15 DEF TypeOK, FlushWaits
<1>16. CASE FlushWakes
  BY <1>0, <1>16 DEF TypeOK, FlushWakes
<1>17. CASE Primed
  BY <1>0, <1>17 DEF TypeOK, Primed
<1>18. CASE Stops
  BY <1>0, <1>18 DEF TypeOK, Stops
<1>19. CASE Drained
  BY <1>0, <1>19 DEF TypeOK, Drained
<1>20. CASE Finalize
  BY <1>0, <1>20 DEF TypeOK, Finalize
<1>21. CASE AddState
  BY <1>0, <1>21 DEF TypeOK, AddState, EnsureInstance
<1>22. CASE RemoveState
  BY <1>0, <1>22 DEF TypeOK, RemoveState
<1>23. CASE RestoreWithout
  BY <1>0, <1>23 DEF TypeOK, RestoreWithout
<1>24. CASE RestoreWith
  BY <1>0, <1>24 DEF TypeOK, RestoreWith, Set
<1>25. CASE GetAccess
  <2>1. SlotInv'
    <3>1. (toWorker' = Buffer(last') /\ toMain' = Buffer(0))
      BY <1>25 DEF GetAccess
    <3>2. \A t \in Slots : ~Buffer(last').busy[t] /\ ~Buffer(0).busy[t]
      BY <1>00, NewBuffer
    <3> QED
      BY <1>00, <1>25, <3>1, <3>2 DEF GetAccess
  <2>2. AccessInv' /\ PassInv'
    BY <1>25 DEF GetAccess
  <2> QED
    BY <1>0, <2>1, <2>2
<1>26. CASE \E next \in {"idle", "flush"} : Set(next)
  BY <1>0, <1>26 DEF TypeOK, Set
<1>27. CASE Get
  <2>1. SlotInv'
    <3>1. \A t \in Slots : toMain.busy[t] => t = slot
      BY <1>27 DEF Get
    <3>2. ~toMain.busy[idx'] /\ idx' \in Slots
      <4>1. idx' = Claimed(toMain, toMain.last)
        BY <1>27 DEF Get
      <4>2. idx' \in Slots
        BY <1>00, <4>1, BufferTypes
      <4>3. ~toMain.busy[Claimed(toMain, toMain.last)]
        BY <1>00, <3>1, ClaimedIsFree
      <4> QED
        BY <4>1, <4>2, <4>3
    <3>3. \A t \in Slots : toMain'.busy[t] <=> t = idx' \/ toMain.busy[t]
      <4>1. toMain' = Claim(toMain, idx')
        BY <1>27 DEF Get
      <4> QED
        BY <1>00, <3>2, <4>1, BusyFlags
    <3> QED
      BY <1>00, <1>27, <3>1, <3>2, <3>3 DEF Get
  <2>2. AccessInv' /\ PassInv'
    BY <1>27 DEF Get
  <2> QED
    BY <1>0, <2>1, <2>2
<1>28. CASE Flush
  BY <1>0, <1>28 DEF TypeOK, Flush
<1>29. CASE StartPlayback
  <2>1. SlotInv'
    <3>1. UNCHANGED <<toWorker, toMain>> \/ (toWorker' = Buffer(last') /\ toMain' = Buffer(0))
      BY <1>29 DEF StartPlayback, EnsureInstance
    <3>2. \A t \in Slots : ~Buffer(last').busy[t] /\ ~Buffer(0).busy[t]
      BY <1>00, NewBuffer
    <3> QED
      BY <1>00, <1>29, <3>1, <3>2 DEF StartPlayback, EnsureInstance
  <2>2. AccessInv' /\ PassInv'
    BY <1>29 DEF StartPlayback, EnsureInstance
  <2> QED
    BY <1>0, <2>1, <2>2
<1>30. CASE StopPlayback
  BY <1>0, <1>30 DEF TypeOK, StopPlayback
<1>31. CASE UNCHANGED vars
  BY <1>0, <1>31 DEF vars
<1> QED
  BY <1>1, <1>2, <1>3, <1>4, <1>5, <1>6, <1>7, <1>8, <1>9, <1>10, <1>11,
     <1>12, <1>13, <1>14, <1>15, <1>16, <1>17, <1>18, <1>19, <1>20, <1>21,
     <1>22, <1>23, <1>24, <1>25, <1>26, <1>27, <1>28, <1>29, <1>30, <1>31
     DEF Next, AudioThread, MainSteps, User

(* Unless the effect may be removed from under a pass, every action keeps  *)
(* the passes away from what is finalized.                                 *)
LEMMA StepKeepsFinal ==
    ASSUME Inv, FinalInv, [Next]_vars, "removeDuringPass" \notin Faults
    PROVE  FinalInv'
<1> USE DEF FinalInv, mainVars, audioVars, listVars, cvVars
<1>1. CASE AudioThread
  BY <1>1 DEF AudioThread, PassBegins, WorkerClaims, WorkerReads, Process,
              WorkerLocks, WorkerReplies, WorkerNotifies, PassEnds
<1>2. CASE MainSteps
  BY <1>2 DEF MainSteps, SetClaims, SetStores, SetReleases, GetReturns,
              FlushAtOnce, FlushHeard, Flushed, FlushWaits, FlushWakes,
              Primed, Stops, Drained, Finalize, Inv, PassInv
<1>3. CASE User
  BY <1>3 DEF User, AddState, RemoveState, RestoreWithout, RestoreWith,
              GetAccess, Set, Get, Flush, StartPlayback, StopPlayback, Inv,
              PassInv
<1>4. CASE UNCHANGED vars
  BY <1>4 DEF vars
<1> QED
  BY <1>1, <1>2, <1>3, <1>4 DEF Next

LEMMA InitHolds == Init => Inv /\ FinalInv
<1> SUFFICES ASSUME Init
             PROVE  Inv /\ FinalInv
  OBVIOUS
<1>1. /\ playing \in BOOLEAN /\ once \in BOOLEAN /\ listed \in BOOLEAN
      /\ exists \in BOOLEAN /\ access \in BOOLEAN /\ initialized \in BOOLEAN
      /\ awake \in BOOLEAN
  BY Zenon DEF Init
<1>2. Default \in Settings /\ 0 \in 0..CounterSize - 1 /\ 0 \in Slots
  BY DEF Default, Settings, Slots
<1>3. /\ toWorker \in Buffers(Settings)
      /\ toMain \in Buffers(0..CounterSize - 1)
  BY <1>2, NewBuffer DEF Init
<1>4. \A s \in Slots : ~toWorker.busy[s] /\ ~toMain.busy[s]
  BY <1>2, NewBuffer DEF Init
<1>5. TypeOK
  BY <1>1, <1>2, <1>3 DEF Init, TypeOK
<1> QED
  BY <1>4, <1>5
     DEF Init, Inv, FinalInv, SlotInv, AccessInv, PassInv, SlotsNotShared

LEMMA InvHolds == Spec => []Inv
<1>1. Init => Inv /\ FinalInv
  BY InitHolds
<1>2. Inv /\ [Next]_vars => Inv'
  BY StepKeepsInv
<1> QED
  BY <1>1, <1>2, PTL DEF Spec

(* Every setting, counter and slot stays within its type, whatever happens *)
(* to the effect: the counter wraps around at CounterSize.                 *)
THEOREM TypesHold == Spec => []TypeOK
<1>1. Init => TypeOK
  BY InitHolds DEF Inv
<1>2. TypeOK /\ [Next]_vars => TypeOK'
  BY StepKeepsTypes
<1> QED
  BY <1>1, <1>2, PTL DEF Spec

(* Without a lock, the two threads are never in the same slot of a message *)
(* buffer: the exchange of the busy flag is all the buffers need, even if  *)
(* the effect is removed or restored at the worst moment.                  *)
THEOREM SlotsStayApart == Spec => []SlotsNotShared
<1>1. Inv => SlotsNotShared
  BY DEF Inv, SlotInv
<1> QED
  BY <1>1, InvHolds, PTL

(* And an effect is not finalized under a pass of the audio thread, if it  *)
(* is not removed in the middle of one.                                    *)
THEOREM ThreadsStayApart ==
    "removeDuringPass" \notin Faults /\ Spec => []ThreadsApart
<1> SUFFICES ASSUME "removeDuringPass" \notin Faults
             PROVE  Spec => []ThreadsApart
  OBVIOUS
<1>1. Init => Inv /\ FinalInv
  BY InitHolds
<1>2. (Inv /\ FinalInv) /\ [Next]_vars => (Inv /\ FinalInv)'
  BY StepKeepsInv, StepKeepsFinal
<1>3. Inv /\ FinalInv => ThreadsApart
  BY DEF Inv, SlotInv, FinalInv, ThreadsApart, FinalizedOutsidePass
<1> QED
  BY <1>1, <1>2, <1>3, PTL DEF Spec
-----------------------------------------------------------------------------
(* What a claim, a store and a release do to the data.                     *)
LEMMA DataKept ==
    ASSUME NEW Data, NEW b \in Buffers(Data), NEW s \in Slots
    PROVE  /\ Claim(b, s).data = b.data /\ Claim(b, s).last = b.last
           /\ Release(b, s).data = b.data /\ Release(b, s).last = b.last
BY DEF Buffers, Claim, Release

LEMMA DataStored ==
    ASSUME NEW Data, NEW b \in Buffers(Data), NEW s \in Slots, NEW d \in Data
    PROVE  /\ Store(b, s, d).last = s
           /\ Store(b, s, d).data[s] = d
           /\ Store(b, s, d).data[1 - s] = b.data[1 - s]
BY DEF Buffers, Store, Slots

LEMMA NewData ==
    ASSUME NEW d
    PROVE  /\ Buffer(d).data = [s \in Slots |-> d]
           /\ \A s \in Slots : Buffer(d).data[s] = d
           /\ Buffer(d).last = 0 /\ Buffer(d).last \in Slots
BY DEF Buffer, Slots

(* The three actions that change what is in the buffer of the settings,    *)
(* and the three that change what is in that of the replies.               *)
LEMMA WhoStores ==
    ASSUME Inv, [Next]_vars
    PROVE  /\ \/ SetStores \/ GetAccess \/ StartPlayback
              \/ toWorker'.data = toWorker.data /\ toWorker'.last = toWorker.last
           /\ \/ WorkerReplies \/ GetAccess \/ StartPlayback
              \/ toMain'.data = toMain.data /\ toMain'.last = toMain.last
<1> DEFINE Counters == 0..CounterSize - 1
<1>0. /\ toWorker \in Buffers(Settings) /\ toMain \in Buffers(Counters)
      /\ idx \in Slots /\ slot \in Slots /\ toMain.last \in Slots /\ 1 - toMain.last \in Slots
  BY DEF Inv, TypeOK, Buffers, Slots
<1> HIDE DEF Counters
<1> USE DEF settings
<1>1. CASE WorkerClaims \/ WorkerReads \/ WorkerLocks
  <2>1. Claimed(toWorker, slot) \in Slots /\ Claimed(toMain, 1 - toMain.last) \in Slots
    BY <1>0 DEF Claimed, Slots
  <2> QED
    BY <1>0, <1>1, <2>1, DataKept DEF WorkerClaims, WorkerReads, WorkerLocks
<1>2. CASE SetClaims \/ SetReleases \/ Get \/ GetReturns
  <2>1. Claimed(toWorker, idx) \in Slots /\ Claimed(toMain, toMain.last) \in Slots
    BY <1>0 DEF Claimed, Slots
  <2> QED
    BY <1>0, <1>2, <2>1, DataKept DEF SetClaims, SetReleases, Get, GetReturns
<1>3. CASE PassBegins \/ Process \/ WorkerNotifies \/ PassEnds \/ FlushAtOnce \/ FlushHeard
           \/ FlushWaits \/ FlushWakes \/ Primed \/ Stops \/ Drained \/ Finalize
  BY <1>3 DEF PassBegins, Process, WorkerNotifies, PassEnds, FlushAtOnce,
              FlushHeard,
     FlushWaits, FlushWakes, Primed, Stops, Drained, Finalize
<1>4. CASE AddState \/ RemoveState \/ RestoreWithout \/ RestoreWith \/ Flush \/ StopPlayback
           \/ \E next \in {"idle", "flush"} : Set(next)
  BY <1>4 DEF AddState, RemoveState, RestoreWithout, RestoreWith, Flush,
              StopPlayback, Set
<1>5. CASE SetStores
  BY <1>5 DEF SetStores
<1>6. CASE WorkerReplies
  BY <1>6 DEF WorkerReplies
<1>7. CASE UNCHANGED vars
  BY <1>7 DEF vars
<1> QED
  BY <1>1, <1>2, <1>3, <1>4, <1>5, <1>6, <1>7 DEF Next, AudioThread,
     MainSteps, User

-----------------------------------------------------------------------------
(* The settings do not go back                                             *)

Newest == toWorker.data[toWorker.last]

(* Before the first GetAccess() nothing was given.                         *)
UnusedInv ==
    /\ access => exists
    /\ ~access => /\ sets = 0 /\ kept = Default /\ last = Default /\ worker = Default
                  /\ toWorker.data = [s \in Slots |-> Default]

(* The settings that were given last are the newest ones in the buffer,    *)
(* except while Set stores them.                                           *)
GivenInv ==
    /\ last.value = sets /\ kept.value <= sets /\ Newest.value <= sets
    /\ main \notin {"setClaim", "setStore"} => Newest = last
    /\ \A s \in Slots : toWorker.data[s].value <= Newest.value

(* Whichever slot the audio thread gets to read, the one it prefers or the *)
(* other one, it does not hold older settings than the audio thread has.   *)
ReadInv ==
    /\ worker.value <= Newest.value
    /\ main = "setClaim" => idx = 1 - toWorker.last
    /\ main \in {"setStore", "setRelease"} => worker.value <= toWorker.data[1 - idx].value
    /\ audio \in {"claim", "read"} => worker.value <= toWorker.data[slot].value

(* Nor do the kept ones an instance starts with.                           *)
KeptInv ==
    /\ main = "prime" => playing
    /\ listed /\ ~initialized /\ ~playing /\ main \notin {"stopping", "drain", "finalize"}
           => worker.value <= kept.value

ValueInv == UnusedInv /\ GivenInv /\ ReadInv /\ KeptInv

LEMMA ValueTypes ==
    ASSUME TypeOK
    PROVE  /\ sets \in Nat
           /\ last \in Settings /\ kept \in Settings /\ worker \in Settings /\ Newest \in Settings
           /\ \A s \in Slots : toWorker.data[s] \in Settings
           /\ \A x \in Settings : x.value \in Nat
           /\ idx \in Slots /\ slot \in Slots /\ toWorker.last \in Slots
           /\ \A s \in Slots : 1 - s \in Slots /\ 1 - (1 - s) = s
           /\ \A s, t \in Slots : s # t => t = 1 - s
BY DEF TypeOK, Settings, Buffers, Slots, Newest

LEMMA StepKeepsUnused ==
    ASSUME Inv, ValueInv, [Next]_vars
    PROVE  UnusedInv'
<1>0. (access => access') /\ (access => exists) /\ (access' => exists')
  BY DEF ValueInv, UnusedInv, Next, AudioThread, MainSteps, User, PassBegins,
         WorkerClaims, WorkerReads, Process,
     WorkerLocks, WorkerReplies, WorkerNotifies, PassEnds, SetClaims, SetStores, SetReleases,
     GetReturns, FlushAtOnce, FlushHeard, Flushed, FlushWaits, FlushWakes, Primed, Stops, Drained,
     Finalize, AddState, RemoveState, RestoreWithout, RestoreWith, GetAccess, Set, Get, Flush,
     StartPlayback, StopPlayback, vars, listVars
<1> SUFFICES ASSUME ~access, ~access'
             PROVE  UnusedInv'
  BY <1>0 DEF UnusedInv
<1>1. /\ sets = 0 /\ kept = Default /\ last = Default /\ worker = Default
      /\ toWorker.data = [s \in Slots |-> Default]
  BY DEF ValueInv, UnusedInv
<1>2. ~SetStores /\ ~GetAccess /\ ~WorkerReads /\ ~RestoreWith
      /\ ~(\E next \in {"idle", "flush"} : Set(next))
  BY DEF SetStores, GetAccess, WorkerReads, RestoreWith, Set, Inv, AccessInv
<1>3. toWorker'.data = toWorker.data
  <2>1. CASE StartPlayback
    BY <2>1 DEF StartPlayback, EnsureInstance
  <2> QED
    BY <1>2, <2>1, WhoStores
<1>4. sets' = 0 /\ kept' = Default /\ last' = Default /\ worker' = Default
  BY <1>1, <1>2 DEF Next, AudioThread, MainSteps, User, PassBegins,
                    WorkerClaims, Process,
     WorkerLocks, WorkerReplies, WorkerNotifies, PassEnds, SetClaims, SetReleases,
     GetReturns, FlushAtOnce, FlushHeard, Flushed, FlushWaits, FlushWakes, Primed, Stops, Drained,
     Finalize, AddState, RemoveState, RestoreWithout, Get, Flush,
     StartPlayback, StopPlayback, EnsureInstance, vars, mainVars, settings
<1> QED
  BY <1>1, <1>3, <1>4 DEF UnusedInv

LEMMA StepKeepsGiven ==
    ASSUME Inv, ValueInv, [Next]_vars
    PROVE  GivenInv'
<1>0. TypeOK /\ TypeOK'
  BY StepKeepsTypes DEF Inv
<1>1. GivenInv /\ UnusedInv /\ ReadInv
  BY DEF ValueInv
<1> USE ValueTypes DEF mainVars, settings, Newest, GivenInv
<1>2. CASE SetStores
  <2>1. /\ toWorker'.last = idx /\ toWorker'.data[idx] = last
        /\ toWorker'.data[1 - idx] = toWorker.data[1 - idx]
    BY <1>0, <1>2, DataStored DEF SetStores, TypeOK
  <2>2. sets' = sets /\ last' = last /\ kept' = kept
    BY <1>2 DEF SetStores
  <2>3. \A s \in Slots : s = idx \/ s = 1 - idx
    BY <1>0
  <2> QED
    BY <1>0, <1>1, <2>1, <2>2, <2>3
<1>3. CASE GetAccess \/ StartPlayback
  <2>1. CASE UNCHANGED <<last, kept, sets, toWorker>>
    BY <1>1, <1>3, <2>1 DEF GetAccess, StartPlayback
  <2>2. CASE /\ toWorker' = Buffer(last') /\ last' = [kept EXCEPT !.counter = 0]
             /\ last.value = kept.value /\ sets' = sets /\ kept'.value = kept.value
    <3>1. last'.value = last.value
      BY <1>0, <2>2 DEF Settings
    <3>2. toWorker'.last \in Slots /\ toWorker'.data = [s \in Slots |-> last']
      BY <2>2, NewData
    <3> QED
      BY <1>0, <1>1, <2>2, <3>1, <3>2
  <2>3. (last.value = kept.value /\ kept'.value = kept.value) \/ ~GetAccess
    <3>1. CASE GetAccess
      <4>1. kept = Default /\ last = Default /\ kept' = [kept EXCEPT !.counter = 0]
        BY <1>1, <3>1 DEF GetAccess, UnusedInv
      <4> QED
        BY <4>1 DEF Default
    <3> QED
      BY <3>1
  <2>4. CASE GetAccess
    BY <1>1, <2>2, <2>3, <2>4 DEF GetAccess
  <2>5. CASE StartPlayback
    BY <2>1, <2>2, <2>5 DEF StartPlayback, EnsureInstance
  <2> QED
    BY <1>3, <2>4, <2>5
<1>4. CASE RestoreWith \/ \E next \in {"idle", "flush"} : Set(next)
  <2>1. last'.value = sets + 1 /\ sets' = sets + 1 /\ kept' = kept /\ toWorker' = toWorker
        /\ main' = "setClaim"
    BY <1>4 DEF RestoreWith, Set
  <2> QED
    BY <1>0, <1>1, <2>1
<1>5. CASE FlushAtOnce \/ FlushHeard
  <2>1. kept' = last /\ UNCHANGED <<last, sets, toWorker>> /\ main = "flush"
    BY <1>5 DEF FlushAtOnce, FlushHeard, Flushed
  <2> QED
    BY <1>0, <1>1, <2>1
<1>6. CASE Finalize
  <2>1. kept' = worker /\ UNCHANGED <<last, sets, toWorker>> /\ main = "finalize"
    BY <1>6 DEF Finalize
  <2> QED
    BY <1>0, <1>1, <2>1 DEF ReadInv
<1>7. CASE ~(SetStores \/ GetAccess \/ StartPlayback \/ RestoreWith \/ FlushAtOnce \/ FlushHeard
             \/ Finalize \/ \E next \in {"idle", "flush"} : Set(next))
  <2>1. /\ UNCHANGED <<last, sets, kept>>
        /\ main' \notin {"setClaim", "setStore"} => main \notin {"setClaim", "setStore"}
    BY <1>7 DEF Next, AudioThread, MainSteps, User, PassBegins, WorkerClaims,
                Process,
       WorkerReads, WorkerLocks, WorkerReplies, WorkerNotifies, PassEnds, SetClaims, SetReleases,
       GetReturns, FlushWaits, FlushWakes, Primed, Stops, Drained,
       AddState, RemoveState, RestoreWithout, Get, Flush, StopPlayback, vars
  <2>2. toWorker'.data = toWorker.data /\ toWorker'.last = toWorker.last
    BY <1>7, WhoStores
  <2> QED
    BY <1>1, <2>1, <2>2
<1> QED
  BY <1>2, <1>3, <1>4, <1>5, <1>6, <1>7

LEMMA StepKeepsRead ==
    ASSUME Inv, ValueInv, [Next]_vars
    PROVE  ReadInv'
<1>0. TypeOK /\ TypeOK' /\ SlotInv /\ AccessInv /\ PassInv
  BY StepKeepsTypes DEF Inv
<1>1. GivenInv /\ UnusedInv /\ ReadInv
  BY DEF ValueInv
<1>v. /\ sets \in Nat /\ last.value \in Nat /\ kept.value \in Nat /\ worker.value \in Nat
      /\ Newest.value \in Nat /\ \A s \in Slots : toWorker.data[s].value \in Nat
      /\ Newest.value <= sets /\ last.value = sets /\ kept.value <= sets
      /\ worker.value <= Newest.value
      /\ \A s \in Slots : toWorker.data[s].value <= Newest.value
      /\ idx \in Slots /\ slot \in Slots /\ toWorker.last \in Slots
      /\ \A s \in Slots : 1 - s \in Slots /\ 1 - (1 - s) = s
      /\ \A s, t \in Slots : s # t => t = 1 - s
  BY <1>0, <1>1, ValueTypes DEF GivenInv, ReadInv
<1> USE DEF mainVars, audioVars, settings, ReadInv
<1>2. CASE WorkerReads
  <2>1. worker' = worker \/ worker' = toWorker.data[slot]
    BY <1>2 DEF WorkerReads
  <2>2. toWorker'.data = toWorker.data /\ toWorker'.last = toWorker.last
    BY <1>2, WhoStores DEF WorkerReads, SetStores, GetAccess, StartPlayback
  <2>3. main' = main /\ idx' = idx /\ audio' = "process" /\ audio = "read"
    BY <1>2 DEF WorkerReads
  <2>4. main \in {"setStore", "setRelease"} => 1 - idx = slot
    BY <1>0, <1>v, <2>3 DEF SlotInv, SlotsNotShared
  <2> QED
    BY <1>1, <1>v, <2>1, <2>2, <2>3, <2>4 DEF Newest
<1>3. CASE WorkerClaims
  <2>1. toWorker'.data = toWorker.data /\ toWorker'.last = toWorker.last
    BY <1>3, WhoStores DEF WorkerClaims, SetStores, GetAccess, StartPlayback
  <2>2. main' = main /\ idx' = idx /\ worker' = worker /\ audio = "claim"
        /\ slot' = Claimed(toWorker, slot)
    BY <1>3 DEF WorkerClaims
  <2>3. worker.value <= toWorker.data[slot'].value
    <3>1. CASE toWorker.busy[slot]
      <4>1. main \in {"setStore", "setRelease"} /\ idx = slot
        BY <1>0, <1>v, <2>2, <3>1 DEF SlotInv
      <4> QED
        BY <1>1, <2>2, <3>1, <4>1 DEF Claimed
    <3>2. CASE ~toWorker.busy[slot]
      BY <1>1, <2>2, <3>2 DEF Claimed
    <3> QED
      BY <3>1, <3>2
  <2> QED
    BY <1>1, <2>1, <2>2, <2>3 DEF Newest
<1>4. CASE PassBegins
  <2>1. UNCHANGED <<main, idx, worker, toWorker>> /\ audio = "out"
    BY <1>4 DEF PassBegins
  <2>2. audio' \in {"claim", "read"} => slot' = toWorker.last
    BY <1>4 DEF PassBegins
  <2> QED
    BY <1>1, <2>1, <2>2 DEF Newest
<1>5. CASE SetClaims
  <2>1. toWorker'.data = toWorker.data /\ toWorker'.last = toWorker.last
    BY <1>5, WhoStores DEF SetClaims, SetStores, GetAccess, StartPlayback
  <2>2. /\ idx' = Claimed(toWorker, idx) /\ main = "setClaim" /\ main' = "setStore"
        /\ worker' = worker /\ audio' = audio /\ slot' = slot
    BY <1>5 DEF SetClaims
  <2>3. worker.value <= toWorker.data[1 - idx'].value
    <3>1. CASE toWorker.busy[idx]
      <4>1. audio = "read" /\ slot = idx
        BY <1>0, <1>v, <2>2, <3>1 DEF SlotInv
      <4> QED
        BY <1>1, <1>v, <2>2, <3>1, <4>1 DEF Claimed
    <3>2. CASE ~toWorker.busy[idx]
      BY <1>1, <1>v, <2>2, <3>2 DEF Claimed, Newest
    <3> QED
      BY <3>1, <3>2
  <2> QED
    BY <1>1, <2>1, <2>2, <2>3 DEF Newest
<1>6. CASE SetStores
  <2>1. /\ toWorker'.last = idx /\ toWorker'.data[idx] = last
        /\ toWorker'.data[1 - idx] = toWorker.data[1 - idx]
    BY <1>0, <1>6, DataStored DEF SetStores, TypeOK
  <2>2. /\ UNCHANGED <<worker, audio, slot, idx>>
        /\ main = "setStore" /\ main' = "setRelease"
    BY <1>6 DEF SetStores
  <2>3. slot = idx \/ slot = 1 - idx
    BY <1>v
  <2> QED
    BY <1>1, <1>v, <2>1, <2>2, <2>3 DEF Newest
<1>7. CASE RestoreWith \/ \E next \in {"idle", "flush"} : Set(next)
  <2>1. /\ idx' = 1 - toWorker.last /\ main' = "setClaim"
        /\ UNCHANGED <<worker, audio, slot, toWorker>>
    BY <1>7 DEF RestoreWith, Set
  <2> QED
    BY <1>1, <2>1 DEF Newest
<1>8. CASE GetAccess
  <2>1. /\ sets = 0 /\ kept = Default /\ worker = Default
    BY <1>1, <1>8 DEF GetAccess, UnusedInv
  <2>2. /\ UNCHANGED <<worker, audio, slot>> /\ main' = "idle"
        /\ last' = [Default EXCEPT !.counter = 0]
        /\ toWorker' = Buffer(last')
    BY <1>8, <2>1 DEF GetAccess
  <2>3. last'.value = 0 /\ worker'.value = 0
    BY <2>1, <2>2 DEF Default
  <2>4. toWorker'.data[toWorker'.last] = last' /\ toWorker'.data[slot'] = last'
    <3>1. slot' \in Slots
      BY <1>0 DEF TypeOK
    <3> QED
      BY <2>2, <3>1, NewData
  <2>5. Newest'.value = 0 /\ toWorker'.data[slot'].value = 0
    BY <2>3, <2>4 DEF Newest
  <2>6. main' = "idle"
    BY <2>2
  <2> QED
    BY <2>3, <2>5, <2>6
<1>9. CASE StartPlayback \/ AddState
  <2>1. main = "idle"
    BY <1>9 DEF StartPlayback, AddState
  <2>2. \/ Newest' = Newest
        \/ Newest' = last' /\ last'.value = last.value
    <3>1. CASE UNCHANGED toWorker
      BY <3>1 DEF Newest
    <3>2. CASE /\ toWorker' = Buffer(last') /\ last' = [kept EXCEPT !.counter = 0]
               /\ last.value = kept.value
      <4>1. last'.value = last.value
        BY <1>0, <3>2, ValueTypes DEF Settings
      <4> QED
        BY <3>2, <4>1, NewData DEF Newest
    <3> QED
      BY <1>9, <3>1, <3>2 DEF StartPlayback, AddState, EnsureInstance
  <2>3. main' \notin {"setClaim", "setStore", "setRelease"}
    BY <1>9 DEF StartPlayback, AddState
  <2>4. (worker' = kept \/ worker' = worker)
    BY <1>9 DEF StartPlayback, AddState, EnsureInstance
  <2>5. Newest = last
    BY <1>1, <2>1 DEF GivenInv
  <2>6. audio' \notin {"claim", "read"}
    BY <1>0, <1>1, <1>9 DEF StartPlayback, AddState, UnusedInv, AccessInv,
                            PassInv
  <2> QED
    BY <1>1, <1>v, <2>2, <2>3, <2>4, <2>5, <2>6
<1>10. CASE ~(WorkerReads \/ WorkerClaims \/ PassBegins \/ SetClaims \/ SetStores \/ RestoreWith
              \/ GetAccess \/ StartPlayback \/ AddState
              \/ \E next \in {"idle", "flush"} : Set(next))
  <2>1. /\ worker' = worker
        /\ main' = "setClaim" => main = "setClaim" /\ idx' = idx
        /\ main' \in {"setStore", "setRelease"} => main \in {"setStore", "setRelease"} /\ idx' = idx
        /\ audio' \in {"claim", "read"} => audio = audio' /\ slot' = slot
    BY <1>10 DEF Next, AudioThread, MainSteps, User, Process,
       WorkerLocks, WorkerReplies, WorkerNotifies, PassEnds, SetReleases,
       GetReturns, FlushAtOnce, FlushHeard, Flushed, FlushWaits, FlushWakes, Primed, Stops, Drained,
       Finalize, RemoveState, RestoreWithout, Get, Flush, StopPlayback, vars
  <2>2. toWorker'.data = toWorker.data /\ toWorker'.last = toWorker.last
    BY <1>10, WhoStores
  <2> QED
    BY <1>1, <2>1, <2>2 DEF Newest
<1> QED
  BY <1>2, <1>3, <1>4, <1>5, <1>6, <1>7, <1>8, <1>9, <1>10

LEMMA StepKeepsKept ==
    ASSUME Inv, ValueInv, [Next]_vars
    PROVE  KeptInv'
<1>0. TypeOK /\ AccessInv /\ PassInv /\ KeptInv /\ UnusedInv
  BY DEF Inv, ValueInv
<1>v. /\ kept.value \in Nat /\ worker.value \in Nat /\ last.value \in Nat
      /\ worker.value <= last.value /\ sets \in Nat
  BY <1>0, ValueTypes DEF ValueInv, GivenInv, ReadInv
<1>1. main' = "prime" => playing'
  BY <1>0 DEF Next, AudioThread, MainSteps, User, PassBegins, WorkerClaims,
              WorkerReads, Process,
     WorkerLocks, WorkerReplies, WorkerNotifies, PassEnds, SetClaims, SetStores, SetReleases,
     GetReturns, FlushAtOnce, FlushHeard, Flushed, FlushWaits, FlushWakes, Primed, Stops, Drained,
     Finalize, AddState, RemoveState, RestoreWithout, RestoreWith, GetAccess, Set, Get, Flush,
     StartPlayback, StopPlayback, vars, mainVars, KeptInv
<1>2. ASSUME listed', ~initialized', ~playing', main' \notin {"stopping", "drain", "finalize"}
      PROVE  worker'.value <= kept'.value
  <2>1. CASE FlushAtOnce \/ FlushHeard
    <3>1. kept' = last /\ worker' = worker
      BY <2>1 DEF FlushAtOnce, FlushHeard, Flushed
    <3> QED
      BY <1>v, <3>1
  <2>2. CASE Finalize
    BY <1>v, <2>2 DEF Finalize
  <2>3. CASE AddState
    <3>1. kept = Default /\ worker = Default
      BY <1>0, <2>3 DEF AddState, UnusedInv
    <3>2. kept' = Default /\ worker' = Default
      BY <2>3, <3>1 DEF AddState, EnsureInstance, settings
    <3> QED
      BY <3>2 DEF Default
  <2>4. CASE WorkerReads
    <3>1. /\ UNCHANGED <<listed, initialized, playing, main, once>> /\ audio # "out"
      BY <2>4 DEF WorkerReads, listVars, mainVars
    <3> QED
      BY <1>0, <1>2, <3>1 DEF PassInv, KeptInv
  <2>5. CASE GetAccess
    <3>1. kept'.value = kept.value
      BY <1>0, <2>5, ValueTypes DEF GetAccess, Settings
    <3>2. UNCHANGED <<listed, initialized, playing, worker, main>>
      BY <2>5 DEF GetAccess, mainVars
    <3> QED
      BY <1>0, <1>2, <3>1, <3>2 DEF KeptInv
  <2>6. CASE ~(FlushAtOnce \/ FlushHeard \/ Finalize \/ AddState \/ WorkerReads \/ GetAccess)
    <3>1. /\ UNCHANGED <<kept, worker>>
          /\ listed /\ ~initialized /\ ~playing /\ main \notin {"stopping", "drain", "finalize"}
      <4> USE DEF mainVars, settings, listVars
      <4>1. CASE AudioThread
        <5>1. UNCHANGED <<kept, worker, listed, initialized, playing, main>>
          BY <2>6, <4>1 DEF AudioThread, PassBegins, WorkerClaims,
             Process, WorkerLocks, WorkerReplies, WorkerNotifies, PassEnds
        <5> QED
          BY <1>2, <5>1
      <4>2. CASE MainSteps
        <5>1. UNCHANGED <<kept, worker, listed, initialized, playing>>
          BY <2>6, <4>2 DEF MainSteps, SetClaims, SetStores, SetReleases,
                            GetReturns,
             FlushWaits, FlushWakes, Primed, Stops, Drained
        <5>2. main' \notin {"stopping", "drain", "finalize"} /\ listed
                => main \notin {"stopping", "drain", "finalize"}
          BY <2>6, <4>2 DEF MainSteps, SetClaims, SetStores, SetReleases,
                            GetReturns,
             FlushWaits, FlushWakes, Primed, Stops, Drained
        <5> QED
          BY <1>2, <5>1, <5>2
      <4>3. CASE User
        <5>1. main = "idle"
          BY <4>3 DEF User, AddState, RemoveState, RestoreWithout,
                      RestoreWith, Set, Get, Flush,
             StartPlayback, StopPlayback, GetAccess
        <5>2. UNCHANGED <<kept, worker, listed, initialized, playing>>
          BY <1>2, <2>6, <4>3 DEF User, RemoveState, RestoreWithout,
                                  RestoreWith, Set, Get, Flush,
             StartPlayback, StopPlayback
        <5> QED
          BY <1>2, <5>1, <5>2
      <4>4. CASE UNCHANGED vars
        BY <1>2, <4>4 DEF vars
      <4> QED
        BY <4>1, <4>2, <4>3, <4>4 DEF Next
    <3> QED
      BY <1>0, <3>1 DEF KeptInv
  <2> QED
    BY <2>1, <2>2, <2>3, <2>4, <2>5, <2>6
<1> QED
  BY <1>1, <1>2 DEF KeptInv

(* The settings the audio thread reads are not older than those it has,    *)
(* nor are the kept ones it starts with.                                   *)
LEMMA StepGoesForward ==
    ASSUME Inv, ValueInv, [Next]_vars
    PROVE  worker'.value >= worker.value
<1>0. TypeOK /\ AccessInv /\ PassInv /\ KeptInv /\ UnusedInv /\ ReadInv
  BY DEF Inv, ValueInv
<1>v. /\ kept.value \in Nat /\ worker.value \in Nat /\ toWorker.data[slot].value \in Nat
  BY <1>0, ValueTypes
<1>1. CASE WorkerReads
  <2>1. worker' = worker \/ worker' = toWorker.data[slot]
    BY <1>1 DEF WorkerReads
  <2>2. worker.value <= toWorker.data[slot].value
    BY <1>0, <1>1 DEF WorkerReads, ReadInv
  <2> QED
    BY <1>v, <2>1, <2>2
<1>2. CASE AddState
  <2>1. worker = Default /\ kept = Default
    BY <1>0, <1>2 DEF AddState, UnusedInv
  <2>2. worker' = worker
    BY <1>2, <2>1 DEF AddState, EnsureInstance
  <2> QED
    BY <1>v, <2>2
<1>3. CASE StartPlayback
  <2>1. \/ worker' = worker
        \/ worker' = kept /\ listed /\ ~initialized /\ ~playing /\ main = "idle"
    BY <1>3 DEF StartPlayback, EnsureInstance
  <2> QED
    BY <1>0, <1>v, <2>1 DEF KeptInv
<1>4. CASE ~(WorkerReads \/ AddState \/ StartPlayback)
  <2>1. worker' = worker
    BY <1>4 DEF Next, AudioThread, MainSteps, User, PassBegins, WorkerClaims,
         Process, WorkerLocks, WorkerReplies, WorkerNotifies, PassEnds, SetClaims, SetStores,
         SetReleases, GetReturns, FlushAtOnce, FlushHeard, FlushWaits, FlushWakes, Primed, Stops,
         Drained, Finalize, RemoveState, RestoreWithout, RestoreWith, GetAccess, Set, Get, Flush,
         StopPlayback, vars
  <2> QED
    BY <1>v, <2>1
<1> QED
  BY <1>1, <1>2, <1>3, <1>4

LEMMA InitValueInv == Init => ValueInv
<1> SUFFICES ASSUME Init
             PROVE  ValueInv
  OBVIOUS
<1>1. /\ sets = 0 /\ kept = Default /\ last = Default /\ worker = Default
      /\ main = "idle" /\ audio = "out" /\ ~listed /\ ~access /\ toWorker = Buffer(Default)
  BY DEF Init
<1>2. /\ toWorker.data = [s \in Slots |-> Default] /\ Newest = Default
      /\ \A s \in Slots : toWorker.data[s] = Default
  BY <1>1, NewData DEF Newest
<1>3. Default.value = 0
  BY DEF Default
<1> QED
  BY <1>1, <1>2, <1>3 DEF ValueInv, UnusedInv, GivenInv, ReadInv, KeptInv

LEMMA StepKeepsValues == Inv /\ ValueInv /\ [Next]_vars => (Inv /\ ValueInv)'
<1>1. ASSUME Inv, ValueInv, [Next]_vars
      PROVE  ValueInv'
  BY <1>1, StepKeepsUnused, StepKeepsGiven, StepKeepsRead,
     StepKeepsKept DEF ValueInv
<1> QED
  BY <1>1, StepKeepsInv

LEMMA ValueInvHolds == Spec => [](Inv /\ ValueInv)
BY InitHolds, InitValueInv, StepKeepsValues, PTL DEF Spec

(* Whatever slot the audio thread finds busy and whenever the effect is    *)
(* removed or restored, the settings it uses are never replaced by older   *)
(* ones.                                                                   *)
THEOREM SettingsGoForward == Spec => SettingsNeverGoBack
<1>1. Inv /\ ValueInv /\ [Next]_vars => [worker'.value >= worker.value]_vars
  BY StepGoesForward
<1> QED
  BY <1>1, ValueInvHolds, PTL DEF Spec, SettingsNeverGoBack

-----------------------------------------------------------------------------
(* The counters                                                            *)

Counters == 0..CounterSize - 1

(* How far the second counter is ahead of the first, round the circle.     *)
Distance(c, d) == IF c <= d THEN d - c ELSE d - c + CounterSize

(* The counters of two settings are as far apart as their values.          *)
InStep(s, t) == Distance(s.counter, t.counter) = t.value - s.value

Successor(s) == [value |-> s.value + 1, counter |-> (s.counter + 1) % CounterSize]

LEMMA CounterTypes ==
    ASSUME NEW s \in Settings
    PROVE  s.value \in Nat /\ s.counter \in Counters
BY DEF Settings, Counters

LEMMA DistanceType ==
    ASSUME NEW c \in Counters, NEW d \in Counters
    PROVE  /\ Distance(c, d) \in Counters
           /\ Distance(c, d) = 0 <=> c = d
BY DEF Distance, Counters

(* One more on the second counter is one more between the two.             *)
LEMMA DistanceGrows ==
    ASSUME NEW c \in Counters, NEW d \in Counters, Distance(c, d) + 1 < CounterSize
    PROVE  Distance(c, (d + 1) % CounterSize) = Distance(c, d) + 1
<1>1. CASE d + 1 < CounterSize
  <2>1. (d + 1) % CounterSize = d + 1
    BY <1>1 DEF Counters
  <2> QED
    BY <1>1, <2>1 DEF Distance, Counters
<1>2. CASE d + 1 = CounterSize
  <2>1. (d + 1) % CounterSize = 0
    BY <1>2 DEF Counters
  <2> QED
    BY <1>2, <2>1 DEF Distance, Counters
<1> QED
  BY <1>1, <1>2 DEF Counters

LEMMA SuccessorInStep ==
    ASSUME NEW s \in Settings, NEW t \in Settings, InStep(s, t),
           t.value + 1 - s.value < CounterSize
    PROVE  InStep(s, Successor(t))
BY CounterTypes, DistanceGrows DEF InStep, Successor

LEMMA SameInStep ==
    ASSUME NEW s \in Settings
    PROVE  InStep(s, s)
BY DEF InStep, Settings, Distance

(* Settings in step with the same counter are the same.                    *)
LEMMA SameCounter ==
    ASSUME NEW s \in Settings, NEW t \in Settings, InStep(s, t), s.counter = t.counter
    PROVE  s.value = t.value
BY DEF InStep, Settings, Distance

LEMMA SameValue ==
    ASSUME NEW s \in Settings, NEW t \in Settings, InStep(s, t), s.value = t.value
    PROVE  s = t
BY DEF InStep, Settings, Distance

-----------------------------------------------------------------------------
(* The settings are heard                                                  *)

NoRestoreWhilePlaying == "restoreWhilePlaying" \notin Faults

(* An instance lives while the effect is in the list of a playback, up to  *)
(* its Finalize.                                                           *)
LifeInv ==
    /\ then = "relist" => /\ ~playing
                          /\ main \in {"setClaim", "setStore", "setRelease", "flush", "wait"}
    /\ initialized <=> \/ listed /\ (playing \/ main \in {"stopping", "drain"})
                       \/ main = "finalize"
    /\ main = "finalize" => ~listed \/ ~playing

LEMMA StepKeepsLife ==
    ASSUME NoRestoreWhilePlaying, TypeOK, PassInv, KeptInv, LifeInv, [Next]_vars
    PROVE  LifeInv'
<1> USE DEF mainVars, listVars, LifeInv, NoRestoreWhilePlaying
<1>1. CASE AudioThread
  <2>1. UNCHANGED <<then, playing, main, initialized, listed>>
    BY <1>1 DEF AudioThread, PassBegins, WorkerClaims, WorkerReads, Process,
                WorkerLocks,
       WorkerReplies, WorkerNotifies, PassEnds
  <2> QED
    BY <2>1
<1>2. CASE MainSteps
  <2>1. CASE SetClaims \/ SetStores \/ SetReleases \/ GetReturns \/ FlushWaits \/ FlushWakes
             \/ Primed \/ Stops
    BY <2>1 DEF SetClaims, SetStores, SetReleases, GetReturns, FlushWaits,
                FlushWakes, Primed,
       Stops, TypeOK, KeptInv
  <2>2. CASE FlushAtOnce \/ FlushHeard
    BY <2>2 DEF FlushAtOnce, FlushHeard, Flushed, TypeOK
  <2>3. CASE Drained
    BY <2>3 DEF Drained, TypeOK, PassInv
  <2>4. CASE Finalize
    BY <2>4 DEF Finalize, TypeOK
  <2> QED
    BY <1>2, <2>1, <2>2, <2>3, <2>4 DEF MainSteps
<1>3. CASE User
  <2>1. CASE AddState
    BY <2>1 DEF AddState, EnsureInstance, TypeOK
  <2>2. CASE RemoveState
    BY <2>2 DEF RemoveState, TypeOK
  <2>3. CASE RestoreWithout
    BY <2>3 DEF RestoreWithout, TypeOK
  <2>4. CASE RestoreWith \/ GetAccess \/ (\E next \in {"idle", "flush"} : Set(next)) \/ Get \/ Flush
    BY <2>4 DEF RestoreWith, GetAccess, Set, Get, Flush, TypeOK
  <2>5. CASE StartPlayback
    BY <2>5 DEF StartPlayback, EnsureInstance, TypeOK
  <2>6. CASE StopPlayback
    BY <2>6 DEF StopPlayback, TypeOK
  <2> QED
    BY <1>3, <2>1, <2>2, <2>3, <2>4, <2>5, <2>6 DEF User
<1>4. CASE UNCHANGED vars
  BY <1>4 DEF vars
<1> QED
  BY <1>1, <1>2, <1>3, <1>4 DEF Next

(* What an instance uses, or will start with.                              *)
Current == IF initialized THEN worker ELSE kept

(* Playback has just started with channels made anew: all they hold is in  *)
(* use already, but with a counter that started again.                     *)
Fresh ==
    /\ main = "prime" /\ once /\ listed /\ access
    /\ audio \in {"out", "claim", "read"}
    /\ worker.value = last.value
    /\ \A s \in Slots : toWorker.data[s] = last

(* The settings in use and those the audio thread can still read are less  *)
(* than half a round behind the last ones, and their counters tell.        *)
StepInv ==
    /\ 2 * (last.value - Current.value) < CounterSize
    /\ InStep(Current, last) \/ Fresh
    /\ \A s \in Slots : toWorker.data[s].value >= Current.value
                            => InStep(toWorker.data[s], last)

LEMMA StepTypes ==
    ASSUME TypeOK
    PROVE  /\ last \in Settings /\ kept \in Settings /\ worker \in Settings /\ Current \in Settings
           /\ last.value \in Nat /\ kept.value \in Nat /\ worker.value \in Nat
           /\ Current.value \in Nat
           /\ \A s \in Slots : toWorker.data[s] \in Settings /\ toWorker.data[s].value \in Nat
BY ValueTypes DEF Current

LEMMA StepKeepsStep ==
    ASSUME NoRestoreWhilePlaying, Inv, ValueInv, LifeInv, StepInv, [Next]_vars
    PROVE  StepInv'
<1>0. /\ TypeOK /\ TypeOK' /\ PassInv /\ LifeInv /\ LifeInv' /\ KeptInv
      /\ UnusedInv /\ GivenInv /\ ReadInv
  BY StepKeepsTypes, StepKeepsLife DEF Inv, ValueInv
<1>t. /\ last \in Settings /\ kept \in Settings /\ worker \in Settings /\ Current \in Settings
      /\ last.value \in Nat /\ kept.value \in Nat /\ worker.value \in Nat /\ Current.value \in Nat
      /\ \A s \in Slots : toWorker.data[s] \in Settings /\ toWorker.data[s].value \in Nat
      /\ \A s \in Slots : toWorker.data[s].value <= last.value
      /\ slot \in Slots
      /\ last' \in Settings /\ kept' \in Settings /\ worker' \in Settings
  <2>1. Newest.value \in Nat
    BY <1>0, ValueTypes
  <2>2. \A s \in Slots : toWorker.data[s].value <= last.value
    BY <1>0, <2>1, StepTypes DEF GivenInv
  <2> QED
    BY <1>0, <2>2, StepTypes DEF TypeOK
<1>m. MaxSets \in Nat /\ CounterSize \in Nat \ {0, 1, 2}
  OBVIOUS
<1> USE DEF StepInv
<1>1. CASE RestoreWith \/ \E next \in {"idle", "flush"} : Set(next)
  <2>1. /\ main = "idle" /\ CounterDistinguishes
        /\ last' = [value |-> sets + 1, counter |-> (last.counter + 1) % CounterSize]
        /\ UNCHANGED <<initialized, kept, worker, toWorker>>
    BY <1>1 DEF RestoreWith, Set, listVars
  <2>2. last' = Successor(last)
    BY <1>0, <2>1 DEF GivenInv, Successor
  <2>3. Current' = Current
    BY <2>1 DEF Current
  <2>4. 2 * (1 + last.value - Current.value) < CounterSize
    BY <2>1 DEF CounterDistinguishes, Current
  <2>5. last'.value = last.value + 1
    BY <2>2 DEF Successor
  <2>6. \A s \in Settings : InStep(s, last) /\ s.value >= Current.value => InStep(s, last')
    <3> TAKE s \in Settings
    <3> HAVE InStep(s, last) /\ s.value >= Current.value
    <3>1. s.value \in Nat
      BY CounterTypes
    <3>2. last.value + 1 - s.value < CounterSize
      BY <1>t, <1>m, <2>4, <3>1
    <3> QED
      BY <1>t, <2>2, <3>2, SuccessorInStep
  <2>7. InStep(Current, last)
    BY <2>1 DEF Fresh
  <2>8. InStep(Current, last')
    BY <1>t, <2>6, <2>7
  <2>9. \A s \in Slots : toWorker.data[s].value >= Current.value
                             => InStep(toWorker.data[s], last')
    BY <1>t, <2>6
  <2>10. 2 * (last'.value - Current.value) < CounterSize
    BY <1>t, <2>4, <2>5
  <2> QED
    BY <2>1, <2>3, <2>8, <2>9, <2>10
<1>2. CASE WorkerReads
  <2>1. /\ worker' = IF toWorker.data[slot].counter = worker.counter
                     THEN worker ELSE toWorker.data[slot]
        /\ audio = "read" /\ UNCHANGED <<initialized, kept, last, main, once, listed, access>>
    BY <1>2 DEF WorkerReads, listVars, settings, mainVars
  <2>2. toWorker'.data = toWorker.data
    BY <1>2, WhoStores DEF WorkerReads, SetStores, GetAccess, StartPlayback,
                           audioVars
  <2>3. CASE ~initialized
    <3>1. Current' = Current /\ Current = kept
      BY <2>1, <2>3 DEF Current
    <3>2. ~Fresh
      BY <1>0, <2>3 DEF Fresh, LifeInv, KeptInv
    <3> QED
      BY <2>1, <2>2, <3>1, <3>2
  <2>4. CASE initialized
    <3>1. Current = worker /\ Current' = worker'
      BY <2>1, <2>4 DEF Current
    <3>2. worker.value <= toWorker.data[slot].value
      BY <1>0, <2>1 DEF ReadInv
    <3>3. InStep(worker', last)
      <4>1. CASE Fresh
        <5>1. toWorker.data[slot] = last /\ worker.value = last.value
          BY <1>t, <4>1 DEF Fresh
        <5>2. worker' = last \/ (worker' = worker /\ worker.counter = last.counter)
          BY <2>1, <5>1
        <5>3. worker' = last
          BY <1>t, <5>1, <5>2 DEF Settings
        <5> QED
          BY <1>t, <5>3, SameInStep
      <4>2. CASE InStep(Current, last)
        BY <1>t, <2>1, <3>1, <3>2, <4>2
      <4> QED
        BY <4>1, <4>2
    <3>4. worker.value <= worker'.value /\ worker'.value <= last.value /\ worker'.value \in Nat
      BY <1>t, <2>1, <3>2
    <3>5. 2 * (last.value - worker'.value) < CounterSize
      BY <1>t, <1>m, <3>1, <3>4
    <3>6. \A s \in Slots : toWorker.data[s].value >= worker'.value
                               => InStep(toWorker.data[s], last)
      BY <1>t, <3>1, <3>4
    <3> QED
      BY <2>1, <2>2, <3>1, <3>3, <3>5, <3>6
  <2> QED
    BY <2>3, <2>4
<1>3. CASE SetStores
  <2>1. /\ toWorker'.data[idx] = last
        /\ toWorker'.data[1 - idx] = toWorker.data[1 - idx]
    BY <1>0, <1>3, DataStored DEF SetStores, TypeOK
  <2>2. UNCHANGED <<initialized, kept, last, worker>> /\ main = "setStore"
    BY <1>3 DEF SetStores, listVars, settings
  <2>3. Current' = Current /\ ~Fresh
    BY <2>2 DEF Current, Fresh
  <2>4. \A s \in Slots : s = idx \/ s = 1 - idx
    BY <1>0, ValueTypes
  <2>5. InStep(last, last)
    BY <1>t, SameInStep
  <2>6. \A s \in Slots : toWorker'.data[s].value >= Current.value
                             => InStep(toWorker'.data[s], last)
    BY <2>1, <2>4, <2>5
  <2> QED
    BY <2>2, <2>3, <2>6
<1>4. CASE GetAccess
  <2>1. /\ kept = Default /\ last = Default /\ worker = Default
        /\ kept' = [kept EXCEPT !.counter = 0] /\ last' = kept' /\ worker' = worker
        /\ toWorker' = Buffer(last')
    BY <1>0, <1>4 DEF GetAccess, UnusedInv
  <2>2. kept' = Default /\ last' = Default /\ worker' = Default
    BY <2>1 DEF Default
  <2>3. Current' = Default
    BY <2>2 DEF Current
  <2>4. \A s \in Slots : toWorker'.data[s] = Default
    BY <2>1, <2>2, NewData
  <2>5. InStep(Default, Default)
    BY <1>t, <2>1, SameInStep
  <2>6. 2 * (Default.value - Default.value) < CounterSize
    BY <1>m DEF Default
  <2> QED
    BY <2>2, <2>3, <2>4, <2>5, <2>6
<1>5. CASE StartPlayback
  <2>1. /\ main = "idle" /\ ~playing /\ main' = "prime" /\ once' = TRUE
        /\ UNCHANGED <<audio, listed, access, kept>>
    BY <1>5 DEF StartPlayback, audioVars
  <2>2. ~initialized /\ audio = "out"
    BY <1>0, <2>1 DEF LifeInv, PassInv
  <2>3. InStep(Current, last) /\ Current = kept /\ Current' = kept
    BY <1>5, <2>1, <2>2 DEF Current, Fresh, StartPlayback, EnsureInstance
  <2>4. CASE UNCHANGED <<last, toWorker>>
    BY <2>3, <2>4
  <2>5. CASE /\ listed /\ access /\ worker' = kept
             /\ last.value = kept.value
             /\ last' = [kept EXCEPT !.counter = 0]
             /\ toWorker' = Buffer(last')
    <3>1. last'.value = kept.value
      BY <1>t, <2>5 DEF Settings
    <3>2. \A s \in Slots : toWorker'.data[s] = last'
      BY <2>5, NewData
    <3>3. Fresh'
      BY <2>1, <2>2, <2>5, <3>1, <3>2 DEF Fresh
    <3>4. InStep(last', last')
      BY <1>t, SameInStep
    <3>5. 2 * (last'.value - Current'.value) < CounterSize
      BY <1>t, <1>m, <2>3, <3>1
    <3> QED
      BY <3>2, <3>3, <3>4, <3>5
  <2> QED
    BY <1>5, <2>4, <2>5 DEF StartPlayback, EnsureInstance
<1>6. CASE AddState
  <2>1. /\ kept = Default /\ worker = Default
    BY <1>0, <1>6 DEF AddState, UnusedInv
  <2>2. /\ main = "idle" /\ UNCHANGED <<main, kept, last, toWorker>>
        /\ worker' = worker
    BY <1>6, <2>1 DEF AddState, EnsureInstance, mainVars, settings
  <2>3. Current' = Current /\ ~Fresh
    BY <2>1, <2>2 DEF Current, Fresh
  <2> QED
    BY <2>2, <2>3
<1>7. CASE FlushAtOnce
  <2>1. /\ ~initialized /\ main = "flush" /\ kept' = last
        /\ UNCHANGED <<initialized, last, toWorker>>
    BY <1>7 DEF FlushAtOnce, Flushed
  <2>2. Current = kept /\ Current' = last
    BY <2>1 DEF Current
  <2>3. kept.value <= last.value
    BY <1>0 DEF GivenInv
  <2>4. InStep(last, last)
    BY <1>t, SameInStep
  <2>5. \A s \in Slots : toWorker.data[s].value >= last.value
                             => InStep(toWorker.data[s], last)
    BY <1>t, <2>2, <2>3
  <2>6. 2 * (last.value - last.value) < CounterSize
    BY <1>t, <1>m
  <2> QED
    BY <2>1, <2>2, <2>4, <2>5, <2>6
<1>8. CASE FlushHeard
  <2>1. initialized /\ main = "flush" /\ UNCHANGED <<initialized, worker, last, toWorker>>
    BY <1>8 DEF FlushHeard, Flushed
  <2>2. Current' = Current /\ ~Fresh
    BY <2>1 DEF Current, Fresh
  <2> QED
    BY <2>1, <2>2
<1>9. CASE Finalize
  <2>1. main = "finalize" /\ kept' = worker /\ ~initialized' /\ UNCHANGED <<worker, last, toWorker>>
    BY <1>9 DEF Finalize
  <2>2. Current = worker /\ Current' = worker /\ ~Fresh
    BY <1>0, <2>1 DEF Current, Fresh, LifeInv
  <2> QED
    BY <2>1, <2>2
<1>10. CASE ~(WorkerReads \/ SetStores \/ RestoreWith \/ GetAccess \/ StartPlayback \/ AddState
              \/ FlushAtOnce \/ FlushHeard \/ Finalize
              \/ \E next \in {"idle", "flush"} : Set(next))
  <2>1. UNCHANGED <<initialized, kept, worker, last>>
    BY <1>10 DEF Next, AudioThread, MainSteps, User, PassBegins,
                 WorkerClaims, Process,
       WorkerLocks, WorkerReplies, WorkerNotifies, PassEnds, SetClaims, SetReleases,
       GetReturns, FlushWaits, FlushWakes, Primed, Stops, Drained,
       RemoveState, RestoreWithout, Get, Flush, StopPlayback, vars, listVars, settings
  <2>2. toWorker'.data = toWorker.data
    BY <1>10, WhoStores
  <2>3. Current' = Current
    BY <2>1 DEF Current
  <2>4. Fresh => Fresh'
    <3> SUFFICES ASSUME Fresh
                 PROVE  Fresh'
      OBVIOUS
    <3>1. main' = "prime" /\ once' /\ listed' /\ access' /\ audio' \in {"out", "claim", "read"}
      BY <1>10 DEF Fresh, Next, AudioThread, MainSteps, User, PassBegins,
                   WorkerClaims, Process,
         WorkerLocks, WorkerReplies, WorkerNotifies, PassEnds, SetClaims, SetReleases,
         GetReturns, FlushWaits, FlushWakes, Primed, Stops, Drained,
         RemoveState, RestoreWithout, Get, Flush, StopPlayback, vars, listVars, mainVars, audioVars
    <3> QED
      BY <2>1, <2>2, <3>1 DEF Fresh
  <2> QED
    BY <2>1, <2>2, <2>3, <2>4
<1> QED
  BY <1>1, <1>2, <1>3, <1>4, <1>5, <1>6, <1>7, <1>8, <1>9, <1>10

Reply == toMain.data[toMain.last]

(* How far the reply is behind the settings in use.                        *)
Lag == Distance(Reply, last.counter) - (last.value - worker.value)

(* The audio thread has answered for this instance.                        *)
Answered ==
    /\ initialized /\ access /\ main # "finalize"
    /\ ~(main = "prime" /\ once /\ audio \notin {"notify", "leave"})

(* The reply is for the settings in use or, between a reading and its      *)
(* reply, for the ones before, less than half a round older.               *)
ReplyInv ==
    Answered => /\ 0 <= Lag /\ 2 * Lag < CounterSize
                /\ audio \notin {"process", "lock", "reply"} => Lag = 0

LEMMA ReplyTypes ==
    ASSUME TypeOK
    PROVE  /\ Reply \in Counters /\ last.counter \in Counters /\ worker.counter \in Counters
           /\ last.value \in Nat /\ worker.value \in Nat
           /\ Distance(Reply, last.counter) \in Counters
           /\ Lag \in Int
<1>1. /\ Reply \in Counters /\ last.counter \in Counters /\ worker.counter \in Counters
      /\ last.value \in Nat /\ worker.value \in Nat
  BY DEF TypeOK, Buffers, Settings, Counters, Reply
<1>2. Distance(Reply, last.counter) \in Counters
  BY <1>1, DistanceType
<1>3. Lag \in Int
  BY <1>1, <1>2 DEF Lag, Counters
<1> QED
  BY <1>1, <1>2, <1>3

LEMMA StepKeepsReply ==
    ASSUME NoRestoreWhilePlaying, Inv, ValueInv, LifeInv, StepInv, ReplyInv, [Next]_vars
    PROVE  ReplyInv'
<1>0. /\ TypeOK /\ TypeOK' /\ PassInv /\ LifeInv /\ LifeInv' /\ KeptInv
      /\ UnusedInv /\ GivenInv /\ ReadInv /\ AccessInv
  BY StepKeepsTypes, StepKeepsLife DEF Inv, ValueInv
<1>t. /\ Reply \in Counters /\ last.counter \in Counters /\ worker.counter \in Counters
      /\ last.value \in Nat /\ worker.value \in Nat /\ worker.value <= last.value
      /\ Distance(Reply, last.counter) \in Nat
      /\ Lag \in Int /\ CounterSize \in Nat \ {0, 1, 2}
  <2>1. worker.value <= last.value
    BY <1>0, ValueTypes DEF GivenInv, ReadInv
  <2> QED
    BY <1>0, <2>1, ReplyTypes DEF Counters
<1> SUFFICES ASSUME Answered'
             PROVE  /\ 0 <= Lag' /\ 2 * Lag' < CounterSize
                    /\ audio' \notin {"process", "lock", "reply"} => Lag' = 0
  BY DEF ReplyInv
<1>1. CASE RestoreWith \/ \E next \in {"idle", "flush"} : Set(next)
  <2>1. /\ main = "idle" /\ CounterDistinguishes
        /\ last' = [value |-> sets + 1, counter |-> (last.counter + 1) % CounterSize]
        /\ UNCHANGED <<initialized, access, once, audio, worker, toMain>>
    BY <1>1 DEF RestoreWith, Set, listVars, audioVars
  <2>2. Answered
    BY <2>1 DEF Answered
  <2>3. 2 * (1 + last.value - worker.value) < CounterSize
    BY <2>1, <2>2 DEF CounterDistinguishes, Answered
  <2>4. Distance(Reply, last.counter) + 1 < CounterSize
    BY <1>t, <2>2, <2>3 DEF ReplyInv, Lag
  <2>5. Distance(Reply, last'.counter) = Distance(Reply, last.counter) + 1
    BY <1>t, <2>1, <2>4, DistanceGrows
  <2>6. last'.value = last.value + 1
    BY <1>0, <2>1 DEF GivenInv
  <2>7. Reply' = Reply
    BY <2>1 DEF Reply
  <2>8. Lag' = Lag
    BY <1>t, <2>1, <2>5, <2>6, <2>7 DEF Lag
  <2> QED
    BY <2>1, <2>2, <2>8 DEF ReplyInv
<1>2. CASE WorkerReads
  <2>1. /\ worker' = worker \/ worker' = toWorker.data[slot]
        /\ audio = "read" /\ audio' = "process"
        /\ UNCHANGED <<initialized, access, last, main, once, toMain>>
    BY <1>2 DEF WorkerReads, listVars, settings, mainVars
  <2>2. Answered
    BY <2>1 DEF Answered
  <2>3. Lag = 0
    BY <2>1, <2>2 DEF ReplyInv
  <2>4. 2 * (last.value - worker.value) < CounterSize
    BY <2>2 DEF Answered, StepInv, Current
  <2>5. worker'.value \in Nat /\ worker.value <= worker'.value /\ worker'.value <= last.value
    <3>1. worker.value <= toWorker.data[slot].value
      BY <1>0, <2>1 DEF ReadInv
    <3>2. toWorker.data[slot].value <= last.value /\ toWorker.data[slot].value \in Nat
      BY <1>0, ValueTypes DEF GivenInv
    <3> QED
      BY <1>t, <2>1, <3>1, <3>2
  <2>6. Reply' = Reply
    BY <2>1 DEF Reply
  <2>7. Lag' = Distance(Reply, last.counter) - (last.value - worker'.value)
    BY <2>1, <2>6 DEF Lag
  <2>8. 0 <= Lag' /\ 2 * Lag' < CounterSize
    BY <1>t, <2>3, <2>4, <2>5, <2>7 DEF Lag
  <2> QED
    BY <2>1, <2>8
<1>3. CASE WorkerReplies
  <2>1. /\ audio = "reply" /\ audio' = "notify"
        /\ toMain' = Release(Store(toMain, slot, worker.counter), slot)
        /\ UNCHANGED <<initialized, worker, last>>
    BY <1>3 DEF WorkerReplies, listVars, settings
  <2>2. Reply' = worker.counter
    <3>1. toMain \in Buffers(Counters) /\ slot \in Slots
      BY <1>0 DEF TypeOK, Counters
    <3>2. Store(toMain, slot, worker.counter) \in Buffers(Counters)
      BY <1>t, <3>1, BufferTypes
    <3>3. /\ toMain'.data = Store(toMain, slot, worker.counter).data
          /\ toMain'.last = Store(toMain, slot, worker.counter).last
      BY <2>1, <3>1, <3>2, DataKept
    <3> QED
      BY <1>t, <3>1, <3>3, DataStored DEF Reply
  <2>3. InStep(worker, last)
    BY <2>1 DEF Answered, StepInv, Current, Fresh
  <2>4. Lag' = 0
    BY <1>t, <2>1, <2>2, <2>3 DEF Lag, InStep
  <2> QED
    BY <1>t, <2>4
<1>4. CASE GetAccess
  <2>1. /\ kept = Default /\ worker = Default
        /\ kept' = [kept EXCEPT !.counter = 0] /\ last' = kept' /\ worker' = worker
        /\ toMain' = Buffer(0)
    BY <1>0, <1>4 DEF GetAccess, UnusedInv
  <2>2. Reply' = 0
    BY <2>1, NewData DEF Reply
  <2>3. last' = [value |-> 0, counter |-> 0] /\ worker' = [value |-> 0, counter |-> 0]
    BY <2>1 DEF Default
  <2>4. Distance(0, 0) = 0
    BY DEF Distance
  <2>5. Lag' = 0
    BY <2>2, <2>3, <2>4 DEF Lag
  <2> QED
    BY <1>t, <2>5
<1>5. CASE StartPlayback
  <2>1. /\ main = "idle" /\ ~playing /\ main' = "prime" /\ once' = TRUE
        /\ UNCHANGED audio
    BY <1>5 DEF StartPlayback, audioVars
  <2>2. audio = "out"
    BY <1>0, <2>1 DEF PassInv
  <2> QED
    BY <2>1, <2>2 DEF Answered
<1>6. CASE AddState
  <2>1. ~access'
    BY <1>0, <1>6 DEF AddState, UnusedInv
  <2> QED
    BY <2>1 DEF Answered
<1>7. CASE ~(WorkerReads \/ WorkerReplies \/ RestoreWith \/ GetAccess \/ StartPlayback \/ AddState
             \/ \E next \in {"idle", "flush"} : Set(next))
  <2>1. UNCHANGED <<worker, last>>
    BY <1>7 DEF Next, AudioThread, MainSteps, User, PassBegins, WorkerClaims,
                Process,
       WorkerLocks, WorkerNotifies, PassEnds, SetClaims, SetStores, SetReleases,
       GetReturns, FlushAtOnce, FlushHeard, FlushWaits, FlushWakes, Primed, Stops, Drained,
       Finalize, RemoveState, RestoreWithout, Get, Flush, StopPlayback, vars, settings
  <2>2. toMain'.data = toMain.data /\ toMain'.last = toMain.last
    BY <1>7, WhoStores
  <2>3. Lag' = Lag
    BY <2>1, <2>2 DEF Lag, Reply
  <2>4. /\ Answered
        /\ audio' \notin {"process", "lock", "reply"} => audio \notin {"process", "lock", "reply"}
    <3> USE DEF Answered, listVars, mainVars, audioVars
    <3>1. CASE AudioThread
      <4>1. CASE PassBegins
        BY <1>0, <4>1 DEF PassBegins, LifeInv, KeptInv
      <4>2. CASE Process
        BY <1>0, <4>2 DEF Process, LifeInv, KeptInv
      <4>3. CASE WorkerClaims \/ WorkerLocks
        <5>1. /\ UNCHANGED <<main, initialized, access, once>>
              /\ \/ audio = "claim" /\ audio' = "read"
                 \/ audio = "lock" /\ audio' = "reply"
          BY <4>3 DEF WorkerClaims, WorkerLocks
        <5> QED
          BY <5>1
      <4>4. CASE WorkerNotifies \/ PassEnds
        <5>1. /\ audio \in {"notify", "leave"}
              /\ UNCHANGED <<main, initialized, access>>
          BY <4>4 DEF WorkerNotifies, PassEnds
        <5> QED
          BY <5>1
      <4> QED
        BY <1>7, <3>1, <4>1, <4>2, <4>3, <4>4 DEF AudioThread
    <3>2. CASE MainSteps
      BY <1>0, <1>7, <3>2 DEF MainSteps, SetClaims, SetStores, SetReleases,
         GetReturns, FlushAtOnce, FlushHeard, Flushed, FlushWaits, FlushWakes, Primed, Stops,
         Drained, Finalize
    <3>3. CASE User
      BY <1>0, <1>7, <3>3 DEF User, RemoveState, RestoreWithout, Get, Flush,
                              StopPlayback
    <3>4. CASE UNCHANGED vars
      BY <3>4 DEF vars
    <3> QED
      BY <3>1, <3>2, <3>3, <3>4 DEF Next
  <2> QED
    BY <2>3, <2>4 DEF ReplyInv
<1> QED
  BY <1>1, <1>2, <1>3, <1>4, <1>5, <1>6, <1>7

(* The pass that is requested after the last one of a playback reads what  *)
(* was given last, and that is what is finalized.                          *)
DrainInv ==
    /\ main = "drain" /\ audio # "out" => listed
    /\ main = "drain" /\ audio \in {"claim", "read"} => slot = toWorker.last
    /\ /\ main = "drain" /\ listed
       /\ audio \in {"process", "lock", "reply", "notify", "leave"} \/ ~once
       => worker.value = last.value
    /\ main = "finalize" /\ ~playing => worker.value = last.value

LEMMA StepKeepsDrain ==
    ASSUME NoRestoreWhilePlaying, Inv, ValueInv, LifeInv, StepInv, DrainInv, [Next]_vars
    PROVE  DrainInv'
<1>0. /\ TypeOK /\ PassInv /\ LifeInv /\ KeptInv /\ SlotInv
      /\ UnusedInv /\ GivenInv /\ ReadInv
  BY DEF Inv, ValueInv
<1> USE DEF DrainInv, mainVars, audioVars, listVars, settings
<1>1. CASE PassBegins
  <2>1. /\ UNCHANGED <<main, playing, listed, access, worker, last, toWorker>>
        /\ audio = "out"
        /\ ~listed => audio' = "out"
        /\ listed /\ access => audio' = "claim" /\ slot' = toWorker.last /\ once' = once
        /\ listed /\ ~access => audio' = "process"
    BY <1>1 DEF PassBegins
  <2>2. ~access => worker.value = last.value
    BY <1>0 DEF UnusedInv
  <2> QED
    BY <2>1, <2>2
<1>2. CASE WorkerClaims
  <2>1. /\ UNCHANGED <<main, playing, listed, worker, last, once>>
        /\ audio = "claim" /\ audio' = "read" /\ slot' = Claimed(toWorker, slot)
    BY <1>2 DEF WorkerClaims
  <2>2. toWorker'.last = toWorker.last
    BY <1>2, WhoStores DEF WorkerClaims, SetStores, GetAccess, StartPlayback
  <2>3. main = "drain" => slot' = slot
    BY <1>0, <2>1 DEF SlotInv, Claimed, TypeOK
  <2> QED
    BY <2>1, <2>2, <2>3
<1>3. CASE WorkerReads
  <2>1. /\ UNCHANGED <<main, playing, listed, last, once>>
        /\ audio = "read" /\ audio' = "process"
        /\ worker' = IF toWorker.data[slot].counter = worker.counter
                     THEN worker ELSE toWorker.data[slot]
    BY <1>3 DEF WorkerReads
  <2>2. CASE main = "drain"
    <3>1. toWorker.data[slot] = last
      BY <1>0, <2>1, <2>2 DEF GivenInv, Newest
    <3>2. Current = worker /\ ~Fresh
      BY <1>0, <2>1, <2>2 DEF Current, LifeInv, Fresh
    <3>3. InStep(worker, last)
      BY <3>2 DEF StepInv
    <3>4. worker.counter = last.counter => worker.value = last.value
      BY <1>0, <3>3, StepTypes, SameCounter
    <3>5. worker'.value = last.value
      BY <2>1, <3>1, <3>4
    <3> QED
      BY <2>1, <2>2, <3>5
  <2>3. CASE main = "finalize"
    BY <1>0, <2>1, <2>3 DEF PassInv
  <2> QED
    BY <2>1, <2>2, <2>3
<1>4. CASE Process \/ WorkerLocks \/ WorkerReplies \/ WorkerNotifies \/ PassEnds
  <2>1. /\ UNCHANGED <<main, playing, listed, worker, last>>
        /\ audio \in {"process", "lock", "reply", "notify", "leave"}
        /\ audio' \in {"lock", "reply", "notify", "leave", "out"}
    BY <1>4 DEF Process, WorkerLocks, WorkerReplies, WorkerNotifies, PassEnds
  <2> QED
    BY <2>1
<1>5. CASE Stops
  <2>1. main' = "drain" /\ audio' = "out" /\ once' = TRUE
    BY <1>5 DEF Stops
  <2> QED
    BY <2>1
<1>6. CASE Drained
  <2>1. /\ main = "drain" /\ ~once /\ main' = IF listed THEN "finalize" ELSE "idle"
        /\ UNCHANGED <<worker, last>>
    BY <1>6 DEF Drained
  <2> QED
    BY <2>1
<1>7. CASE RemoveState
  <2>1. /\ main' = "finalize" => playing'
        /\ main' # "drain"
    BY <1>7 DEF RemoveState
  <2> QED
    BY <2>1
<1>8. CASE ~(Stops \/ Drained \/ RemoveState \/ AudioThread \/ UNCHANGED vars)
  <2>1. main' \notin {"drain", "finalize"}
    BY <1>8 DEF Next, MainSteps, User, SetClaims, SetStores, SetReleases,
       GetReturns, FlushAtOnce, FlushHeard, Flushed, FlushWaits, FlushWakes, Primed,
       Finalize, AddState, RestoreWithout, RestoreWith, GetAccess, Set, Get, Flush,
       StartPlayback, StopPlayback
  <2> QED
    BY <2>1
<1>9. CASE UNCHANGED vars
  BY <1>9 DEF vars
<1> QED
  BY <1>1, <1>2, <1>3, <1>4, <1>5, <1>6, <1>7, <1>8, <1>9 DEF AudioThread

HeardInv == Inv /\ ValueInv /\ LifeInv /\ StepInv /\ ReplyInv /\ DrainInv

LEMMA InitHeardInv == Init => HeardInv
<1> SUFFICES ASSUME Init
             PROVE  HeardInv
  OBVIOUS
<1>1. Inv /\ ValueInv
  BY InitHolds, InitValueInv
<1>2. LifeInv /\ ReplyInv /\ DrainInv
  BY DEF Init, LifeInv, ReplyInv, Answered, DrainInv
<1>3. StepInv
  <2>1. kept = Default /\ worker = Default /\ last = Default /\ toWorker = Buffer(Default)
    BY DEF Init
  <2>2. Current = Default /\ \A s \in Slots : toWorker.data[s] = Default
    BY <2>1, NewData DEF Current
  <2>3. Default \in Settings /\ Default.value = 0
    BY DEF Default, Settings
  <2>4. InStep(Default, Default)
    BY <2>3, SameInStep
  <2> QED
    BY <2>1, <2>2, <2>3, <2>4 DEF StepInv
<1> QED
  BY <1>1, <1>2, <1>3 DEF HeardInv

LEMMA StepKeepsHeard ==
    ASSUME NoRestoreWhilePlaying, HeardInv, [Next]_vars
    PROVE  HeardInv'
<1>1. (Inv /\ ValueInv)'
  BY StepKeepsValues DEF HeardInv
<1>2. LifeInv'
  BY StepKeepsLife DEF HeardInv, Inv, ValueInv
<1>3. StepInv' /\ ReplyInv' /\ DrainInv'
  BY StepKeepsStep, StepKeepsReply, StepKeepsDrain DEF HeardInv
<1> QED
  BY <1>1, <1>2, <1>3 DEF HeardInv

(* The reply with the last counter is for the last settings.               *)
LEMMA HeardMeansEqual ==
    ASSUME HeardInv, FlushHeard
    PROVE  worker = last
<1>0. TypeOK /\ AccessInv /\ UnusedInv
  BY DEF HeardInv, Inv, ValueInv
<1>t. /\ last \in Settings /\ worker \in Settings /\ last.value \in Nat /\ worker.value \in Nat
      /\ worker.value <= last.value /\ last.counter \in Counters
  BY <1>0, StepTypes, ValueTypes, ReplyTypes DEF HeardInv, ValueInv,
     GivenInv, ReadInv
<1>1. CASE access
  <2>1. initialized /\ main = "flush" /\ Reply = last.counter
    BY DEF FlushHeard, Reply
  <2>2. 0 <= Lag
    BY <1>1, <2>1 DEF HeardInv, ReplyInv, Answered
  <2>3. Distance(Reply, last.counter) = 0
    BY <1>t, <2>1, DistanceType
  <2>4. worker.value = last.value
    BY <1>t, <2>2, <2>3 DEF Lag
  <2>5. InStep(worker, last)
    BY <2>1 DEF HeardInv, StepInv, Current, Fresh
  <2> QED
    BY <1>t, <2>4, <2>5, SameValue
<1>2. CASE ~access
  BY <1>0, <1>2 DEF UnusedInv
<1> QED
  BY <1>1, <1>2

(* Unless the history panel restores another list during playback: when    *)
(* Flush() returns during playback, the settings given last are those in   *)
(* use and become the kept ones.  An effect may be removed at any moment.  *)
THEOREM FlushedIsHeard == NoRestoreWhilePlaying => (Spec => FlushMeansHeard)
<1>1. ASSUME NoRestoreWhilePlaying
      PROVE  HeardInv /\ [Next]_vars
                 => HeardInv' /\ [FlushHeard => worker.value = last.value /\ kept' = worker]_vars
  BY <1>1, StepKeepsHeard, HeardMeansEqual DEF FlushHeard, Flushed
<1>2. CASE NoRestoreWhilePlaying
  <2>1. HeardInv /\ [Next]_vars
            => HeardInv' /\ [FlushHeard => worker.value = last.value /\ kept' = worker]_vars
    BY <1>1, <1>2
  <2> QED
    BY <2>1, InitHeardInv, PTL DEF Spec, FlushMeansHeard
<1> QED
  BY <1>2

(* Under the same hypothesis: settings that were given before playback was *)
(* stopped, with or without Flush(), are the kept ones after it.           *)
THEOREM StopLosesNoSettings == NoRestoreWhilePlaying => (Spec => StopKeepsSettings)
<1>1. ASSUME HeardInv, [Next]_vars, main = "finalize", main' = "idle", ~playing
      PROVE  kept'.value = sets
  <2>1. Finalize
    BY <1>1 DEF Next, AudioThread, MainSteps, User, PassBegins, WorkerClaims,
                WorkerReads,
       Process, WorkerLocks, WorkerReplies, WorkerNotifies, PassEnds, SetClaims, SetStores,
       SetReleases, GetReturns, FlushAtOnce, FlushHeard, FlushWaits, FlushWakes, Primed, Stops,
       Drained, AddState, RemoveState, RestoreWithout, RestoreWith, GetAccess, Set, Get, Flush,
       StartPlayback, StopPlayback, vars, mainVars
  <2>2. worker.value = last.value /\ last.value = sets
    BY <1>1 DEF HeardInv, DrainInv, ValueInv, GivenInv
  <2> QED
    BY <2>1, <2>2 DEF Finalize
<1>2. CASE NoRestoreWhilePlaying
  <2>1. HeardInv /\ [Next]_vars
            => HeardInv' /\ [main = "finalize" /\ main' = "idle" /\ ~playing
                                 => kept'.value = sets]_vars
    BY <1>1, <1>2, StepKeepsHeard
  <2> QED
    BY <2>1, InitHeardInv, PTL DEF Spec, StopKeepsSettings
<1> QED
  BY <1>2
=============================================================================
