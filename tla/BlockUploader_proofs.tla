------------------------ MODULE BlockUploader_proofs ------------------------
(***************************************************************************)
(* For any number of blocks, producers, upload slots, retries and          *)
(* processes: no thread of the uploader is joined illegally, nothing runs  *)
(* after it is cancelled, every slot is accounted for, nothing is marked   *)
(* as synced before it is uploaded, and an interrupted upload can be       *)
(* resumed.  Each theorem says which faults it excludes.                   *)
(***************************************************************************)
EXTENDS BlockUploader, FiniteSetTheorems, SequenceTheorems,
        TLAPS

-----------------------------------------------------------------------------
(* Types                                                                   *)

(* A worker that has a task holds its block.                               *)
HoldInv == \A t \in Workers :
               pc[t] \in {"compress", "push", "report"} => hold[t] \in Blocks

Types == TypeOK /\ HoldInv

USE UploaderAssumption

LEMMA SubsetsAreCounted ==
    ASSUME NEW S, S \subseteq Blocks
    PROVE  Cardinality(S) \in Nat
BY FS_Subset, FS_CardinalityType

CancelValues == [by : Threads \cup {NoOne},
                 step : {"none", "notify", "join", "again", "done"}]

(* The calls that end an operation keep its types.                         *)
LEMMA CancelTypes ==
    ASSUME OperationTypes, NEW t \in Threads
    PROVE  /\ CancelUploader(t)
                => isRunning' \in BOOLEAN /\ cancel' \in CancelValues
           /\ CancelContext(t)
                => /\ isRunning' \in BOOLEAN /\ cancelled' \in BOOLEAN
                   /\ listed' \in BOOLEAN /\ cancel' \in CancelValues
<1>1. ASSUME CancelUploader(t)
      PROVE  isRunning' \in BOOLEAN /\ cancel' \in CancelValues
  <2>1. isRunning' \in BOOLEAN
    BY <1>1, Zenon DEF CancelUploader, OperationTypes
  <2>2. \A s \in {"notify", "again"} :
            [by |-> t, step |-> s] \in CancelValues
    BY DEF CancelValues
  <2>3. \/ \E s \in {"notify", "again"} : cancel' = [by |-> t, step |-> s]
        \/ cancel' = cancel
    BY <1>1 DEF CancelUploader
  <2> QED
    BY <2>1, <2>2, <2>3 DEF OperationTypes, CancelValues
<1>2. CancelContext(t)
        => /\ cancelled' \in BOOLEAN /\ listed' \in BOOLEAN
           /\ CancelUploader(t) \/ UNCHANGED <<isRunning, cancel>>
  BY Zenon DEF CancelContext, OperationTypes
<1> QED
  BY <1>1, <1>2 DEF OperationTypes, CancelValues

CallbackValues ==
    [at : {"idle", "count", "row", "verdict", "release", "cancel", "leave"},
     block : Blocks \cup {NoBlock}, result : Results,
     verdict : {"more", "synced", "failed"}]

(* An idle callback and one that begins are callbacks.                     *)
LEMMA CallbackTypes ==
    /\ Idle \in CallbackValues
    /\ \A b \in Blocks, r \in Results :
         [Idle EXCEPT !.at = "count", !.block = b, !.result = r]
             \in CallbackValues
BY DEF Idle, CallbackValues, Results

(* Waking one sleeper keeps the waits.                                     *)
LEMMA WaitTypes ==
    ASSUME wait \in [Workers -> {"no", "dozing", "asleep"}], NEW S,
           NEW w \in OneWoken(S)
    PROVE  w \in [Workers -> {"no", "dozing", "asleep"}]
BY Zenon DEF OneWoken

(* Every step keeps the types, whatever the faults.                        *)
LEMMA StepKeepsTypes == Types /\ [Next]_vars => Types'
<1> SUFFICES ASSUME Types, [Next]_vars
             PROVE  Types'
  OBVIOUS
<1> USE DEF Types, TypeOK, HoldInv, durable, workers, network, context
<1>0. /\ "main" \in Threads /\ "net" \in Threads /\ "saver" \in Threads
      /\ Starter \in Threads /\ Workers \subseteq Threads
      /\ "consumer" \in Workers /\ Producers \subseteq Workers
      /\ "consumer" \notin Producers /\ NoBlock \notin Blocks
  BY DEF Threads, Workers, Starter, NoBlock
<1>1. CASE Notify
  <2>1. WorkerTypes' /\ HoldInv'
    BY <1>0, <1>1 DEF WorkerTypes, Notify
  <2>2. OperationTypes'
    BY <1>0, <1>1 DEF OperationTypes, Notify
  <2>3. DurableTypes' /\ NetworkTypes'
    BY <1>1 DEF DurableTypes, NetworkTypes, Notify
  <2> QED
    BY <2>1, <2>2, <2>3
<1>2. CASE Join
  <2>1. terminated' \in BOOLEAN /\ cancel' \in CancelValues
    BY <1>2, Zenon DEF Join, JoinThrows, OperationTypes, CancelValues
  <2>2. OperationTypes'
    BY <1>2, <2>1 DEF Join, OperationTypes, CancelValues
  <2>3. DurableTypes' /\ WorkerTypes' /\ NetworkTypes' /\ HoldInv'
    BY <1>2 DEF DurableTypes, WorkerTypes, NetworkTypes, Join
  <2> QED
    BY <2>2, <2>3
<1>3. CASE TestCancelled
  <2>1. OperationTypes'
    BY <1>0, CancelTypes, <1>3 DEF OperationTypes, CancelValues, TestCancelled
  <2>2. DurableTypes' /\ WorkerTypes' /\ NetworkTypes' /\ HoldInv'
    BY <1>3 DEF DurableTypes, WorkerTypes, NetworkTypes, TestCancelled
  <2> QED
    BY <2>1, <2>2
<1>4. CASE List
  <2>1. OperationTypes'
    BY <1>0, <1>4 DEF OperationTypes, List
  <2>2. DurableTypes' /\ WorkerTypes' /\ NetworkTypes' /\ HoldInv'
    BY <1>4 DEF DurableTypes, WorkerTypes, NetworkTypes, List
  <2> QED
    BY <2>1, <2>2
<1>5. CASE Start
  <2>1. WorkerTypes' /\ HoldInv'
    BY <1>0, <1>5 DEF WorkerTypes, Start, Leaves
  <2>2. OperationTypes'
    BY <1>0, CancelTypes, <1>5 DEF OperationTypes, CancelValues, Start, Leaves
  <2>3. DurableTypes' /\ NetworkTypes'
    BY <1>5 DEF DurableTypes, NetworkTypes, Start, Leaves
  <2> QED
    BY <2>1, <2>2, <2>3
<1>6. ASSUME NEW t \in Workers, Sleep(t)
      PROVE  Types'
  <2>1. WorkerTypes' /\ HoldInv'
    BY <1>0, <1>6 DEF WorkerTypes, Sleep
  <2>2. DurableTypes' /\ OperationTypes' /\ NetworkTypes'
    BY <1>6 DEF DurableTypes, OperationTypes, NetworkTypes, Sleep
  <2> QED
    BY <2>1, <2>2
<1>7. ASSUME NEW p \in Producers, TakeTask(p)
      PROVE  Types'
  <2>1. WorkerTypes' /\ HoldInv'
    <3>1. CASE isRunning /\ todo # {}
      <4>1. PICK b \in todo : todo' = todo \ {b} /\ Go(p, "compress", b)
        BY <1>7, <3>1 DEF TakeTask
      <4>2. b \in Blocks
        BY <4>1 DEF WorkerTypes
      <4>3. HoldInv'
        BY <1>0, <4>1, <4>2 DEF WorkerTypes, Go
      <4> QED
        BY <1>7, <4>1, <4>2, <4>3 DEF WorkerTypes, TakeTask, Go
    <3>2. CASE ~(isRunning /\ todo # {})
      BY <1>0, <1>7, <3>2 DEF WorkerTypes, TakeTask, Go
    <3> QED
      BY <3>1, <3>2
  <2>2. DurableTypes' /\ OperationTypes' /\ NetworkTypes'
    BY <1>7 DEF DurableTypes, OperationTypes, NetworkTypes, TakeTask, Go
  <2> QED
    BY <2>1, <2>2
<1>8. ASSUME NEW p \in Producers, Compress(p)
      PROVE  Types'
  <2>1. WorkerTypes' /\ HoldInv'
    BY <1>0, <1>8 DEF WorkerTypes, Compress, Go
  <2>2. DurableTypes' /\ OperationTypes' /\ NetworkTypes'
    BY <1>8 DEF DurableTypes, OperationTypes, NetworkTypes, Compress, Go
  <2> QED
    BY <2>1, <2>2
<1>9. ASSUME NEW p \in Producers, ReportFailure(p)
      PROVE  Types'
  <2>1. DurableTypes'
    BY <1>0, <1>9 DEF DurableTypes, ReportFailure, Leaves, Go, Complete
  <2>2. WorkerTypes' /\ HoldInv'
    BY <1>0, <1>9 DEF WorkerTypes, ReportFailure, Leaves, Go, Complete
  <2>3. OperationTypes'
    BY <1>0, CancelTypes, <1>9 DEF OperationTypes, CancelValues,
                                   ReportFailure, Leaves, Go, Complete
  <2>4. NetworkTypes'
    BY <1>9 DEF NetworkTypes, ReportFailure, Leaves, Go, Complete
  <2> QED
    BY <2>1, <2>2, <2>3, <2>4
<1>10. ASSUME NEW p \in Producers, PushBlockToQueue(p)
      PROVE  Types'
  <2>1. wait' \in [Workers -> {"no", "dozing", "asleep"}]
    <3>1. \/ \E S : wait' \in OneWoken(S)
          \/ wait' = wait
          \/ wait' = [wait EXCEPT ![p] = "dozing"]
      BY <1>10, Zenon DEF PushBlockToQueue, DozeOff
    <3> QED
      BY <1>0, <3>1, WaitTypes DEF WorkerTypes
  <2>2. ring' \in Seq(Blocks) /\ Len(ring') < RingSize
    <3>1. hold[p] \in Blocks
      BY <1>0, <1>10 DEF PushBlockToQueue
    <3>2. \/ ring' = ring
          \/ ~RingFull /\ ring' = Append(ring, hold[p])
      BY <1>10 DEF PushBlockToQueue
    <3> QED
      BY <3>1, <3>2 DEF WorkerTypes, RingFull
  <2>3. /\ pc' \in [Workers -> {"none", "loop", "compress", "push", "report",
                             "pop", "slot", "upload", "done"}]
        /\ hold' \in [Workers -> Blocks \cup {NoBlock}] /\ HoldInv'
    BY <1>0, <1>10 DEF PushBlockToQueue, Go, DozeOff, WorkerTypes
  <2>4. WorkerTypes'
    BY <1>10, <2>1, <2>2, <2>3 DEF WorkerTypes, PushBlockToQueue
  <2>5. DurableTypes' /\ OperationTypes' /\ NetworkTypes'
    BY <1>10 DEF DurableTypes, OperationTypes, NetworkTypes, PushBlockToQueue
  <2> QED
    BY <2>3, <2>4, <2>5
<1>11. CASE PopBlockFromQueue
  <2>1. wait' \in [Workers -> {"no", "dozing", "asleep"}]
    <3>1. \/ \E S : wait' \in OneWoken(S)
          \/ wait' = wait
          \/ wait' = [wait EXCEPT !["consumer"] = "dozing"]
      BY <1>11, Zenon DEF PopBlockFromQueue, DozeOff
    <3> QED
      BY <1>0, <3>1, WaitTypes DEF WorkerTypes
  <2>2. /\ ring' \in Seq(Blocks) /\ Len(ring') < RingSize
        /\ ring # <<>> => Head(ring) \in Blocks
    <3>1. ring' = ring \/ (ring # <<>> /\ ring' = Tail(ring))
      BY <1>11 DEF PopBlockFromQueue
    <3>2. ASSUME ring # <<>>
          PROVE  /\ Tail(ring) \in Seq(Blocks) /\ Head(ring) \in Blocks
                 /\ Len(Tail(ring)) = Len(ring) - 1
      BY <3>2, HeadTailProperties DEF WorkerTypes
    <3>3. Len(ring) \in Nat /\ Len(ring) < RingSize /\ ring \in Seq(Blocks)
      BY DEF WorkerTypes
    <3> QED
      BY <3>1, <3>2, <3>3
  <2>3. /\ pc' \in [Workers -> {"none", "loop", "compress", "push", "report",
                             "pop", "slot", "upload", "done"}]
        /\ hold' \in [Workers -> Blocks \cup {NoBlock}] /\ HoldInv'
    BY <1>0, <1>11, <2>2 DEF PopBlockFromQueue, Go, DozeOff, WorkerTypes
  <2>4. WorkerTypes'
    BY <1>11, <2>1, <2>2, <2>3 DEF WorkerTypes, PopBlockFromQueue
  <2>5. DurableTypes' /\ OperationTypes' /\ NetworkTypes'
    BY <1>11 DEF DurableTypes, OperationTypes, NetworkTypes, PopBlockFromQueue
  <2> QED
    BY <2>3, <2>4, <2>5
<1>12. CASE TakeSlot
  <2>1. WorkerTypes' /\ HoldInv'
    BY <1>0, <1>12 DEF WorkerTypes, TakeSlot, Go, DozeOff
  <2>2. DurableTypes' /\ OperationTypes' /\ NetworkTypes'
    BY <1>12 DEF DurableTypes, OperationTypes, NetworkTypes, TakeSlot, Go,
                 DozeOff
  <2> QED
    BY <2>1, <2>2
<1>13. CASE Upload
  <2>1. WorkerTypes' /\ HoldInv'
    BY <1>0, <1>13 DEF WorkerTypes, Upload, Go
  <2>2. NetworkTypes'
    BY <1>0, <1>13 DEF NetworkTypes, Upload, Go
  <2>3. DurableTypes' /\ OperationTypes'
    BY <1>13 DEF DurableTypes, OperationTypes, Upload, Go
  <2> QED
    BY <2>1, <2>2, <2>3
<1>14. ASSUME NEW b \in Blocks, NEW r \in Results, Answer(b, r)
      PROVE  Types'
  <2>1. \/ cb' = cb
        \/ cb' = Idle
        \/ cb' = [Idle EXCEPT !.at = "count", !.block = b, !.result = r]
    BY <1>14, Zenon DEF Answer, AnswerPut, AnswerConfirm, AnswerFail,
                        FailUpload,
                       Tell
  <2>2. cb' \in CallbackValues
    <3>1. cb \in CallbackValues
      BY DEF NetworkTypes, CallbackValues
    <3> QED
      BY <1>14, <2>1, <3>1, CallbackTypes, Zenon
  <2>3. \E q \in {"put", "confirm", "fail", "closed"}, m \in 0..Retries :
            Ask(b, q, m)
    BY <1>14 DEF Answer, AnswerPut, AnswerConfirm, AnswerFail, FailUpload,
                NetworkTypes
  <2>4. /\ request' \in [Blocks -> {"none", "put", "confirm", "fail", "closed"}]
        /\ retriesLeft' \in [Blocks -> 0..Retries]
    BY <2>3 DEF Ask, NetworkTypes
  <2>5. told' = told \/ told' = told \cup {b}
    BY <1>14 DEF Answer, AnswerPut, AnswerConfirm, AnswerFail, FailUpload
  <2>6. NetworkTypes'
    BY <1>14, <2>2, <2>4, <2>5 DEF Answer, NetworkTypes, CallbackValues
  <2>7. uploaded' = uploaded \/ uploaded' = uploaded \cup {b}
    BY <1>14 DEF Answer, AnswerPut, AnswerConfirm, AnswerFail
  <2>8. DurableTypes'
    BY <1>14, <2>7 DEF Answer, DurableTypes
  <2>9. WorkerTypes' /\ OperationTypes' /\ HoldInv'
    BY <1>14 DEF WorkerTypes, OperationTypes, Answer
  <2> QED
    BY <2>6, <2>8, <2>9
<1>15. CASE CountBlock
  <2>1. counts' \in [total : Nat, up : Nat, failed : Nat]
    <3>1. \/ counts' = [counts EXCEPT !.up = @ + 1]
          \/ counts' = [counts EXCEPT !.failed = @ + 1]
      BY <1>15 DEF CountBlock
    <3> QED
      BY <3>1 DEF WorkerTypes
  <2>2. WorkerTypes'
    BY <1>15, <2>1 DEF CountBlock, WorkerTypes
  <2>3. NetworkTypes'
    BY <1>15 DEF CountBlock, NetworkTypes, Verdict
  <2>4. DurableTypes' /\ OperationTypes' /\ HoldInv'
    BY <1>15 DEF CountBlock, DurableTypes, OperationTypes
  <2> QED
    BY <2>2, <2>3, <2>4
<1>16. CASE RemoveRow
  <2>1. DurableTypes'
    BY <1>0, <1>16 DEF DurableTypes, RemoveRow, RowGoes
  <2>2. OperationTypes'
    BY <1>0, <1>16 DEF OperationTypes, RemoveRow, RowGoes
  <2>3. NetworkTypes'
    BY <1>0, <1>16 DEF NetworkTypes, RemoveRow, RowGoes
  <2>4. WorkerTypes' /\ HoldInv'
    BY <1>16 DEF WorkerTypes, RemoveRow, RowGoes
  <2> QED
    BY <2>1, <2>2, <2>3, <2>4
<1>17. CASE GiveVerdict
  <2>1. OperationTypes'
    BY <1>0, CancelTypes, <1>17 DEF OperationTypes, CancelValues,
                                    GiveVerdict, Leaves, Complete
  <2>2. NetworkTypes'
    BY <1>0, <1>17 DEF NetworkTypes, GiveVerdict, Leaves, Complete
  <2>3. DurableTypes' /\ WorkerTypes' /\ HoldInv'
    BY <1>17 DEF DurableTypes, WorkerTypes, GiveVerdict, Leaves, Complete
  <2> QED
    BY <2>1, <2>2, <2>3
<1>18. CASE ReleaseSlot
  <2>1. WorkerTypes' /\ HoldInv'
    BY <1>0, <1>18 DEF WorkerTypes, ReleaseSlot, OneWoken, Asleep
  <2>2. NetworkTypes'
    BY <1>0, <1>18 DEF NetworkTypes, ReleaseSlot, OneWoken, Asleep
  <2>3. DurableTypes' /\ OperationTypes'
    BY <1>18 DEF DurableTypes, OperationTypes, ReleaseSlot, OneWoken, Asleep
  <2> QED
    BY <2>1, <2>2, <2>3
<1>19. CASE CancelAfterFailure
  <2>1. OperationTypes'
    BY <1>0, CancelTypes, <1>19 DEF OperationTypes, CancelValues,
                                    CancelAfterFailure
  <2>2. NetworkTypes'
    BY <1>0, <1>19 DEF NetworkTypes, CancelAfterFailure
  <2>3. DurableTypes' /\ WorkerTypes' /\ HoldInv'
    BY <1>19 DEF DurableTypes, WorkerTypes, CancelAfterFailure
  <2> QED
    BY <2>1, <2>2, <2>3
<1>20. CASE LeaveCallback
  <2>1. cb' \in CallbackValues
    BY <1>20, CallbackTypes DEF LeaveCallback
  <2>2. NetworkTypes'
    BY <1>20, <2>1 DEF LeaveCallback, NetworkTypes, CallbackValues
  <2>3. OperationTypes'
    BY <1>0, <1>20, CancelTypes
       DEF LeaveCallback, OperationTypes, CancelValues
  <2>4. DurableTypes' /\ WorkerTypes' /\ HoldInv'
    BY <1>20 DEF LeaveCallback, DurableTypes, WorkerTypes
  <2> QED
    BY <2>2, <2>3, <2>4
<1>21. CASE AnswerSync
  <2>1. synced' \in BOOLEAN /\ snapshotRow' \in BOOLEAN
    BY <1>21, Zenon DEF AnswerSync, Heard, DurableTypes
  <2>2. DurableTypes'
    BY <1>21, <2>1 DEF AnswerSync, DurableTypes
  <2>3. OperationTypes'
    BY <1>0, <1>21, CancelTypes
       DEF AnswerSync, Leaves, Complete, OperationTypes, CancelValues
  <2>4. NetworkTypes' /\ WorkerTypes' /\ HoldInv'
    BY <1>21 DEF AnswerSync, NetworkTypes, WorkerTypes
  <2> QED
    BY <2>2, <2>3, <2>4
<1>22. CASE CancelSync
  <2>1. OperationTypes'
    BY <1>0, <1>22 DEF OperationTypes, CancelSync
  <2>2. DurableTypes' /\ WorkerTypes' /\ NetworkTypes' /\ HoldInv'
    BY <1>22 DEF DurableTypes, WorkerTypes, NetworkTypes, CancelSync
  <2> QED
    BY <2>1, <2>2
<1>23. CASE Abort
  <2>1. OperationTypes'
    BY <1>0, <1>23 DEF OperationTypes, Abort
  <2>2. DurableTypes' /\ WorkerTypes' /\ NetworkTypes' /\ HoldInv'
    BY <1>23 DEF DurableTypes, WorkerTypes, NetworkTypes, Abort
  <2> QED
    BY <2>1, <2>2
<1>24. CASE CancelOperation
  <2>1. OperationTypes'
    BY <1>0, CancelTypes, <1>24 DEF OperationTypes, CancelValues,
                                    CancelOperation
  <2>2. DurableTypes' /\ WorkerTypes' /\ NetworkTypes' /\ HoldInv'
    BY <1>24 DEF DurableTypes, WorkerTypes, NetworkTypes, CancelOperation
  <2> QED
    BY <2>1, <2>2
<1>25. CASE FailOperation
  <2>1. OperationTypes'
    BY <1>0, CancelTypes, <1>25 DEF OperationTypes, CancelValues,
                                    FailOperation, Leaves, Complete
  <2>2. DurableTypes' /\ WorkerTypes' /\ NetworkTypes' /\ HoldInv'
    BY <1>25 DEF DurableTypes, WorkerTypes, NetworkTypes, FailOperation,
                 Leaves, Complete
  <2> QED
    BY <2>1, <2>2
<1>26. CASE Saved
  <2>1. OperationTypes'
    BY <1>0, CancelTypes, <1>26 DEF OperationTypes, CancelValues, Saved, Leaves
  <2>2. DurableTypes' /\ WorkerTypes' /\ NetworkTypes' /\ HoldInv'
    BY <1>26 DEF DurableTypes, WorkerTypes, NetworkTypes, Saved, Leaves
  <2> QED
    BY <2>1, <2>2
<1>27. CASE Restart
  <2>1. DurableTypes'
    BY <1>27 DEF Restart, DurableTypes
  <2>2. /\ pc' \in [Workers -> {"none", "loop", "compress", "push", "report",
                             "pop", "slot", "upload", "done"}]
        /\ wait' \in [Workers -> {"no", "dozing", "asleep"}]
        /\ hold' \in [Workers -> Blocks \cup {NoBlock}]
    BY <1>27 DEF Restart
  <2>3. counts' \in [total : Nat, up : Nat, failed : Nat]
    BY <1>27, SubsetsAreCounted DEF Restart, DurableTypes
  <2>4. HoldInv'
    BY <1>27 DEF Restart
  <2>5. WorkerTypes'
    BY <1>27, <2>2, <2>3 DEF Restart, WorkerTypes, DurableTypes
  <2>6. OperationTypes'
    <3>1. isRunning' \in BOOLEAN /\ cancelled' \in BOOLEAN /\ listed' \in BOOLEAN
          /\ completed' \in BOOLEAN /\ terminated' \in BOOLEAN
      BY <1>27, Zenon DEF Restart, OperationTypes
    <3> QED
      BY <1>27, <3>1 DEF Restart, OperationTypes
  <2>7. cb' \in CallbackValues
    BY <1>27, CallbackTypes DEF Restart
  <2>8. NetworkTypes'
    BY <1>27, <2>7 DEF Restart, NetworkTypes, CallbackValues
  <2> QED
    BY <2>1, <2>4, <2>5, <2>6, <2>8
<1>28. CASE UNCHANGED vars
  BY <1>28 DEF vars, DurableTypes, WorkerTypes, OperationTypes, NetworkTypes
<1> QED
  BY <1>1, <1>2, <1>3, <1>4, <1>5, <1>6, <1>7, <1>8, <1>9, <1>10, <1>11,
     <1>12, <1>13, <1>14, <1>15, <1>16, <1>17, <1>18, <1>19, <1>20, <1>21,
     <1>22, <1>23, <1>24, <1>25, <1>26, <1>27, <1>28
     DEF Next, WorkerStep, NetStep, CreateStep, MainStep

-----------------------------------------------------------------------------
(* Joins                                                                   *)

(* While the uploader is created nothing else has begun, nobody cancels    *)
(* and its creator holds the operation.                                    *)
CreateInv ==
    creating # "made" =>
        /\ cancel.step = "none" /\ ~cancelled /\ "starter" \in owners
        /\ cb.at = "idle" /\ main = "idle"
        /\ \A t \in Workers : pc[t] = "none"
        /\ \A b \in Blocks : request[b] = "none"

(* Cancel() is entered once, and by no thread it joins.                    *)
CancelInv ==
    /\ cancel.step = "none" <=> isRunning
    /\ cancel.step # "again" /\ cancel.by \notin Workers

(* The queue lets go of an operation that is completed; while a producer   *)
(* reports a failure, the queue is not the only one to hold it.            *)
OwnerInv ==
    /\ completed => "queue" \notin owners
    /\ \A p \in Producers :
         pc[p] = "report" /\ "queue" \in owners
             => "saver" \in owners \/ "main" \in owners

(* Cancel() has left when all threads have ended.                          *)
DoneInv == cancel.step = "done" => WorkersDone

JoinInv == CreateInv /\ CancelInv /\ OwnerInv /\ DoneInv /\ ~terminated

Survivable == Faults \cap {"cancelDuringCreate", "lastOwnerIsProducer"} = {}

LEMMA CancelKeeps ==
    ASSUME OperationTypes, CancelInv, NEW t \in {"net", "main", "saver"},
           CancelUploader(t) \/ UNCHANGED <<isRunning, cancel>>
    PROVE  CancelInv' /\ (cancel'.step = "done" => cancel.step = "done")
<1>1. CASE isRunning /\ CancelUploader(t)
  <2>1. ~isRunning' /\ cancel' = [by |-> t, step |-> "notify"]
    BY <1>1 DEF CancelUploader, CancelInv
  <2> QED
    BY <2>1 DEF CancelInv, Workers
<1>2. CASE UNCHANGED <<isRunning, cancel>>
  BY <1>2 DEF CancelInv
<1> QED
  BY <1>1, <1>2 DEF CancelUploader

(* Every step keeps the invariant.                                         *)
LEMMA StepKeepsJoins ==
    ASSUME Types, JoinInv, [Next]_vars, Survivable
    PROVE  JoinInv'
<1> USE DEF durable, workers, network, context
<1>0. /\ "consumer" \in Workers /\ Producers \subseteq Workers
      /\ "consumer" \notin Producers
      /\ OperationTypes /\ WorkerTypes /\ NetworkTypes
  BY DEF Workers, Types, TypeOK
<1>1. CASE Notify
  <2>1. CancelInv'
    BY <1>0, <1>1 DEF Notify, OperationTypes, JoinInv, CancelInv, OwnerInv,
                      CreateInv
  <2> QED
    BY <1>0, <1>1, <2>1 DEF Notify, OperationTypes, JoinInv, CreateInv,
                            CancelInv, OwnerInv, DoneInv,
       WorkersDone
<1>2. CASE Join
  <2>1. CancelInv'
    BY <1>0, <1>2 DEF Join, JoinThrows, OperationTypes, JoinInv, CancelInv,
                      OwnerInv, CreateInv
  <2> QED
    BY <1>0, <1>2, <2>1 DEF Join, JoinThrows, OperationTypes, JoinInv,
                            CreateInv, CancelInv, OwnerInv, DoneInv,
       WorkersDone
<1>3. CASE TestCancelled
  <2>1. CancelInv' /\ (cancel'.step = "done" => cancel.step = "done")
    BY <1>0, <1>3, CancelKeeps DEF TestCancelled, JoinInv, Starter
  <2> QED
    BY <1>0, <1>3, <2>1 DEF TestCancelled, JoinInv, CreateInv, CancelInv,
                            OwnerInv, DoneInv,
       WorkersDone
<1>4. CASE List
  <2>1. CancelInv' /\ (cancel'.step = "done" => cancel.step = "done")
    BY <1>4 DEF List, JoinInv, CancelInv
  <2> QED
    BY <1>0, <1>4, <2>1 DEF List, JoinInv, CreateInv, CancelInv, OwnerInv,
                            DoneInv,
       WorkersDone
<1>5. CASE Start
  <2>1. CancelInv' /\ (cancel'.step = "done" => cancel.step = "done")
    BY <1>0, <1>5, CancelKeeps DEF Start, Leaves, JoinInv, Starter
  <2> QED
    BY <1>0, <1>5, <2>1 DEF Start, Leaves, JoinInv, CreateInv, CancelInv,
                            OwnerInv, DoneInv,
       WorkersDone
<1>6. ASSUME NEW t \in Workers, Sleep(t)
      PROVE  JoinInv'
  <2>1. CancelInv' /\ (cancel'.step = "done" => cancel.step = "done")
    BY <1>6 DEF Sleep, JoinInv, CancelInv
  <2> QED
    BY <1>0, <1>6, <2>1 DEF Sleep, JoinInv, CreateInv, CancelInv, OwnerInv,
                            DoneInv,
       WorkersDone
<1>7. ASSUME NEW p \in Producers, TakeTask(p)
      PROVE  JoinInv'
  <2>1. CancelInv' /\ (cancel'.step = "done" => cancel.step = "done")
    BY <1>7 DEF TakeTask, JoinInv, CancelInv
  <2> QED
    BY <1>0, <1>7, <2>1 DEF TakeTask, Go, WorkerTypes, JoinInv, CreateInv,
                            CancelInv, OwnerInv, DoneInv,
       WorkersDone
<1>8. ASSUME NEW p \in Producers, Compress(p)
      PROVE  JoinInv'
  <2>1. CancelInv' /\ (cancel'.step = "done" => cancel.step = "done")
    BY <1>8 DEF Compress, JoinInv, CancelInv
  <2> QED
    BY <1>0, <1>8, <2>1 DEF Compress, Go, HeldBesides, Survivable,
                            WorkerTypes, JoinInv, CreateInv, CancelInv,
                            OwnerInv, DoneInv,
       WorkersDone
<1>9. ASSUME NEW p \in Producers, ReportFailure(p)
      PROVE  JoinInv'
  <2>0. UNCHANGED <<isRunning, cancel>>
    BY <1>0, <1>9 DEF ReportFailure, Go, Leaves, Complete, WorkerTypes,
                      JoinInv, OwnerInv
  <2>1. CancelInv'
    BY <2>0 DEF JoinInv, CancelInv
  <2> QED
    BY <1>0, <1>9, <2>0, <2>1 DEF ReportFailure, Go, Leaves, Complete,
                                  WorkerTypes, JoinInv, CreateInv, CancelInv,
                                  OwnerInv, DoneInv,
       WorkersDone
<1>10. ASSUME NEW p \in Producers, PushBlockToQueue(p)
      PROVE  JoinInv'
  <2>1. CancelInv' /\ (cancel'.step = "done" => cancel.step = "done")
    BY <1>10 DEF PushBlockToQueue, JoinInv, CancelInv
  <2> QED
    BY <1>0, <1>10, <2>1 DEF PushBlockToQueue, Go, DozeOff, WorkerTypes,
                             JoinInv, CreateInv, CancelInv, OwnerInv, DoneInv,
       WorkersDone
<1>11. CASE PopBlockFromQueue
  <2>1. CancelInv' /\ (cancel'.step = "done" => cancel.step = "done")
    BY <1>11 DEF PopBlockFromQueue, JoinInv, CancelInv
  <2> QED
    BY <1>0, <1>11, <2>1 DEF PopBlockFromQueue, Go, DozeOff, WorkerTypes,
                             JoinInv, CreateInv, CancelInv, OwnerInv, DoneInv,
       WorkersDone
<1>12. CASE TakeSlot
  <2>1. CancelInv' /\ (cancel'.step = "done" => cancel.step = "done")
    BY <1>12 DEF TakeSlot, JoinInv, CancelInv
  <2> QED
    BY <1>0, <1>12, <2>1 DEF TakeSlot, Go, DozeOff, WorkerTypes, JoinInv,
                             CreateInv, CancelInv, OwnerInv, DoneInv,
       WorkersDone
<1>13. CASE Upload
  <2>1. CancelInv' /\ (cancel'.step = "done" => cancel.step = "done")
    BY <1>13 DEF Upload, JoinInv, CancelInv
  <2> QED
    BY <1>0, <1>13, <2>1 DEF Upload, Go, WorkerTypes, JoinInv, CreateInv,
                             CancelInv, OwnerInv, DoneInv,
       WorkersDone
<1>14. ASSUME NEW b \in Blocks, NEW r \in Results, Answer(b, r)
      PROVE  JoinInv'
  <2>1. CancelInv' /\ (cancel'.step = "done" => cancel.step = "done")
    BY <1>14 DEF Answer, JoinInv, CancelInv
  <2> QED
    BY <1>0, <1>14, <2>1 DEF Answer, Ask, FailUpload, Tell, NetFree,
                             AnswerPut, AnswerConfirm, AnswerFail,
                             NetworkTypes, JoinInv, CreateInv, CancelInv,
                             OwnerInv, DoneInv,
       WorkersDone
<1>15. CASE CountBlock
  <2>1. CancelInv' /\ (cancel'.step = "done" => cancel.step = "done")
    BY <1>15 DEF CountBlock, JoinInv, CancelInv
  <2> QED
    BY <1>0, <1>15, <2>1 DEF CountBlock, NetworkTypes, JoinInv, CreateInv,
                             CancelInv, OwnerInv, DoneInv,
       WorkersDone
<1>16. CASE RemoveRow
  <2>1. CancelInv' /\ (cancel'.step = "done" => cancel.step = "done")
    BY <1>16 DEF RemoveRow, JoinInv, CancelInv
  <2> QED
    BY <1>0, <1>16, <2>1 DEF RemoveRow, NetworkTypes, JoinInv, CreateInv,
                             CancelInv, OwnerInv, DoneInv,
       WorkersDone
<1>17. CASE GiveVerdict
  <2>1. CancelInv' /\ (cancel'.step = "done" => cancel.step = "done")
    BY <1>0, <1>17, CancelKeeps DEF GiveVerdict, Leaves, Complete,
                                    NetworkTypes, JoinInv, Starter
  <2> QED
    BY <1>0, <1>17, <2>1 DEF GiveVerdict, Leaves, Complete, NetworkTypes,
                             JoinInv, CreateInv, CancelInv, OwnerInv, DoneInv,
       WorkersDone
<1>18. CASE ReleaseSlot
  <2>1. CancelInv' /\ (cancel'.step = "done" => cancel.step = "done")
    BY <1>18 DEF ReleaseSlot, JoinInv, CancelInv
  <2> QED
    BY <1>0, <1>18, <2>1 DEF ReleaseSlot, NetworkTypes, JoinInv, CreateInv,
                             CancelInv, OwnerInv, DoneInv,
       WorkersDone
<1>19. CASE CancelAfterFailure
  <2>1. CancelInv' /\ (cancel'.step = "done" => cancel.step = "done")
    BY <1>0, <1>19, CancelKeeps DEF CancelAfterFailure, CancelContext,
                                    NetworkTypes, JoinInv, Starter
  <2> QED
    BY <1>0, <1>19, <2>1 DEF CancelAfterFailure, CancelContext, NetworkTypes,
                             JoinInv, CreateInv, CancelInv, OwnerInv, DoneInv,
       WorkersDone
<1>20. CASE LeaveCallback
  <2>1. CancelInv' /\ (cancel'.step = "done" => cancel.step = "done")
    BY <1>0, <1>20, CancelKeeps DEF LeaveCallback, NetworkTypes, JoinInv,
                                    Starter
  <2> QED
    BY <1>0, <1>20, <2>1 DEF LeaveCallback, NetworkTypes, JoinInv, CreateInv,
                             CancelInv, OwnerInv, DoneInv,
       WorkersDone
<1>21. CASE AnswerSync
  <2>1. CancelInv' /\ (cancel'.step = "done" => cancel.step = "done")
    BY <1>0, <1>21, CancelKeeps DEF AnswerSync, Leaves, Complete, JoinInv,
                                    Starter
  <2> QED
    BY <1>0, <1>21, <2>1 DEF AnswerSync, Leaves, Complete, JoinInv,
                             CreateInv, CancelInv, OwnerInv, DoneInv,
       WorkersDone
<1>22. CASE CancelSync
  <2>1. CancelInv' /\ (cancel'.step = "done" => cancel.step = "done")
    BY <1>22 DEF CancelSync, JoinInv, CancelInv
  <2> QED
    BY <1>0, <1>22, <2>1 DEF CancelSync, MayCancel, Survivable, JoinInv,
                             CreateInv, CancelInv, OwnerInv, DoneInv,
       WorkersDone
<1>23. CASE Abort
  <2>1. CancelInv' /\ (cancel'.step = "done" => cancel.step = "done")
    BY <1>23 DEF Abort, JoinInv, CancelInv
  <2> QED
    BY <1>0, <1>23, <2>1 DEF Abort, MayCancel, Survivable, JoinInv,
                             CreateInv, CancelInv, OwnerInv, DoneInv,
       WorkersDone
<1>24. CASE CancelOperation
  <2>1. CancelInv' /\ (cancel'.step = "done" => cancel.step = "done")
    BY <1>0, <1>24, CancelKeeps DEF CancelOperation, CancelContext, JoinInv,
                                    Starter
  <2> QED
    BY <1>0, <1>24, <2>1 DEF CancelOperation, CancelContext, JoinInv,
                             CreateInv, CancelInv, OwnerInv, DoneInv,
       WorkersDone
<1>25. CASE FailOperation
  <2>1. CancelInv' /\ (cancel'.step = "done" => cancel.step = "done")
    BY <1>0, <1>25, CancelKeeps DEF FailOperation, Leaves, Complete, JoinInv,
                                    Starter
  <2> QED
    BY <1>0, <1>25, <2>1 DEF FailOperation, Leaves, Complete, JoinInv,
                             CreateInv, CancelInv, OwnerInv, DoneInv,
       WorkersDone
<1>26. CASE Saved
  <2>1. CancelInv' /\ (cancel'.step = "done" => cancel.step = "done")
    BY <1>0, <1>26, CancelKeeps DEF Saved, Leaves, NobodyReports, Survivable,
                                    JoinInv, Starter
  <2> QED
    BY <1>0, <1>26, <2>1 DEF Saved, Leaves, NobodyReports, Survivable,
                             JoinInv, CreateInv, CancelInv, OwnerInv, DoneInv,
       WorkersDone
<1>27. CASE Restart
  <2>1. CancelInv'
    BY <1>0, <1>27 DEF Restart, Idle, Workers, NoOne, JoinInv, CancelInv,
                       OwnerInv, CreateInv
  <2> QED
    BY <1>0, <1>27, <2>1 DEF Restart, Idle, Workers, NoOne, JoinInv,
                             CreateInv, CancelInv, OwnerInv, DoneInv,
       WorkersDone
<1>28. CASE UNCHANGED vars
  BY <1>28 DEF vars, JoinInv, CreateInv, CancelInv, OwnerInv, DoneInv,
               WorkersDone
<1> QED
  BY <1>1, <1>2, <1>3, <1>4, <1>5, <1>6, <1>7, <1>8, <1>9, <1>10, <1>11,
     <1>12, <1>13, <1>14, <1>15, <1>16, <1>17, <1>18, <1>19, <1>20, <1>21,
     <1>22, <1>23, <1>24, <1>25, <1>26, <1>27, <1>28
     DEF Next, WorkerStep, NetStep, CreateStep, MainStep

-----------------------------------------------------------------------------
(* Resuming                                                                *)

(* The callback of a success is about a block the server has confirmed.    *)
RowInv == cb.at \in {"count", "row"} /\ cb.result = "ok"
              => cb.block \in uploaded

(* Every step keeps the rows an interrupted upload is resumed from.        *)
LEMMA StepKeepsRows ==
    ASSUME Types, RowInv, RowsCoverMissing, [Next]_vars
    PROVE  RowInv' /\ RowsCoverMissing'
<1> USE DEF durable, workers, network, context, RowInv, RowsCoverMissing
<1>0. DurableTypes /\ NetworkTypes
  BY DEF Types, TypeOK
<1>1. ASSUME UNCHANGED <<uploaded, synced, pending, snapshotRow, refused, cb>>
      PROVE  RowInv' /\ RowsCoverMissing'
  BY <1>1
<1>2. ASSUME NEW t \in Workers, WorkerStep(t)
      PROVE  RowInv' /\ RowsCoverMissing'
  <2>1. ASSUME NEW p \in Producers, ReportFailure(p)
        PROVE  RowInv' /\ RowsCoverMissing'
    BY <1>0, <2>1 DEF ReportFailure, DurableTypes
  <2>2. CASE UNCHANGED <<uploaded, synced, pending, snapshotRow, refused, cb>>
    BY <1>1, <2>2
  <2> QED
    BY <1>2, <2>1, <2>2
       DEF WorkerStep, Sleep, TakeTask, Compress, PushBlockToQueue,
           PopBlockFromQueue, TakeSlot, Upload
<1>3. ASSUME NEW b \in Blocks, NEW r \in Results, Answer(b, r)
      PROVE  RowInv' /\ RowsCoverMissing'
  <2>1. uploaded \subseteq uploaded'
    BY <1>3 DEF Answer, AnswerPut, AnswerConfirm, AnswerFail
  <2>2. UNCHANGED <<synced, pending, snapshotRow, refused>>
    BY <1>3 DEF Answer
  <2>3. CASE UNCHANGED cb
    BY <2>1, <2>2, <2>3
  <2>4. CASE cb' = Idle
    BY <2>1, <2>2, <2>4 DEF Idle
  <2>5. CASE cb' = [Idle EXCEPT !.at = "count", !.block = b, !.result = r]
    <3>1. cb'.block = b /\ cb'.result = r
      BY <2>5 DEF Idle
    <3>2. r = "ok" => b \in uploaded' \/ UNCHANGED cb
      BY <1>3 DEF Answer, AnswerPut, AnswerConfirm, AnswerFail
    <3> QED
      BY <2>1, <2>2, <2>3, <3>1, <3>2
  <2> QED
    BY <1>3, <2>3, <2>4, <2>5, Zenon
       DEF Answer, AnswerPut, AnswerConfirm, AnswerFail, FailUpload, Tell
<1>4. CASE CountBlock
  BY <1>0, <1>4 DEF CountBlock, NetworkTypes
<1>5. CASE RemoveRow
  <2>1. /\ cb.at = "row" /\ cb'.at \in {"release", "verdict"} /\ uploaded' = uploaded
        /\ pending' = pending \/ (pending' = pending \ {cb.block} /\ RowGoes(cb.result))
        /\ refused' = refused \/ refused' = (refused \/ cb.result \in BeyondRecovery)
        /\ pending' = pending \ {cb.block} /\ pending' # pending
               => refused' = (refused \/ cb.result \in BeyondRecovery)
    BY <1>0, <1>5 DEF RemoveRow, NetworkTypes
  <2>2. refused => refused'
    BY <2>1
  <2>3. RowsCoverMissing'
    BY <2>1, <2>2 DEF RowGoes
  <2> QED
    BY <2>1, <2>3
<1>6. CASE GiveVerdict \/ ReleaseSlot \/ CancelAfterFailure \/ LeaveCallback
  BY <1>0, <1>6 DEF GiveVerdict, ReleaseSlot, CancelAfterFailure,
                    LeaveCallback,
                    NetworkTypes, Idle
<1>7. CASE AnswerSync
  BY <1>0, <1>7 DEF AnswerSync, Heard, DurableTypes
<1>8. CASE \/ CreateStep \/ Notify \/ Join \/ CancelSync \/ Abort \/ MainStep
           \/ Saved
  <2>1. UNCHANGED <<uploaded, synced, pending, snapshotRow, refused, cb>>
    BY <1>8 DEF CreateStep, TestCancelled, List, Start, Notify, Join,
                CancelSync, Abort, MainStep, CancelOperation, FailOperation,
                Saved
  <2> QED
    BY <1>1, <2>1
<1>9. CASE Restart
  BY <1>9 DEF Restart, Idle
<1>10. CASE UNCHANGED vars
  BY <1>1, <1>10 DEF vars
<1> QED
  BY <1>2, <1>3, <1>4, <1>5, <1>6, <1>7, <1>8, <1>9, <1>10 DEF Next, NetStep

(* And the row of the snapshot, if the server hears the request of which   *)
(* the answer is lost.                                                     *)
LEMMA StepKeepsSnapshotRow ==
    ASSUME snapshotRow \/ synced, [Next]_vars, "syncRequestLost" \notin Faults
    PROVE  snapshotRow' \/ synced'
<1> USE DEF durable
<1>1. CASE AnswerSync
  BY <1>1 DEF AnswerSync, Heard
<1>2. CASE UNCHANGED <<snapshotRow, synced>>
  BY <1>2
<1> QED
  BY <1>1, <1>2
  DEF Next, WorkerStep, Sleep, TakeTask, Compress, ReportFailure, PushBlockToQueue,
      PopBlockFromQueue, TakeSlot, Upload, NetStep, Answer, CountBlock, RemoveRow,
      GiveVerdict, ReleaseSlot, CancelAfterFailure, LeaveCallback, CreateStep,
      TestCancelled, List, Start, Notify, Join, CancelSync, Abort, MainStep,
      CancelOperation, FailOperation, Saved, Restart, vars

-----------------------------------------------------------------------------
(* Where the blocks are: a block waits for a producer, is held by one      *)
(* worker, is in the ring once, or has left for the network; it comes back *)
(* in one callback.                                                        *)

InRing(b) == \E i \in 1 .. Len(ring) : ring[i] = b
Holding(t) == pc[t] \in {"compress", "push", "slot", "upload"}

PlaceInv ==
    /\ \A b \in Blocks : b \in todo \/ InRing(b) => request[b] = "none"
    /\ \A b \in todo : ~InRing(b)
    /\ \A i, j \in 1 .. Len(ring) : ring[i] = ring[j] => i = j
    /\ \A t \in Workers : Holding(t) =>
         /\ hold[t] \in Blocks \ todo /\ request[hold[t]] = "none" /\ ~InRing(hold[t])
         /\ \A u \in Workers : Holding(u) /\ hold[u] = hold[t] => u = t
    /\ creating # "made" => \A t \in Workers : pc[t] = "none"

(* A block calls back once: when its upload has failed for good, or closed. *)
CallInv ==
    /\ cb.at # "idle" => cb.block \in Blocks /\ request[cb.block] \in {"fail", "closed"}
    /\ \A b \in Blocks : /\ request[b] \in {"none", "put", "confirm"} => b \notin told
                         /\ request[b] = "fail" => b \in told

(* What the ring holds after a push and after a pop.                       *)
LEMMA RingPushed ==
    ASSUME ring \in Seq(Blocks), NEW b \in Blocks, ring' = Append(ring, b)
    PROVE  /\ \A c : InRing(c)' <=> InRing(c) \/ c = b
           /\ (\A i, j \in 1 .. Len(ring) : ring[i] = ring[j] => i = j) /\ ~InRing(b)
                => \A i, j \in 1 .. Len(ring') : ring'[i] = ring'[j] => i = j
<1>1. /\ Len(ring) \in Nat /\ Len(ring') = Len(ring) + 1
      /\ ring'[Len(ring) + 1] = b
      /\ \A i \in 1 .. Len(ring) : ring'[i] = ring[i]
  BY AppendProperties
<1>2. \A n \in Nat : \A i \in 1 .. n + 1 : i = n + 1 \/ i \in 1 .. n
  OBVIOUS
<1>3. \A i \in 1 .. Len(ring') : i = Len(ring) + 1 \/ i \in 1 .. Len(ring)
  BY <1>1, <1>2
<1>4. 1 .. Len(ring) \subseteq 1 .. Len(ring') /\ Len(ring) + 1 \in 1 .. Len(ring')
  BY <1>1
<1>5. \A c : InRing(c)' <=> InRing(c) \/ c = b
  BY <1>1, <1>3, <1>4, Zenon DEF InRing
<1>6. ASSUME \A i, j \in 1 .. Len(ring) : ring[i] = ring[j] => i = j, ~InRing(b),
             NEW i \in 1 .. Len(ring'), NEW j \in 1 .. Len(ring'), ring'[i] = ring'[j]
      PROVE  i = j
  <2>1. \A k \in 1 .. Len(ring) : ring[k] # b
    BY <1>6 DEF InRing
  <2>2. CASE i \in 1 .. Len(ring) /\ j \in 1 .. Len(ring)
    BY <1>1, <1>6, <2>2
  <2>3. CASE i = Len(ring) + 1 \/ j = Len(ring) + 1
    BY <1>1, <1>3, <1>6, <2>1, <2>3
  <2> QED
    BY <1>3, <2>2, <2>3
<1> QED
  BY <1>5, <1>6

LEMMA RingPopped ==
    ASSUME ring \in Seq(Blocks), ring # <<>>, NEW b, b = Head(ring), ring' = Tail(ring),
           \A i, j \in 1 .. Len(ring) : ring[i] = ring[j] => i = j
    PROVE  /\ b \in Blocks /\ InRing(b) /\ ~InRing(b)'
           /\ \A c : InRing(c)' => InRing(c)
           /\ \A i, j \in 1 .. Len(ring') : ring'[i] = ring'[j] => i = j
<1>1. /\ Len(ring) \in Nat \ {0} /\ Len(ring') = Len(ring) - 1
      /\ b = ring[1] /\ b \in Blocks
      /\ \A i \in 1 .. Len(ring) - 1 : ring'[i] = ring[i + 1]
  BY HeadTailProperties, EmptySeq
<1>2. \A n \in Nat \ {0} : 1 \in 1 .. n /\ \A i \in 1 .. n - 1 : i + 1 \in 1 .. n /\ i + 1 # 1
  OBVIOUS
<1>3. 1 \in 1 .. Len(ring) /\ \A i \in 1 .. Len(ring') : i + 1 \in 1 .. Len(ring) /\ i + 1 # 1
  BY <1>1, <1>2
<1>4. \A i, j \in 1 .. Len(ring') : i + 1 = j + 1 => i = j
  OBVIOUS
<1>5. \A c : InRing(c)' => InRing(c)
  BY <1>1, <1>3, Zenon DEF InRing
<1>6. InRing(b) /\ ~InRing(b)'
  <2>1. InRing(b)
    BY <1>1, <1>3, Zenon DEF InRing
  <2>2. ASSUME NEW i \in 1 .. Len(ring'), ring'[i] = b
        PROVE  FALSE
    <3>1. ring[i + 1] = ring[1] /\ i + 1 \in 1 .. Len(ring) /\ 1 \in 1 .. Len(ring)
      BY <1>1, <1>3, <2>2
    <3> QED
      BY <1>3, <3>1
  <2>3. ~InRing(b)'
    BY <1>1, <2>2 DEF InRing
  <2> QED
    BY <2>1, <2>3
<1>7. ASSUME NEW i \in 1 .. Len(ring'), NEW j \in 1 .. Len(ring'), ring'[i] = ring'[j]
      PROVE  i = j
  <2>1. ring[i + 1] = ring[j + 1]
    BY <1>1, <1>7
  <2> QED
    BY <1>3, <1>4, <2>1
<1> QED
  BY <1>1, <1>5, <1>6, <1>7

(* Every step keeps the places, whatever the faults.                       *)
LEMMA StepKeepsPlaces ==
    ASSUME Types, PlaceInv, CallInv, [Next]_vars
    PROVE  PlaceInv' /\ CallInv'
<1> USE DEF durable, workers, network, context
<1>0. /\ "consumer" \in Workers /\ Producers \subseteq Workers
      /\ "consumer" \notin Producers
      /\ WorkerTypes /\ NetworkTypes /\ HoldInv
  BY DEF Workers, Types, TypeOK
(* Steps that leave every block where it is, or let a worker drop one.     *)
<1>1. ASSUME UNCHANGED <<todo, ring, request, told>>,
             \A t \in Workers : Holding(t)' => Holding(t) /\ hold'[t] = hold[t],
             cb'.at # "idle" => cb.at # "idle" /\ cb'.block = cb.block,
             creating' # "made" => creating # "made" /\ pc' = pc
      PROVE  PlaceInv' /\ CallInv'
  <2>1. \A b : InRing(b)' <=> InRing(b)
    BY <1>1 DEF InRing
  <2>2. PlaceInv'
    BY <1>1, <2>1 DEF PlaceInv
  <2>3. CallInv'
    BY <1>1 DEF CallInv
  <2> QED
    BY <2>2, <2>3
(* A step of a worker that drops its block or goes on with it.             *)
<1>2. ASSUME NEW t \in Workers, NEW s, NEW b, Go(t, s, b),
             s \notin {"compress", "push", "slot", "upload"} \/ (Holding(t) /\ b = hold[t]),
             pc[t] # "none",
             UNCHANGED <<todo, ring, request, told, cb, creating>>
      PROVE  PlaceInv' /\ CallInv'
  <2>1. /\ pc'[t] = s /\ hold'[t] = b
        /\ \A u \in Workers \ {t} : pc'[u] = pc[u] /\ hold'[u] = hold[u]
    BY <1>0, <1>2 DEF Go, WorkerTypes
  <2>2. \A u \in Workers : Holding(u)' => Holding(u) /\ hold'[u] = hold[u]
    BY <1>2, <2>1 DEF Holding
  <2>3. creating = "made"
    BY <1>2 DEF PlaceInv
  <2> QED
    BY <1>1, <1>2, <2>2, <2>3
<1>3. ASSUME UNCHANGED <<todo, ring, request, told, pc, hold>>,
             cb'.at # "idle" => cb.at # "idle" /\ cb'.block = cb.block,
             creating' # "made" => creating # "made"
      PROVE  PlaceInv' /\ CallInv'
  BY <1>1, <1>3 DEF Holding
<1>4. CASE \/ Notify \/ Join \/ TestCancelled \/ List \/ CancelSync \/ Abort
           \/ MainStep \/ Saved \/ AnswerSync \/ (\E t \in Workers : Sleep(t))
  BY <1>3, <1>4
  DEF Notify, Join, TestCancelled, List, CancelSync, Abort, MainStep,
      CancelOperation, FailOperation, Saved, AnswerSync, Sleep
<1>5. CASE Start
  BY <1>1, <1>5 DEF Start, Holding
<1>6. CASE \/ CountBlock \/ RemoveRow \/ GiveVerdict \/ ReleaseSlot
           \/ CancelAfterFailure \/ LeaveCallback
  <2>1. UNCHANGED <<todo, ring, request, told, pc, hold, creating>>
    BY <1>6
    DEF CountBlock, RemoveRow, GiveVerdict, ReleaseSlot, CancelAfterFailure, LeaveCallback
  <2>2. cb'.at # "idle" => cb.at # "idle" /\ cb'.block = cb.block
    <3>1. CASE LeaveCallback
      BY <3>1 DEF LeaveCallback, Idle
    <3>2. CASE CountBlock \/ RemoveRow \/ GiveVerdict \/ ReleaseSlot \/ CancelAfterFailure
      <4>1. /\ cb.at # "idle"
            /\ \E a, v : cb' = [cb EXCEPT !.at = a] \/ cb' = [cb EXCEPT !.at = a, !.verdict = v]
        BY <3>2 DEF CountBlock, RemoveRow, GiveVerdict, ReleaseSlot, CancelAfterFailure
      <4> QED
        BY <1>0, <4>1 DEF NetworkTypes
    <3> QED
      BY <1>6, <3>1, <3>2
  <2> QED
    BY <1>3, <2>1, <2>2
<1>7. ASSUME NEW p \in Producers, TakeTask(p)
      PROVE  PlaceInv' /\ CallInv'
  <2>1. CASE Go(p, "done", NoBlock) /\ UNCHANGED todo
    BY <1>0, <1>2, <1>7, <2>1 DEF TakeTask
  <2>2. ASSUME NEW b \in todo, todo' = todo \ {b}, Go(p, "compress", b)
        PROVE  PlaceInv' /\ CallInv'
    <3>1. /\ pc'[p] = "compress" /\ hold'[p] = b
          /\ \A u \in Workers \ {p} : pc'[u] = pc[u] /\ hold'[u] = hold[u]
      BY <1>0, <2>2 DEF Go, WorkerTypes
    <3>2. UNCHANGED <<ring, request, told, cb, creating>> /\ creating = "made"
      BY <1>0, <1>7 DEF TakeTask, PlaceInv
    <3>3. \A c : InRing(c)' <=> InRing(c)
      BY <3>2 DEF InRing
    <3>4. b \in Blocks /\ request[b] = "none" /\ ~InRing(b)
      BY <1>0, <2>2 DEF PlaceInv, WorkerTypes
    <3>5. \A u \in Workers \ {p} : Holding(u) => hold[u] # b
      BY <2>2 DEF PlaceInv
    <3>6. PlaceInv'
      BY <1>0, <2>2, <3>1, <3>2, <3>3, <3>4, <3>5 DEF PlaceInv, Holding
    <3> QED
      BY <3>2, <3>6 DEF CallInv
  <2> QED
    BY <1>7, <2>1, <2>2 DEF TakeTask
<1>8. ASSUME NEW p \in Producers, Compress(p)
      PROVE  PlaceInv' /\ CallInv'
  <2>1. Holding(p) /\ UNCHANGED <<todo, ring, request, told, cb, creating>> /\ pc[p] # "none"
    BY <1>8 DEF Compress, Holding
  <2>2. Go(p, "push", hold[p]) \/ Go(p, "report", hold[p])
    BY <1>8 DEF Compress
  <2> QED
    BY <1>0, <1>2, <2>1, <2>2
<1>9. ASSUME NEW p \in Producers, ReportFailure(p)
      PROVE  PlaceInv' /\ CallInv'
  BY <1>0, <1>2, <1>9 DEF ReportFailure
<1>10. ASSUME NEW p \in Producers, PushBlockToQueue(p)
       PROVE  PlaceInv' /\ CallInv'
  <2>0. pc[p] = "push" /\ UNCHANGED <<todo, request, told, cb, creating>>
    BY <1>10 DEF PushBlockToQueue
  <2>1. CASE Go(p, "loop", NoBlock) /\ UNCHANGED ring
    BY <1>0, <1>2, <2>0, <2>1
  <2>2. CASE UNCHANGED <<ring, pc, hold>>
    BY <1>3, <2>0, <2>2
  <2>3. CASE Go(p, "loop", NoBlock) /\ ring' = Append(ring, hold[p])
    <3> DEFINE b == hold[p]
    <3>1. /\ pc'[p] = "loop"
          /\ \A u \in Workers \ {p} : pc'[u] = pc[u] /\ hold'[u] = hold[u]
      BY <1>0, <2>3 DEF Go, WorkerTypes
    <3>2. /\ b \in Blocks \ todo /\ request[b] = "none" /\ ~InRing(b)
          /\ \A u \in Workers \ {p} : Holding(u) => hold[u] # b
          /\ creating = "made"
      BY <1>0, <2>0 DEF PlaceInv, Holding
    <3> HIDE DEF b
    <3>3. ring' = Append(ring, b) /\ ring \in Seq(Blocks)
      BY <1>0, <2>3 DEF b, WorkerTypes
    <3>4. /\ \A c : InRing(c)' <=> InRing(c) \/ c = b
          /\ \A i, j \in 1 .. Len(ring') : ring'[i] = ring'[j] => i = j
      BY <3>2, <3>3, RingPushed DEF PlaceInv
    <3>5. PlaceInv'
      BY <2>0, <3>1, <3>2, <3>4 DEF PlaceInv, Holding
    <3> QED
      BY <2>0, <3>5 DEF CallInv
  <2> QED
    BY <1>10, <2>1, <2>2, <2>3 DEF PushBlockToQueue, DozeOff
<1>11. CASE PopBlockFromQueue
  <2>0. pc["consumer"] = "pop" /\ UNCHANGED <<todo, request, told, cb, creating>>
    BY <1>11 DEF PopBlockFromQueue
  <2>1. CASE Go("consumer", "done", NoBlock) /\ UNCHANGED ring
    BY <1>0, <1>2, <2>0, <2>1
  <2>2. CASE UNCHANGED <<ring, pc, hold>>
    BY <1>3, <2>0, <2>2
  <2>3. CASE Go("consumer", "slot", Head(ring)) /\ ring' = Tail(ring) /\ ring # <<>>
    <3>1. PICK first \in Blocks : first = Head(ring)
      BY <1>0, <2>3, HeadTailProperties DEF WorkerTypes
    <3>2. /\ pc'["consumer"] = "slot" /\ hold'["consumer"] = first
          /\ \A u \in Workers \ {"consumer"} : pc'[u] = pc[u] /\ hold'[u] = hold[u]
      BY <1>0, <2>3, <3>1 DEF Go, WorkerTypes
    <3>3. /\ first \in Blocks /\ InRing(first) /\ ~InRing(first)'
          /\ \A c : InRing(c)' => InRing(c)
          /\ \A i, j \in 1 .. Len(ring') : ring'[i] = ring'[j] => i = j
      BY <1>0, <2>3, <3>1, RingPopped DEF PlaceInv, WorkerTypes
    <3>4. /\ first \notin todo /\ request[first] = "none" /\ creating = "made"
          /\ \A u \in Workers : Holding(u) => hold[u] # first
      BY <1>0, <2>0, <3>3 DEF PlaceInv
    <3>5. PlaceInv'
      BY <2>0, <3>2, <3>3, <3>4 DEF PlaceInv, Holding
    <3> QED
      BY <2>0, <3>5 DEF CallInv
  <2> QED
    BY <1>11, <2>1, <2>2, <2>3 DEF PopBlockFromQueue, DozeOff
<1>12. CASE TakeSlot
  <2>0. /\ pc["consumer"] = "slot" /\ Holding("consumer")
        /\ UNCHANGED <<todo, ring, request, told, cb, creating>>
    BY <1>12 DEF TakeSlot, Holding
  <2>1. \/ Go("consumer", "done", NoBlock)
        \/ Go("consumer", "upload", hold["consumer"])
        \/ UNCHANGED <<pc, hold>>
    BY <1>12 DEF TakeSlot, DozeOff
  <2> QED
    BY <1>0, <1>2, <1>3, <2>0, <2>1
<1>13. CASE Upload
  <2> DEFINE b == hold["consumer"]
  <2>1. /\ pc'["consumer"] = "pop"
        /\ \A u \in Workers \ {"consumer"} : pc'[u] = pc[u] /\ hold'[u] = hold[u]
    BY <1>0, <1>13 DEF Upload, Go, WorkerTypes
  <2>2. /\ UNCHANGED <<todo, ring, told, cb, creating>>
        /\ pc["consumer"] = "upload" /\ request' = [request EXCEPT ![b] = "put"]
    BY <1>13 DEF Upload
  <2>3. /\ b \in Blocks \ todo /\ request[b] = "none" /\ ~InRing(b)
        /\ \A u \in Workers \ {"consumer"} : Holding(u) => hold[u] # b
        /\ creating = "made"
    BY <1>0, <2>2 DEF PlaceInv, Holding
  <2> HIDE DEF b
  <2>4. request'[b] = "put" /\ \A c \in Blocks \ {b} : request'[c] = request[c]
    BY <1>0, <2>2, <2>3 DEF NetworkTypes
  <2>5. \A c : InRing(c)' <=> InRing(c)
    BY <2>2 DEF InRing
  <2>6. PlaceInv'
    BY <2>1, <2>2, <2>3, <2>4, <2>5 DEF PlaceInv, Holding
  <2>7. CallInv'
    BY <2>2, <2>3, <2>4 DEF CallInv
  <2> QED
    BY <2>6, <2>7
<1>14. ASSUME NEW b \in Blocks, NEW r \in Results, Answer(b, r)
       PROVE  PlaceInv' /\ CallInv'
  <2>1. /\ UNCHANGED <<todo, ring, pc, hold, creating>> /\ cb.at = "idle"
        /\ request[b] \in {"put", "confirm", "fail"}
    BY <1>14 DEF Answer, NetFree, AnswerPut, AnswerConfirm, AnswerFail
  <2>2. \E s \in {"put", "confirm", "fail", "closed"} :
          /\ request' = [request EXCEPT ![b] = s]
          /\ s \in {"put", "confirm"} => request[b] \in {"put", "confirm"} /\ told' = told
          /\ s = "fail" => told' = told \cup {b}
          /\ s = "closed" => told' = told
          /\ cb' = cb \/ cb' = Idle
             \/ (cb'.block = b /\ s \in {"fail", "closed"})
    BY <1>14
    DEF Answer, AnswerPut, AnswerConfirm, AnswerFail, FailUpload, Ask, Tell, Idle
  <2>3. PICK s \in {"put", "confirm", "fail", "closed"} :
          /\ request'[b] = s /\ \A c \in Blocks \ {b} : request'[c] = request[c]
          /\ s \in {"put", "confirm"} => request[b] \in {"put", "confirm"} /\ told' = told
          /\ s = "fail" => told' = told \cup {b}
          /\ s = "closed" => told' = told
          /\ cb' = cb \/ cb' = Idle
             \/ (cb'.block = b /\ s \in {"fail", "closed"})
    BY <1>0, <2>2 DEF NetworkTypes
  <2>4. \A c : InRing(c)' <=> InRing(c)
    BY <2>1 DEF InRing
  <2>5. /\ b \notin todo /\ ~InRing(b)
        /\ \A t \in Workers : Holding(t)
               => hold[t] \in Blocks \ {b} /\ request[hold[t]] = "none"
    BY <2>1 DEF PlaceInv
  <2>6. \A t \in Workers : Holding(t)' <=> Holding(t)
    BY <2>1 DEF Holding
  <2>7. PlaceInv'
    <3>1. \A c \in Blocks : c \in todo' \/ InRing(c)' => request'[c] = "none"
      BY <2>1, <2>3, <2>4, <2>5 DEF PlaceInv
    <3>2. \A t \in Workers : Holding(t)' => request'[hold'[t]] = "none"
      BY <2>1, <2>3, <2>5, <2>6
    <3> QED
      BY <2>1, <2>4, <2>6, <3>1, <3>2 DEF PlaceInv
  <2>8. CallInv'
    BY <2>1, <2>3 DEF CallInv, Idle
  <2> QED
    BY <2>7, <2>8
<1>15. CASE Restart
  <2>1. /\ ring' = <<>> /\ \A t \in Workers : pc'[t] = "none"
        /\ \A b \in Blocks : request'[b] = "none"
        /\ told' = {} /\ cb'.at = "idle" /\ todo' \subseteq Blocks
    BY <1>15 DEF Restart, Idle, Types, TypeOK, DurableTypes
  <2>2. \A b : ~InRing(b)'
    BY <2>1 DEF InRing
  <2> QED
    BY <2>1, <2>2 DEF PlaceInv, CallInv, Holding
<1>16. CASE UNCHANGED vars
  BY <1>3, <1>16 DEF vars
<1> QED
  BY <1>4, <1>5, <1>6, <1>7, <1>8, <1>9, <1>10, <1>11, <1>12, <1>13, <1>14, <1>15, <1>16
  DEF Next, WorkerStep, NetStep, CreateStep

-----------------------------------------------------------------------------
(* Upload slots                                                            *)

(* Every step keeps the count of the slots, whatever the faults.           *)
LEMMA StepKeepsSlots ==
    ASSUME Types, PlaceInv, CallInv, SlotsAccounted, [Next]_vars
    PROVE  SlotsAccounted'
<1> USE DEF durable, workers, network, context
<1>0. /\ "consumer" \in Workers /\ Producers \subseteq Workers
      /\ "consumer" \notin Producers /\ NoBlock \notin Blocks
      /\ WorkerTypes /\ NetworkTypes /\ MaxUploads \in Nat \ {0}
  BY DEF Workers, Types, TypeOK, NoBlock
<1>a. slots \in Int /\ IsFiniteSet(Uploading) /\ Cardinality(Uploading) \in Nat
  <2>1. Uploading \subseteq Blocks
    BY DEF Uploading
  <2> QED
    BY <1>0, <2>1, FS_Subset, FS_CardinalityType DEF WorkerTypes
(* Steps after which the same blocks are uploading.                        *)
<1>1. ASSUME slots' = slots, owners' # {} => owners # {}, Uploading' = Uploading
      PROVE  SlotsAccounted'
  BY <1>1 DEF SlotsAccounted
<1>2. ASSUME UNCHANGED <<slots, request, cb>>, owners' # {} => owners # {},
             pc["consumer"] = "upload" \/ pc'["consumer"] = "upload"
                 => pc'["consumer"] = pc["consumer"] /\ hold'["consumer"] = hold["consumer"]
      PROVE  SlotsAccounted'
  <2>1. Uploading' = Uploading
    BY <1>2 DEF Uploading
  <2> QED
    BY <1>1, <1>2, <2>1
<1>3. CASE \/ Notify \/ Join \/ TestCancelled \/ List \/ CancelSync \/ Abort
           \/ MainStep \/ Saved \/ AnswerSync \/ (\E t \in Workers : Sleep(t))
  <2>1. UNCHANGED <<slots, request, cb, pc, hold>>
    BY <1>3
    DEF Notify, Join, TestCancelled, List, CancelSync, Abort, MainStep,
        CancelOperation, FailOperation, Saved, AnswerSync, Sleep
  <2>2. owners' # {} => owners # {}
    BY <1>3
    DEF Notify, Join, TestCancelled, List, CancelSync, Abort, MainStep,
        CancelOperation, FailOperation, Saved, AnswerSync, Sleep, Leaves, Complete
  <2> QED
    BY <1>2, <2>1, <2>2
<1>4. CASE Start
  <2>1. pc'["consumer"] = "pop" /\ pc["consumer"] = "none"
    BY <1>0, <1>4 DEF Start, PlaceInv
  <2> QED
    BY <1>2, <1>4, <2>1 DEF Start, Leaves
<1>5. ASSUME NEW p \in Producers,
             TakeTask(p) \/ Compress(p) \/ ReportFailure(p) \/ PushBlockToQueue(p)
      PROVE  SlotsAccounted'
  <2>1. (\E s, b : Go(p, s, b)) \/ UNCHANGED <<pc, hold>>
    BY <1>5 DEF TakeTask, Compress, ReportFailure, PushBlockToQueue, DozeOff
  <2>2. pc'["consumer"] = pc["consumer"] /\ hold'["consumer"] = hold["consumer"]
    BY <1>0, <2>1 DEF Go, WorkerTypes
  <2>3. UNCHANGED <<slots, request, cb>> /\ (owners' # {} => owners # {})
    BY <1>5
    DEF TakeTask, Compress, ReportFailure, PushBlockToQueue, Leaves, Complete
  <2> QED
    BY <1>2, <2>2, <2>3
<1>6. CASE PopBlockFromQueue
  <2>1. pc["consumer"] = "pop" /\ pc'["consumer"] \in {"done", "slot", "pop"}
    BY <1>0, <1>6 DEF PopBlockFromQueue, Go, DozeOff, WorkerTypes
  <2> QED
    BY <1>2, <1>6, <2>1 DEF PopBlockFromQueue
<1>7. CASE TakeSlot
  <2>0. /\ pc["consumer"] = "slot" /\ Holding("consumer")
        /\ UNCHANGED <<request, cb, owners>>
    BY <1>7 DEF TakeSlot, Holding
  <2>1. CASE slots' = slots /\ pc'["consumer"] # "upload"
    BY <1>2, <2>0, <2>1
  <2>2. CASE slots < MaxUploads /\ slots' = slots + 1
             /\ Go("consumer", "upload", hold["consumer"])
    <3> DEFINE b == hold["consumer"]
    <3>1. pc'["consumer"] = "upload" /\ hold'["consumer"] = b
      BY <1>0, <2>2 DEF Go, WorkerTypes
    <3>2. b \in Blocks /\ request[b] = "none"
      BY <1>0, <2>0 DEF PlaceInv
    <3> HIDE DEF b
    <3>3. b \notin Uploading
      BY <2>0, <3>2 DEF Uploading, CallInv
    <3>4. Uploading' = Uploading \cup {b}
      BY <2>0, <3>1, <3>2 DEF Uploading
    <3>5. Cardinality(Uploading') = Cardinality(Uploading) + 1
      BY <1>a, <3>3, <3>4, FS_AddElement
    <3> QED
      BY <1>0, <1>a, <2>0, <2>2, <3>5 DEF SlotsAccounted
  <2> QED
    BY <1>0, <1>7, <2>0, <2>1, <2>2 DEF TakeSlot, Go, DozeOff, WorkerTypes
<1>8. CASE Upload
  <2> DEFINE b == hold["consumer"]
  <2>1. /\ pc["consumer"] = "upload" /\ UNCHANGED <<slots, cb, owners>>
        /\ request' = [request EXCEPT ![b] = "put"] /\ pc'["consumer"] = "pop"
    BY <1>0, <1>8 DEF Upload, Go, WorkerTypes
  <2>2. b \in Blocks
    BY <1>0, <2>1 DEF PlaceInv, Holding
  <2> HIDE DEF b
  <2>3. request'[b] = "put" /\ \A c \in Blocks \ {b} : request'[c] = request[c]
    BY <1>0, <2>1, <2>2 DEF NetworkTypes
  <2>4. Uploading' = Uploading
    BY <2>1, <2>2, <2>3 DEF Uploading, b
  <2> QED
    BY <1>1, <2>1, <2>4
<1>9. ASSUME NEW b \in Blocks, NEW r \in Results, Answer(b, r)
      PROVE  SlotsAccounted'
  <2>1. UNCHANGED <<slots, owners, pc, hold>> /\ cb.at = "idle"
    BY <1>9 DEF Answer, NetFree
  <2>2. CASE owners = {}
    BY <2>1, <2>2 DEF SlotsAccounted
  <2>3. CASE owners # {}
    <3>1. \E s \in {"put", "confirm", "fail", "closed"} :
            /\ request' = [request EXCEPT ![b] = s]
            /\ IF s \in {"put", "confirm"}
               THEN request[b] \in {"put", "confirm"} /\ cb' = cb
               ELSE IF request[b] \in {"put", "confirm"}
                    THEN cb'.at = "count" /\ cb'.block = b
                    ELSE cb' = cb
      <4>1. /\ request[b] \in {"put", "confirm"} => b \notin told
            /\ request[b] = "fail" => b \in told
        BY DEF CallInv
      <4> QED
        BY <1>9, <2>3, <4>1
        DEF Answer, AnswerPut, AnswerConfirm, AnswerFail, FailUpload, Ask, Tell, Idle
    <3>2. PICK s \in {"put", "confirm", "fail", "closed"} :
            /\ request'[b] = s /\ \A c \in Blocks \ {b} : request'[c] = request[c]
            /\ IF s \in {"put", "confirm"}
               THEN request[b] \in {"put", "confirm"} /\ cb' = cb
               ELSE IF request[b] \in {"put", "confirm"}
                    THEN cb'.at = "count" /\ cb'.block = b
                    ELSE cb' = cb
      BY <1>0, <3>1 DEF NetworkTypes
    <3>3. Uploading' = Uploading
      BY <2>1, <3>2 DEF Uploading
    <3> QED
      BY <1>1, <2>1, <3>3
  <2> QED
    BY <2>2, <2>3
<1>10. CASE CountBlock \/ RemoveRow \/ GiveVerdict
  <2>1. /\ cb.at \in {"count", "row", "verdict"}
        /\ cb'.at \in {"row", "verdict", "release"} /\ cb'.block = cb.block
    <3>1. \E a \in {"row", "verdict", "release"} :
            \/ cb' = [cb EXCEPT !.at = a]
            \/ \E v : cb' = [cb EXCEPT !.at = a, !.verdict = v]
      BY <1>10 DEF CountBlock, RemoveRow, GiveVerdict
    <3> QED
      BY <1>0, <1>10, <3>1 DEF NetworkTypes, CountBlock, RemoveRow, GiveVerdict
  <2>2. UNCHANGED <<slots, request, pc, hold>> /\ (owners' # {} => owners # {})
    BY <1>10 DEF CountBlock, RemoveRow, GiveVerdict, Leaves, Complete
  <2>3. Uploading' = Uploading
    BY <2>1, <2>2 DEF Uploading
  <2> QED
    BY <1>1, <2>2, <2>3
<1>11. CASE ReleaseSlot
  <2>1. /\ cb.at = "release" /\ cb'.at \in {"leave", "cancel"} /\ slots' = slots - 1
        /\ UNCHANGED <<request, pc, hold, owners>>
    BY <1>0, <1>11 DEF ReleaseSlot, NetworkTypes
  <2>2. PICK b \in Blocks : b = cb.block /\ request[b] \in {"fail", "closed"}
    BY <2>1 DEF CallInv
  <2>3. b \in Uploading
    BY <2>1, <2>2 DEF Uploading
  <2>4. pc["consumer"] = "upload" => hold["consumer"] # b
    BY <1>0, <2>2 DEF PlaceInv, Holding
  <2>5. Uploading' = Uploading \ {b}
    BY <2>1, <2>2, <2>4 DEF Uploading
  <2>6. Cardinality(Uploading') = Cardinality(Uploading) - 1
    BY <1>a, <2>3, <2>5, FS_RemoveElement
  <2> QED
    BY <1>0, <1>a, <2>1, <2>6 DEF SlotsAccounted
<1>12. CASE CancelAfterFailure \/ LeaveCallback
  <2>1. /\ cb.at \in {"cancel", "leave"} /\ cb'.at \in {"leave", "idle"}
        /\ UNCHANGED <<slots, request, pc, hold, owners>>
    BY <1>0, <1>12 DEF CancelAfterFailure, LeaveCallback, NetworkTypes, Idle
  <2>2. Uploading' = Uploading
    BY <2>1 DEF Uploading
  <2> QED
    BY <1>1, <2>1, <2>2
<1>13. CASE Restart
  <2>1. /\ slots' = 0 /\ pc'["consumer"] = "none" /\ cb'.at = "idle"
        /\ \A b \in Blocks : request'[b] = "none"
    BY <1>0, <1>13 DEF Restart, Idle
  <2>2. Uploading' = {}
    BY <2>1 DEF Uploading
  <2> QED
    BY <1>0, <2>1, <2>2, FS_EmptySet DEF SlotsAccounted
<1>14. CASE UNCHANGED vars
  BY <1>2, <1>14 DEF vars
<1> QED
  BY <1>3, <1>4, <1>5, <1>6, <1>7, <1>8, <1>9, <1>10, <1>11, <1>12, <1>13, <1>14
  DEF Next, WorkerStep, NetStep, CreateStep

-----------------------------------------------------------------------------
(* The snapshot is complete when it is said to be                          *)

(* A block that may still be counted as uploaded.                          *)
Coming(b) ==
    \/ b \in todo \/ InRing(b)
    \/ \E t \in Workers : Holding(t) /\ hold[t] = b
    \/ request[b] \in {"put", "confirm"}
    \/ cb.at = "count" /\ cb.result = "ok" /\ cb.block = b

Uncounted == {b \in Blocks : b \notin uploaded \/ Coming(b)}

(* The count leaves room for every block that is missing or coming: it     *)
(* reaches the total only when there is none.                              *)
CountInv ==
    /\ Cardinality(Uncounted) + counts.up <= counts.total
    /\ cb.verdict = "synced" => uploaded = Blocks

LEMMA StepKeepsCounts ==
    ASSUME "resumeAfterRefusal" \notin Faults,
           Types, PlaceInv, CallInv, RowInv, RowsCoverMissing,
           CountInv, SyncedMeansUploaded, [Next]_vars
    PROVE  CountInv' /\ SyncedMeansUploaded'
<1> USE DEF durable, workers, network, context
<1>0. /\ "consumer" \in Workers /\ Producers \subseteq Workers
      /\ "consumer" \notin Producers /\ NoBlock \notin Blocks
      /\ WorkerTypes /\ NetworkTypes /\ DurableTypes
  BY DEF Workers, Types, TypeOK, NoBlock
<1>a. /\ IsFiniteSet(Uncounted) /\ Cardinality(Uncounted) \in Nat
      /\ counts.up \in Nat /\ counts.total \in Nat /\ counts.failed \in Nat
  <2>1. Uncounted \subseteq Blocks
    BY DEF Uncounted
  <2> QED
    BY <1>0, <2>1, FS_Subset, FS_CardinalityType DEF WorkerTypes
(* Steps that count nothing and let nothing come that was not coming.      *)
<1>1. ASSUME counts'.up = counts.up, counts'.total = counts.total,
             uploaded \subseteq uploaded', uploaded' \subseteq Blocks,
             \A b \in Blocks : Coming(b)' => Coming(b),
             cb'.verdict = "synced" => cb.verdict = "synced",
             syncRequest' # "none" \/ synced' => uploaded = Blocks
      PROVE  CountInv' /\ SyncedMeansUploaded'
  <2>1. Uncounted' \subseteq Uncounted
    BY <1>1 DEF Uncounted
  <2>2. Cardinality(Uncounted') <= Cardinality(Uncounted) /\ Cardinality(Uncounted') \in Nat
    BY <1>a, <2>1, FS_Subset, FS_CardinalityType
  <2>3. Cardinality(Uncounted') + counts'.up <= counts'.total
    BY <1>1, <1>a, <2>2 DEF CountInv
  <2> QED
    BY <1>1, <2>3 DEF CountInv, SyncedMeansUploaded
(* Steps without news from the server, of which the blocks in memory know. *)
<1>2. ASSUME UNCHANGED <<uploaded, synced, cb, syncRequest>>,
             counts'.up = counts.up, counts'.total = counts.total,
             \A b \in Blocks : Coming(b)' => Coming(b)
      PROVE  CountInv' /\ SyncedMeansUploaded'
  BY <1>0, <1>1, <1>2 DEF SyncedMeansUploaded, DurableTypes
<1>3. ASSUME UNCHANGED <<todo, ring, request>>,
             \A t \in Workers : Holding(t)' => Holding(t) /\ hold'[t] = hold[t],
             cb'.at = "count" => cb' = cb
      PROVE  \A b \in Blocks : Coming(b)' => Coming(b)
  <2>1. \A b : InRing(b)' <=> InRing(b)
    BY <1>3 DEF InRing
  <2> QED
    BY <1>3, <2>1 DEF Coming
<1>4. ASSUME UNCHANGED <<todo, ring, request, pc, hold>>, cb'.at = "count" => cb' = cb
      PROVE  \A b \in Blocks : Coming(b)' => Coming(b)
  BY <1>3, <1>4 DEF Holding
<1>5. CASE \/ Notify \/ Join \/ TestCancelled \/ List \/ CancelSync \/ Abort
           \/ MainStep \/ Saved \/ (\E t \in Workers : Sleep(t))
  BY <1>2, <1>4, <1>5
  DEF Notify, Join, TestCancelled, List, CancelSync, Abort, MainStep,
      CancelOperation, FailOperation, Saved, Sleep
<1>6. CASE Start
  <2>1. UNCHANGED <<todo, ring, request, uploaded, synced, cb, syncRequest, counts>>
    BY <1>6 DEF Start
  <2>2. \A t \in Workers : ~Holding(t)'
    BY <1>6 DEF Start, Holding
  <2> QED
    BY <1>2, <1>3, <2>1, <2>2
(* A worker step that drops its block or goes on with it.                  *)
<1>7. ASSUME NEW t \in Workers, NEW s, NEW b, Go(t, s, b),
             s \notin {"compress", "push", "slot", "upload"} \/ (Holding(t) /\ b = hold[t]),
             UNCHANGED <<todo, ring, request, uploaded, synced, cb, syncRequest>>,
             counts'.up = counts.up, counts'.total = counts.total
      PROVE  CountInv' /\ SyncedMeansUploaded'
  <2>1. /\ pc'[t] = s /\ hold'[t] = b
        /\ \A u \in Workers \ {t} : pc'[u] = pc[u] /\ hold'[u] = hold[u]
    BY <1>0, <1>7 DEF Go, WorkerTypes
  <2>2. \A u \in Workers : Holding(u)' => Holding(u) /\ hold'[u] = hold[u]
    BY <1>7, <2>1 DEF Holding
  <2> QED
    BY <1>2, <1>3, <1>7, <2>2
<1>8. ASSUME NEW p \in Producers, TakeTask(p)
      PROVE  CountInv' /\ SyncedMeansUploaded'
  <2>0. UNCHANGED <<ring, request, uploaded, synced, cb, syncRequest, counts>>
    BY <1>8 DEF TakeTask
  <2>1. CASE Go(p, "done", NoBlock) /\ UNCHANGED todo
    BY <1>0, <1>7, <2>0, <2>1
  <2>2. ASSUME NEW b \in todo, todo' = todo \ {b}, Go(p, "compress", b)
        PROVE  CountInv' /\ SyncedMeansUploaded'
    <3>1. /\ hold'[p] = b
          /\ \A u \in Workers \ {p} : pc'[u] = pc[u] /\ hold'[u] = hold[u]
      BY <1>0, <2>2 DEF Go, WorkerTypes
    <3>2. \A c : InRing(c)' <=> InRing(c)
      BY <2>0 DEF InRing
    <3>3. \A c \in Blocks : Coming(c)' => Coming(c)
      BY <2>0, <2>2, <3>1, <3>2 DEF Coming, Holding
    <3> QED
      BY <1>2, <2>0, <3>3
  <2> QED
    BY <1>8, <2>1, <2>2 DEF TakeTask
<1>9. ASSUME NEW p \in Producers, Compress(p)
      PROVE  CountInv' /\ SyncedMeansUploaded'
  <2>1. Holding(p) /\ UNCHANGED <<todo, ring, request, uploaded, synced, cb, syncRequest>>
    BY <1>9 DEF Compress, Holding
  <2>2. Go(p, "push", hold[p]) \/ Go(p, "report", hold[p])
    BY <1>9 DEF Compress
  <2>3. counts'.up = counts.up /\ counts'.total = counts.total
    BY <1>0, <1>9 DEF Compress, WorkerTypes
  <2> QED
    BY <1>0, <1>7, <2>1, <2>2, <2>3
<1>10. ASSUME NEW p \in Producers, ReportFailure(p)
       PROVE  CountInv' /\ SyncedMeansUploaded'
  BY <1>0, <1>7, <1>10 DEF ReportFailure
<1>11. ASSUME NEW p \in Producers, PushBlockToQueue(p)
       PROVE  CountInv' /\ SyncedMeansUploaded'
  <2>0. /\ Holding(p)
        /\ UNCHANGED <<todo, request, uploaded, synced, cb, syncRequest, counts>>
    BY <1>11 DEF PushBlockToQueue, Holding
  <2>1. CASE Go(p, "loop", NoBlock) /\ UNCHANGED ring
    BY <1>0, <1>7, <2>0, <2>1
  <2>2. CASE UNCHANGED <<ring, pc, hold>>
    BY <1>2, <1>4, <2>0, <2>2
  <2>3. CASE Go(p, "loop", NoBlock) /\ ring' = Append(ring, hold[p])
    <3>1. PICK b \in Blocks : b = hold[p]
      BY <1>0, <2>0 DEF PlaceInv
    <3>2. /\ pc'[p] = "loop"
          /\ \A u \in Workers \ {p} : pc'[u] = pc[u] /\ hold'[u] = hold[u]
      BY <1>0, <2>3 DEF Go, WorkerTypes
    <3>3. \A c : InRing(c)' <=> InRing(c) \/ c = b
      BY <1>0, <2>3, <3>1, RingPushed DEF WorkerTypes
    <3>4. \A c \in Blocks : Coming(c)' => Coming(c)
      BY <1>0, <2>0, <3>1, <3>2, <3>3 DEF Coming, Holding
    <3> QED
      BY <1>2, <2>0, <3>4
  <2> QED
    BY <1>11, <2>1, <2>2, <2>3 DEF PushBlockToQueue, DozeOff
<1>12. CASE PopBlockFromQueue
  <2>0. UNCHANGED <<todo, request, uploaded, synced, cb, syncRequest, counts>>
    BY <1>12 DEF PopBlockFromQueue
  <2>1. CASE Go("consumer", "done", NoBlock) /\ UNCHANGED ring
    BY <1>0, <1>7, <2>0, <2>1
  <2>2. CASE UNCHANGED <<ring, pc, hold>>
    BY <1>2, <1>4, <2>0, <2>2
  <2>3. CASE Go("consumer", "slot", Head(ring)) /\ ring' = Tail(ring) /\ ring # <<>>
    <3>1. PICK first \in Blocks : first = Head(ring)
      BY <1>0, <2>3, HeadTailProperties DEF WorkerTypes
    <3>2. /\ hold'["consumer"] = first
          /\ \A u \in Workers \ {"consumer"} : pc'[u] = pc[u] /\ hold'[u] = hold[u]
      BY <1>0, <2>3, <3>1 DEF Go, WorkerTypes
    <3>3. InRing(first) /\ \A c : InRing(c)' => InRing(c)
      BY <1>0, <2>3, <3>1, RingPopped DEF PlaceInv, WorkerTypes
    <3>4. \A c \in Blocks : Coming(c)' => Coming(c)
      BY <2>0, <3>2, <3>3 DEF Coming, Holding
    <3> QED
      BY <1>2, <2>0, <3>4
  <2> QED
    BY <1>12, <2>1, <2>2, <2>3 DEF PopBlockFromQueue, DozeOff
<1>13. CASE TakeSlot
  <2>0. /\ Holding("consumer")
        /\ UNCHANGED <<todo, ring, request, uploaded, synced, cb, syncRequest, counts>>
    BY <1>13 DEF TakeSlot, Holding
  <2>1. \/ Go("consumer", "done", NoBlock)
        \/ Go("consumer", "upload", hold["consumer"])
        \/ UNCHANGED <<pc, hold>>
    BY <1>13 DEF TakeSlot, DozeOff
  <2> QED
    BY <1>0, <1>2, <1>4, <1>7, <2>0, <2>1
<1>14. CASE Upload
  <2>0. /\ UNCHANGED <<todo, ring, uploaded, synced, cb, syncRequest, counts>>
        /\ Holding("consumer")
        /\ request' = [request EXCEPT ![hold["consumer"]] = "put"]
    BY <1>14 DEF Upload, Holding
  <2>1. /\ pc'["consumer"] = "pop"
        /\ \A u \in Workers \ {"consumer"} : pc'[u] = pc[u] /\ hold'[u] = hold[u]
    BY <1>0, <1>14 DEF Upload, Go, WorkerTypes
  <2>2. \A c \in Blocks : c # hold["consumer"] => request'[c] = request[c]
    BY <1>0, <2>0 DEF NetworkTypes
  <2>3. \A c : InRing(c)' <=> InRing(c)
    BY <2>0 DEF InRing
  <2>4. \A c \in Blocks : Coming(c)' => Coming(c)
    BY <1>0, <2>0, <2>1, <2>2, <2>3 DEF Coming, Holding
  <2> QED
    BY <1>2, <2>0, <2>4
(* An answer, of which the callback of a success is about a block that is  *)
(* uploaded from now on.                                                   *)
<1>15. ASSUME NEW b \in Blocks, NEW r \in Results, Answer(b, r)
       PROVE  CountInv' /\ SyncedMeansUploaded'
  <2>1. /\ UNCHANGED <<todo, ring, pc, hold, counts, synced, syncRequest>>
        /\ cb.at = "idle" /\ uploaded \subseteq uploaded' /\ uploaded' \subseteq Blocks
    BY <1>0, <1>15
    DEF Answer, NetFree, AnswerPut, AnswerConfirm, AnswerFail, DurableTypes
  <2>2. \E s \in {"put", "confirm", "fail", "closed"} :
          /\ request' = [request EXCEPT ![b] = s]
          /\ s \in {"put", "confirm"} => request[b] \in {"put", "confirm"} /\ cb' = cb
          /\ cb' = cb \/ (cb'.verdict = "more" /\ cb'.at = "idle")
             \/ (cb'.verdict = "more" /\ cb'.block = b /\ cb'.result = r)
          /\ cb' # cb /\ cb'.at = "count" /\ r = "ok" => request[b] = "confirm"
    <3>1. Tell(b, r) => \/ cb'.verdict = "more" /\ cb'.at = "idle"
                        \/ cb'.verdict = "more" /\ cb'.block = b /\ cb'.result = r
      BY DEF Tell, Idle
    <3>2. ASSUME NEW n, FailUpload(b, r, n)
          PROVE  /\ request' = [request EXCEPT ![b] = "fail"]
                 /\ cb' = cb \/ Tell(b, r)
      BY <3>2 DEF FailUpload, Ask
    <3>3. CASE AnswerPut(b, r)
      BY <3>1, <3>2, <3>3 DEF AnswerPut, Ask
    <3>4. CASE AnswerConfirm(b, r)
      BY <3>1, <3>2, <3>4 DEF AnswerConfirm, Ask
    <3>5. CASE AnswerFail(b, r)
      <4>1. r = "ok" => cb' = cb
        BY <3>5 DEF AnswerFail
      <4> QED
        BY <3>1, <3>2, <3>5, <4>1 DEF AnswerFail, Ask
    <3> QED
      BY <1>15, <3>3, <3>4, <3>5 DEF Answer
  <2>3. PICK s \in {"put", "confirm", "fail", "closed"} :
          /\ request'[b] = s /\ \A c \in Blocks \ {b} : request'[c] = request[c]
          /\ s \in {"put", "confirm"} => request[b] \in {"put", "confirm"} /\ cb' = cb
          /\ cb' = cb \/ (cb'.verdict = "more" /\ cb'.at = "idle")
             \/ (cb'.verdict = "more" /\ cb'.block = b /\ cb'.result = r)
          /\ cb' # cb /\ cb'.at = "count" /\ r = "ok" => request[b] = "confirm"
    BY <1>0, <2>2 DEF NetworkTypes
  <2>4. \A c : InRing(c)' <=> InRing(c)
    BY <2>1 DEF InRing
  <2>5. \A c \in Blocks : Coming(c)' => Coming(c)
    BY <2>1, <2>3, <2>4 DEF Coming, Holding
  <2> QED
    BY <1>1, <2>1, <2>3, <2>5 DEF SyncedMeansUploaded
<1>16. CASE CountBlock
  <2>1. /\ cb.at = "count" /\ cb'.at = "row"
        /\ UNCHANGED <<todo, ring, pc, hold, request, uploaded, synced, syncRequest>>
        /\ cb'.verdict = Verdict(counts')
    BY <1>0, <1>16 DEF CountBlock, NetworkTypes
  <2>2. \A c \in Blocks : Coming(c)' => Coming(c)
    BY <1>4, <2>1
  <2>3. Uncounted' \subseteq Uncounted /\ Cardinality(Uncounted') \in Nat
    BY <1>a, <2>1, <2>2, FS_Subset, FS_CardinalityType DEF Uncounted
  <2>4. counts'.total = counts.total /\ counts'.up \in Nat
    BY <1>0, <1>16 DEF CountBlock, WorkerTypes
  <2>5. Cardinality(Uncounted') + counts'.up <= counts'.total
    <3>1. CASE cb.result = "ok"
      <4>1. counts'.up = counts.up + 1
        BY <1>0, <1>16, <3>1 DEF CountBlock, WorkerTypes
      <4>2. PICK b \in Blocks :
              b = cb.block /\ request[b] \in {"fail", "closed"} /\ b \in uploaded
        BY <2>1, <3>1 DEF CallInv, RowInv
      <4>3. b \in Uncounted
        BY <2>1, <3>1, <4>2 DEF Uncounted, Coming
      <4>4. /\ b \notin todo /\ ~InRing(b)
            /\ \A t \in Workers : Holding(t) => hold[t] # b
        BY <4>2 DEF PlaceInv
      <4>5. ~InRing(b)'
        BY <2>1, <4>4 DEF InRing
      <4>6. b \notin Uncounted'
        BY <2>1, <4>2, <4>4, <4>5 DEF Uncounted, Coming, Holding
      <4>7. Cardinality(Uncounted \ {b}) = Cardinality(Uncounted) - 1 /\ IsFiniteSet(Uncounted \ {b})
        BY <1>a, <4>3, FS_RemoveElement
      <4>8. Uncounted' \subseteq Uncounted \ {b}
        BY <2>3, <4>6
      <4>9. Cardinality(Uncounted') <= Cardinality(Uncounted) - 1
        BY <4>7, <4>8, FS_Subset
      <4> QED
        BY <1>a, <2>3, <2>4, <4>1, <4>9 DEF CountInv
    <3>2. CASE cb.result # "ok"
      <4>1. counts'.up = counts.up
        BY <1>0, <1>16, <3>2 DEF CountBlock, WorkerTypes
      <4>2. Cardinality(Uncounted') <= Cardinality(Uncounted)
        BY <1>a, <2>3, FS_Subset
      <4> QED
        BY <1>a, <2>3, <2>4, <4>1, <4>2 DEF CountInv
    <3> QED
      BY <3>1, <3>2
  <2>6. cb'.verdict = "synced" => uploaded' = Blocks
    <3>1. SUFFICES ASSUME cb'.verdict = "synced"
                   PROVE  uploaded' = Blocks
      OBVIOUS
    <3>2. counts'.up = counts'.total
      BY <2>1, <3>1 DEF Verdict
    <3>3. Cardinality(Uncounted') = 0
      BY <1>a, <2>3, <2>4, <2>5, <3>2
    <3>4. IsFiniteSet(Uncounted')
      BY <1>a, <2>3, FS_Subset
    <3>5. Uncounted' = {}
      BY <3>3, <3>4, FS_EmptySet
    <3> QED
      BY <1>0, <2>1, <3>5 DEF Uncounted, DurableTypes
  <2> QED
    BY <2>1, <2>5, <2>6 DEF CountInv, SyncedMeansUploaded
<1>17. CASE \/ RemoveRow \/ GiveVerdict \/ ReleaseSlot \/ CancelAfterFailure \/ LeaveCallback
  <2>1. /\ UNCHANGED <<todo, ring, pc, hold, request, uploaded, synced, counts>>
        /\ syncRequest' = syncRequest \/ (syncRequest' = "sent" /\ cb.verdict = "synced")
    BY <1>17 DEF RemoveRow, GiveVerdict, ReleaseSlot, CancelAfterFailure, LeaveCallback
  <2>2. cb'.at # "count" /\ (cb'.verdict = "synced" => cb.verdict = "synced")
    <3>1. CASE LeaveCallback
      BY <3>1 DEF LeaveCallback, Idle
    <3>2. CASE RemoveRow \/ GiveVerdict \/ ReleaseSlot \/ CancelAfterFailure
      BY <1>0, <3>2
      DEF RemoveRow, GiveVerdict, ReleaseSlot, CancelAfterFailure, NetworkTypes
    <3> QED
      BY <1>17, <3>1, <3>2
  <2>3. \A c \in Blocks : Coming(c)' => Coming(c)
    BY <1>4, <2>1, <2>2
  <2> QED
    BY <1>0, <1>1, <2>1, <2>2, <2>3 DEF SyncedMeansUploaded, CountInv, DurableTypes
<1>18. CASE AnswerSync
  <2>1. /\ UNCHANGED <<todo, ring, pc, hold, request, uploaded, counts, cb>>
        /\ syncRequest = "sent"
    BY <1>18 DEF AnswerSync
  <2>2. \A c \in Blocks : Coming(c)' => Coming(c)
    BY <1>4, <2>1
  <2> QED
    BY <1>0, <1>1, <2>1, <2>2 DEF SyncedMeansUploaded, DurableTypes
(* A later process starts from the rows, which name every missing block.   *)
<1>19. CASE Restart
  <2>1. /\ todo' = pending /\ ring' = <<>> /\ ~refused
        /\ \A t \in Workers : pc'[t] = "none"
        /\ \A b \in Blocks : request'[b] = "none"
        /\ cb'.at = "idle" /\ cb'.verdict = "more"
        /\ counts'.total = Cardinality(pending) /\ counts'.up = 0
        /\ syncRequest' = IF pending = {} THEN "sent" ELSE "none"
        /\ UNCHANGED <<uploaded, synced>>
    BY <1>19 DEF Restart, Idle
  <2>2. Blocks \subseteq uploaded \cup pending
    BY <2>1 DEF RowsCoverMissing
  <2>3. \A b : ~InRing(b)'
    BY <2>1 DEF InRing
  <2>4. Uncounted' \subseteq pending
    BY <2>1, <2>2, <2>3 DEF Uncounted, Coming, Holding
  <2>5. IsFiniteSet(pending)
    BY <1>0, FS_Subset DEF DurableTypes
  <2>6. /\ Cardinality(Uncounted') <= Cardinality(pending)
        /\ Cardinality(Uncounted') \in Nat /\ Cardinality(pending) \in Nat
    BY <2>4, <2>5, FS_Subset, FS_CardinalityType
  <2>7. CountInv'
    BY <2>1, <2>6 DEF CountInv
  <2>8. SyncedMeansUploaded'
    BY <1>0, <2>1, <2>2 DEF SyncedMeansUploaded, DurableTypes
  <2> QED
    BY <2>7, <2>8
<1>20. CASE UNCHANGED vars
  BY <1>2, <1>4, <1>20 DEF vars
<1> QED
  BY <1>5, <1>6, <1>8, <1>9, <1>10, <1>11, <1>12, <1>13, <1>14, <1>15, <1>16, <1>17,
     <1>18, <1>19, <1>20
  DEF Next, WorkerStep, NetStep, CreateStep

-----------------------------------------------------------------------------
(* Theorems                                                                *)

LEMMA InitHolds ==
    Init => Types /\ JoinInv /\ RowInv /\ ResumableUntilSynced
<1> SUFFICES ASSUME Init
             PROVE  Types /\ JoinInv /\ RowInv /\ ResumableUntilSynced
  OBVIOUS
<1>1. /\ synced \in BOOLEAN /\ snapshotRow \in BOOLEAN /\ refused \in BOOLEAN
      /\ isRunning \in BOOLEAN /\ cancelled \in BOOLEAN /\ listed \in BOOLEAN
      /\ completed \in BOOLEAN /\ terminated \in BOOLEAN
  BY Zenon DEF Init
<1>2. DurableTypes
  BY <1>1 DEF Init, DurableTypes
<1>3. WorkerTypes /\ HoldInv
  BY SubsetsAreCounted DEF Init, WorkerTypes, HoldInv
<1>4. OperationTypes
  BY <1>1 DEF Init, OperationTypes, NoOne, Threads
<1>5. NetworkTypes
  <2>1. cb \in CallbackValues
    BY CallbackTypes DEF Init
  <2> QED
    BY <2>1 DEF Init, NetworkTypes, CallbackValues
<1>6. JoinInv
  BY DEF Init, JoinInv, CreateInv, CancelInv, OwnerInv, DoneInv, WorkersDone,
         Workers, NoOne, Idle
<1>7. RowInv /\ ResumableUntilSynced
  BY DEF Init, RowInv, ResumableUntilSynced, RowsCoverMissing, Idle
<1> QED
  BY <1>2, <1>3, <1>4, <1>5, <1>6, <1>7 DEF Types, TypeOK

LEMMA TypesHoldAlways == Spec => []Types
<1>1. Init => Types
  BY InitHolds
<1>2. Types /\ [Next]_vars => Types'
  BY StepKeepsTypes
<1> QED
  BY <1>1, <1>2, PTL DEF Spec

LEMMA JoinsHold == Survivable /\ Spec => []JoinInv
<1> SUFFICES ASSUME Survivable
             PROVE  Spec => []JoinInv
  OBVIOUS
<1>1. Init => JoinInv
  BY InitHolds
<1>2. Types /\ JoinInv /\ [Next]_vars => JoinInv'
  BY StepKeepsJoins
<1> QED
  BY <1>1, <1>2, TypesHoldAlways, PTL DEF Spec

(* The state of threads, requests and rows is well formed; the ring stays  *)
(* within its size.                                                        *)
THEOREM TypesHold == Spec => []TypeOK
<1>1. Types => TypeOK
  BY DEF Types
<1> QED
  BY <1>1, TypesHoldAlways, PTL

(* Unless the user cancels while the uploader is created, or a producer is *)
(* left as the last owner of the operation, nobody joins a thread that     *)
(* cannot be joined, however failures, cancellation and the end of the     *)
(* operation interleave.                                                   *)
THEOREM JoinsStayLegal == Survivable /\ Spec => []JoinsAreLegal
<1>1. JoinInv => JoinsAreLegal
  BY DEF JoinInv, JoinsAreLegal
<1> QED
  BY <1>1, JoinsHold, PTL

(* A join that does not end the program has seen every thread end.         *)
EndInv == cancel.step = "done" /\ ~terminated => creating = "made" /\ WorkersDone

LEMMA StepKeepsEnd ==
    ASSUME Types, EndInv, [Next]_vars
    PROVE  EndInv'
<1> USE DEF durable, workers, network, context
<1>0. /\ "consumer" \in Workers /\ Producers \subseteq Workers
      /\ pc \in [Workers -> {"none", "loop", "compress", "push", "report",
                             "pop", "slot", "upload", "done"}]
      /\ OperationTypes
  BY DEF Workers, Types, TypeOK, WorkerTypes
<1>a. ASSUME NEW t, CancelUploader(t) \/ UNCHANGED <<isRunning, cancel>>
      PROVE  cancel'.step = "done" => cancel.step = "done"
  BY <1>a DEF CancelUploader
<1>b. ASSUME NEW t, NEW o, Leaves(t, o)
      PROVE  cancel'.step = "done" => cancel.step = "done"
  BY <1>a, <1>b DEF Leaves
<1>c. ASSUME NEW t, CancelContext(t)
      PROVE  cancel'.step = "done" => cancel.step = "done"
  BY <1>a, <1>c DEF CancelContext
<1>d. ASSUME cancel'.step = "done" => cancel.step = "done",
             terminated' = terminated, creating' = creating, pc' = pc
      PROVE  EndInv'
  BY <1>d DEF EndInv, WorkersDone
<1>1. CASE Notify
  BY <1>0, <1>1 DEF Notify, OperationTypes, EndInv
<1>2. CASE Join
  BY <1>2 DEF Join, JoinThrows, EndInv, WorkersDone
<1>3. CASE TestCancelled
  BY <1>3, <1>a DEF TestCancelled, EndInv
<1>4. CASE List
  BY <1>4 DEF List, EndInv
<1>5. CASE Start
  <2>1. (cancel'.step = "done" => cancel.step = "done") /\ terminated' = terminated
    BY <1>5, <1>b DEF Start
  <2> QED
    BY <1>5, <2>1 DEF Start, EndInv
<1>6. ASSUME NEW t \in Workers, WorkerStep(t), EndInv, ~terminated
      PROVE  EndInv'
  <2>1. CASE \E p \in Producers : ReportFailure(p)
    <3>1. PICK p \in Producers : ReportFailure(p)
      BY <2>1
    <3>2. pc[p] # "done" /\ terminated' = terminated /\ creating' = creating
      BY <3>1 DEF ReportFailure
    <3>3. cancel'.step = "done" => cancel.step = "done"
      BY <3>1, <1>b DEF ReportFailure
    <3> QED
      BY <1>0, <1>6, <3>2, <3>3 DEF EndInv, WorkersDone
  <2>2. CASE ~\E p \in Producers : ReportFailure(p)
    <3>1. /\ cancel' = cancel /\ terminated' = terminated /\ creating' = creating
          /\ pc' = pc \/ \E w \in Workers : pc[w] # "done"
      BY <1>0, <1>6, <2>2
         DEF WorkerStep, Sleep, TakeTask, Compress, PushBlockToQueue,
             PopBlockFromQueue, TakeSlot, Upload
    <3> QED
      BY <1>6, <3>1 DEF EndInv, WorkersDone
  <2> QED
    BY <2>1, <2>2
<1>7. ASSUME NEW b \in Blocks, NEW r \in Results, Answer(b, r)
      PROVE  EndInv'
  BY <1>7, <1>d DEF Answer
<1>8. CASE CountBlock \/ RemoveRow \/ ReleaseSlot \/ CancelSync \/ Abort
  BY <1>8, <1>d DEF CountBlock, RemoveRow, ReleaseSlot, CancelSync, Abort
<1>9. CASE GiveVerdict \/ FailOperation \/ Saved
  BY <1>9, <1>b, <1>d DEF GiveVerdict, FailOperation, Saved
<1>10. CASE CancelAfterFailure \/ CancelOperation
  BY <1>10, <1>c, <1>d DEF CancelAfterFailure, CancelOperation
<1>11. CASE LeaveCallback \/ AnswerSync
  BY <1>11, <1>a, <1>b, <1>d DEF LeaveCallback, AnswerSync
<1>12. CASE Restart
  BY <1>12 DEF Restart, EndInv
<1>13. CASE UNCHANGED vars
  BY <1>13, <1>d DEF vars
<1> QED
  BY <1>1, <1>2, <1>3, <1>4, <1>5, <1>6, <1>7, <1>8, <1>9, <1>10, <1>11,
     <1>12, <1>13
     DEF Next, NetStep, CreateStep, MainStep

LEMMA EndHolds == Spec => []EndInv
<1>1. Init => EndInv
  BY DEF Init, EndInv
<1>2. Types /\ EndInv /\ [Next]_vars => EndInv'
  BY StepKeepsEnd
<1> QED
  BY <1>1, <1>2, TypesHoldAlways, PTL DEF Spec

(* Once Cancel() has left, no request begins and no worker moves, whatever *)
(* the faults: a join that is not legal ends the program.                  *)
THEOREM NothingMovesAfterCancel == Spec => NothingAfterCancel
<1> DEFINE Quiet == cancel.step = "done" /\ session' = session =>
        /\ \A b \in Blocks : request[b] = "none" => request'[b] = "none"
        /\ pc' = pc
<1>1. ASSUME Types, EndInv, ~terminated, Next, cancel.step = "done",
             session' = session
      PROVE  /\ \A b \in Blocks : request[b] = "none" => request'[b] = "none"
             /\ pc' = pc
  <2> USE DEF durable, workers, network, context
  <2>0. /\ WorkersDone /\ creating = "made" /\ "consumer" \in Workers
        /\ Producers \subseteq Workers /\ NetworkTypes
        /\ session \in Nat
    BY <1>1 DEF EndInv, Workers, Types, TypeOK,
                DurableTypes
  <2>1. ASSUME NEW t \in Workers, WorkerStep(t)
        PROVE  UNCHANGED <<request, pc>>
    BY <2>0, <2>1
       DEF WorkersDone, WorkerStep, Sleep, TakeTask, Compress, ReportFailure,
           PushBlockToQueue, PopBlockFromQueue, TakeSlot, Upload
  <2>2. ASSUME NEW c \in Blocks, NEW r \in Results, Answer(c, r)
        PROVE  /\ \A b \in Blocks :
                     request[b] = "none" => request'[b] = "none"
               /\ pc' = pc
    BY <2>0, <2>2 DEF Answer, AnswerPut, AnswerConfirm, AnswerFail, FailUpload,
                      Ask, NetworkTypes
  <2>3. CASE \/ CountBlock \/ RemoveRow \/ GiveVerdict \/ ReleaseSlot
             \/ CancelAfterFailure \/ LeaveCallback \/ AnswerSync
    BY <2>3 DEF CountBlock, RemoveRow, GiveVerdict, ReleaseSlot,
                CancelAfterFailure, LeaveCallback, AnswerSync
  <2>4. CASE \/ CreateStep \/ Notify \/ Join \/ CancelSync \/ Abort
             \/ MainStep \/ Saved
    BY <2>0, <2>4
       DEF CreateStep, TestCancelled, List, Start, Notify, Join, CancelSync,
           Abort, MainStep, CancelOperation, FailOperation, Saved
  <2>5. ~Restart
    BY <1>1, <2>0 DEF Restart
  <2> QED
    BY <1>1, <2>1, <2>2, <2>3, <2>4, <2>5 DEF Next, NetStep
<1>2. Types /\ EndInv /\ [Next]_vars => [Quiet]_vars
  BY <1>1 DEF Next
<1> QED
  BY <1>2, EndHolds, TypesHoldAlways, PTL DEF Spec, NothingAfterCancel

(* At any point of any upload, the slots in use are those of the blocks    *)
(* that are uploading, and no more than there are: whatever the faults.    *)
THEOREM SlotsAreAccounted == Spec => []SlotsAccounted
<1>1. Init => PlaceInv /\ CallInv /\ SlotsAccounted
  <2> SUFFICES ASSUME Init
               PROVE  PlaceInv /\ CallInv /\ SlotsAccounted
    OBVIOUS
  <2>1. \A b : ~InRing(b)
    BY DEF Init, InRing
  <2>2. PlaceInv /\ CallInv
    BY <2>1 DEF Init, PlaceInv, CallInv, Holding, Idle
  <2>3. Uploading = {}
    BY DEF Init, Uploading, Idle, Workers
  <2> QED
    BY <2>2, <2>3, FS_EmptySet DEF Init, SlotsAccounted
<1>2. Types /\ (PlaceInv /\ CallInv /\ SlotsAccounted) /\ [Next]_vars
        => (PlaceInv /\ CallInv /\ SlotsAccounted)'
  BY StepKeepsPlaces, StepKeepsSlots
<1> QED
  BY <1>1, <1>2, TypesHoldAlways, PTL DEF Spec

(* Unless an upload of which the server refused a block is resumed, the    *)
(* snapshot is marked as synced only when the server has confirmed every   *)
(* block of it, in however many processes, whoever cancelled in between.   *)
THEOREM SyncedIsUploaded ==
    "resumeAfterRefusal" \notin Faults /\ Spec => []SyncedMeansUploaded
<1> SUFFICES ASSUME "resumeAfterRefusal" \notin Faults
             PROVE  Spec => []SyncedMeansUploaded
  OBVIOUS
<1> DEFINE Inv == /\ PlaceInv /\ CallInv /\ RowInv /\ RowsCoverMissing
                  /\ CountInv /\ SyncedMeansUploaded
<1>1. Init => Inv
  <2> SUFFICES ASSUME Init
               PROVE  Inv
    OBVIOUS
  <2>1. \A b : ~InRing(b)
    BY DEF Init, InRing
  <2>2. PlaceInv /\ CallInv
    BY <2>1 DEF Init, PlaceInv, CallInv, Holding, Idle
  <2>3. Uncounted = Blocks
    BY DEF Init, Uncounted
  <2>4. CountInv /\ SyncedMeansUploaded
    BY <2>3, FS_CardinalityType DEF Init, CountInv, SyncedMeansUploaded, Idle
  <2> QED
    BY <2>2, <2>4, InitHolds DEF ResumableUntilSynced
<1>2. Types /\ Inv /\ [Next]_vars => Inv'
  BY StepKeepsPlaces, StepKeepsRows, StepKeepsCounts
<1>3. Inv => SyncedMeansUploaded
  OBVIOUS
<1> QED
  BY <1>1, <1>2, <1>3, TypesHoldAlways, PTL DEF Spec

(* If the server hears the request of which the answer is lost, the row of *)
(* the snapshot is there until it is synced, and the rows of the blocks    *)
(* name every block the server misses and has not refused, in whichever    *)
(* step the process ends.                                                  *)
THEOREM UploadResumable ==
    "syncRequestLost" \notin Faults /\ Spec => []ResumableUntilSynced
<1> SUFFICES ASSUME "syncRequestLost" \notin Faults
             PROVE  Spec => []ResumableUntilSynced
  OBVIOUS
<1>1. Init => RowInv /\ ResumableUntilSynced
  BY InitHolds
<1>2. Types /\ (RowInv /\ ResumableUntilSynced) /\ [Next]_vars
        => (RowInv /\ ResumableUntilSynced)'
  BY StepKeepsRows, StepKeepsSnapshotRow DEF ResumableUntilSynced
<1> QED
  BY <1>1, <1>2, TypesHoldAlways, PTL DEF Spec
=============================================================================
