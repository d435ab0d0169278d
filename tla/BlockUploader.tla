--------------------------- MODULE BlockUploader ---------------------------
(***************************************************************************)
(* The upload of the sample blocks of a project to the cloud:              *)
(* MissingBlocksUploader (producers, a ring, a consumer, upload slots),    *)
(* the requests of DataUploader, the cancellation context, the lifetime of *)
(* the operation that owns them, and the rows of the local database from   *)
(* which an interrupted upload is resumed by a later process.              *)
(***************************************************************************)
EXTENDS FiniteSets, Integers, Sequences

CONSTANTS Blocks,       \* the blocks the server misses, in upload order
          Producers,    \* NUM_PRODUCERS threads, 3 in the code
          RingSize,     \* RING_BUFFER_SIZE, 16 in the code
          MaxUploads,   \* NUM_UPLOADERS, 6 in the code
          Retries,      \* RetriesCount, 3 in the code
          MaxSessions,  \* bound: processes that work on the upload
          Faults        \* see AllFaults

(* Five orders or answers the code does not survive.  The README tells of  *)
(* each; without them every property below holds.                          *)
AllFaults == {"notifyBetweenTestAndSleep", "cancelDuringCreate",
              "lastOwnerIsProducer", "resumeAfterRefusal", "syncRequestLost"}

NoBlock == 0
NoOne == "nobody"
Workers == Producers \cup {"consumer"}
Threads == Workers \cup {"net", "main", "saver"}

ASSUME UploaderAssumption ==
    /\ Blocks \subseteq Nat \ {NoBlock} /\ IsFiniteSet(Blocks)
    /\ Producers \cap {"consumer", "net", "main", "saver", NoOne} = {}
    /\ RingSize \in Nat \ {0} /\ MaxUploads \in Nat \ {0}
    /\ Retries \in Nat /\ MaxSessions \in Nat \ {0}
    /\ Faults \subseteq AllFaults

VARIABLES
  \* on the server and in the database: they survive the process
  uploaded,      \* blocks whose upload the server has confirmed
  synced,        \* the server was told that the snapshot is complete
  pending,       \* rows of blocks still to upload
  snapshotRow,   \* the row of the snapshot
  refused,       \* history: a row went although its block was refused
  session,       \* the process, counted
  \* MissingBlocksUploader
  todo,          \* the tasks no producer has taken
  ring,          \* compressed blocks
  slots,         \* mConcurrentUploads
  counts,        \* mProgressData
  isRunning,
  pc, wait, hold,  \* of the worker threads
  \* the rest of the operation
  creating,      \* where MissingBlocksUploader::Create is
  cancelled, listed,  \* of the cancellation context
  cancel,        \* the thread inside MissingBlocksUploader::Cancel
  request, retriesLeft, told,  \* of the DataUploader operation of each block
  cb,            \* the callback of the network thread
  syncRequest,   \* the last request, which marks the snapshot as synced
  completed,     \* mCompleted
  owners,        \* who holds the operation
  main,          \* ProjectCloudExtension::CancelSync on the main thread
  terminated     \* std::terminate was called

durable == <<uploaded, synced, pending, snapshotRow, refused, session>>
workers == <<todo, ring, pc, wait, hold>>
network == <<request, retriesLeft, told, cb, syncRequest>>
context == <<cancelled, listed>>
vars == <<durable, workers, slots, counts, isRunning, creating, context, cancel,
          network, completed, owners, main, terminated>>

Idle == [at |-> "idle", block |-> NoBlock, result |-> "ok", verdict |-> "more"]
Results == {"ok", "connection", "denied", "refused"}

DurableTypes ==
    /\ uploaded \subseteq Blocks /\ pending \subseteq Blocks
    /\ synced \in BOOLEAN /\ snapshotRow \in BOOLEAN /\ refused \in BOOLEAN
    /\ session \in 1..MaxSessions

WorkerTypes ==
    /\ todo \subseteq Blocks
    /\ ring \in Seq(Blocks) /\ Len(ring) < RingSize
    /\ slots \in Int
    /\ counts \in [total : Nat, up : Nat, failed : Nat]
    /\ pc \in [Workers -> {"none", "loop", "compress", "push", "report", "pop",
                           "slot", "upload", "done"}]
    /\ wait \in [Workers -> {"no", "dozing", "asleep"}]
    /\ hold \in [Workers -> Blocks \cup {NoBlock}]

OperationTypes ==
    /\ isRunning \in BOOLEAN /\ cancelled \in BOOLEAN /\ listed \in BOOLEAN
    /\ completed \in BOOLEAN /\ terminated \in BOOLEAN
    /\ creating \in {"test", "list", "start", "made"}
    /\ cancel \in [by : Threads \cup {NoOne},
                   step : {"none", "notify", "join", "again", "done"}]
    /\ owners \subseteq {"queue", "starter", "saver", "main", "net"}
    /\ main \in {"idle", "cancel", "fail", "ended"}

NetworkTypes ==
    /\ request \in [Blocks -> {"none", "put", "confirm", "fail", "closed"}]
    /\ retriesLeft \in [Blocks -> 0..Retries]
    /\ told \subseteq Blocks
    /\ cb \in [at : {"idle", "count", "row", "verdict", "release", "cancel", "leave"},
               block : Blocks \cup {NoBlock}, result : Results,
               verdict : {"more", "synced", "failed"}]
    /\ syncRequest \in {"none", "sent", "closed"}

TypeOK == DurableTypes /\ WorkerTypes /\ OperationTypes /\ NetworkTypes

(* LocalProjectSnapshot in the callback of the project blob, just before   *)
(* it creates the uploader: the rows are written, the blob is confirmed.   *)
(* The operation is in the queue, the callback holds it, and so does the   *)
(* thread that waits to save the project.                                  *)
Init ==
    /\ uploaded = {} /\ synced = FALSE /\ pending = Blocks /\ snapshotRow = TRUE
    /\ refused = FALSE /\ session = 1
    /\ todo = Blocks /\ ring = <<>> /\ slots = 0
    /\ counts = [total |-> Cardinality(Blocks), up |-> 0, failed |-> 0]
    /\ isRunning = TRUE
    /\ pc = [t \in Workers |-> "none"]
    /\ wait = [t \in Workers |-> "no"]
    /\ hold = [t \in Workers |-> NoBlock]
    /\ creating = "test" /\ cancelled = FALSE /\ listed = FALSE
    /\ cancel = [by |-> NoOne, step |-> "none"]
    /\ request = [b \in Blocks |-> "none"]
    /\ retriesLeft = [b \in Blocks |-> Retries]
    /\ told = {} /\ cb = Idle /\ syncRequest = "none"
    /\ completed = FALSE
    /\ owners = {"queue", "starter", "saver"}
    /\ main = "idle" /\ terminated = FALSE

(* The first process runs a LocalProjectSnapshot and creates the uploader  *)
(* on the network thread; a later one runs a ResumedSnaphotUploadOperation *)
(* and creates it on the main thread.                                      *)
resumed == session > 1
Starter == IF resumed THEN "main" ELSE "net"

-----------------------------------------------------------------------------
(* MissingBlocksUploader::Cancel and the lifetime it ends.                 *)

(* A thread stays in Cancel() until it has joined all threads. *)
Cancelling(t) == cancel.by = t /\ cancel.step \in {"notify", "join"}

(* Mutant: mIsRunning is stored, not exchanged. *)
CancelUploaderAgain(t) ==
    /\ isRunning' = FALSE
    /\ cancel' = [by |-> t, step |-> IF cancel.step = "none" THEN "notify" ELSE "again"]

CancelUploader(t) ==
    IF isRunning
    THEN /\ isRunning' = FALSE
         /\ cancel' = [by |-> t,
                       step |-> IF cancel.step = "none" THEN "notify" ELSE "again"]
    ELSE UNCHANGED <<isRunning, cancel>>

(* CancellationContext::Cancel: the first call takes the list of objects.  *)
CancelContext(t) ==
    /\ cancelled' = TRUE
    /\ IF ~cancelled /\ listed
       THEN listed' = FALSE /\ CancelUploader(t)
       ELSE UNCHANGED <<listed, isRunning, cancel>>

(* The network thread locks the uploader for the callback of a block.      *)
NetHoldsUploader == cb.at \in {"count", "row", "verdict", "release", "cancel", "leave"}

(* Thread t gives up its share and o is left: the last owner destroys the  *)
(* operation and, unless somebody else holds it, the uploader with it.     *)
Leaves(t, o) ==
    /\ owners' = o
    /\ IF o = {} /\ ~NetHoldsUploader
       THEN CancelUploader(t)
       ELSE UNCHANGED <<isRunning, cancel>>

(* UploadFailed, OnSyncCompleted: the queue lets go of the operation.      *)
Complete(o) == IF completed THEN o ELSE o \ {"queue"}

(* Cancel() signals without the mutexes of the waits: a thread between its *)
(* test and its sleep misses it.                                           *)
Dozing == \E t \in Workers : wait[t] = "dozing"

Notify ==
    /\ cancel.step = "notify"
    /\ Dozing => "notifyBetweenTestAndSleep" \in Faults
    /\ wait' = [t \in Workers |-> IF wait[t] = "asleep" THEN "no" ELSE wait[t]]
    /\ cancel' = [cancel EXCEPT !.step = "join"]
    /\ UNCHANGED <<durable, todo, ring, pc, hold, slots, counts, isRunning, creating,
                   context, network, completed, owners, main, terminated>>

(* A join of the own thread, of one that was not started or that has been  *)
(* joined throws, and nobody catches it.                                   *)
JoinThrows == cancel.by \in Workers \/ creating # "made" \/ cancel.step = "again"

WorkersDone == \A t \in Workers : pc[t] = "done"

(* Mutant: only the producers are joined. *)
JoinProducers ==
    /\ cancel.step \in {"join", "again"}
    /\ ~JoinThrows => \A t \in Producers : pc[t] = "done"
    /\ terminated' = JoinThrows
    /\ cancel' = [cancel EXCEPT !.step = "done"]
    /\ UNCHANGED <<durable, workers, slots, counts, isRunning, creating, context,
                   network, completed, owners, main>>

Join ==
    /\ cancel.step \in {"join", "again"}
    /\ ~JoinThrows => WorkersDone
    /\ terminated' = JoinThrows
    /\ cancel' = [cancel EXCEPT !.step = "done"]
    /\ UNCHANGED <<durable, workers, slots, counts, isRunning, creating, context,
                   network, completed, owners, main>>

-----------------------------------------------------------------------------
(* MissingBlocksUploader::Create: OnCancelled tests the flag, then lists   *)
(* the uploader, unless the flag was set: Cancel() is then called, and its *)
(* joins of threads that were never started throw.  Start begins the       *)
(* threads.                                                                *)
TestCancelled ==
    /\ creating = "test"
    /\ creating' = "list"
    /\ IF cancelled THEN CancelUploader(Starter) ELSE UNCHANGED <<isRunning, cancel>>
    /\ UNCHANGED <<durable, workers, slots, counts, context, network, completed,
                   owners, main, terminated>>

List ==
    /\ creating = "list" /\ cancel.by # Starter
    /\ listed' = TRUE
    /\ creating' = "start"
    /\ UNCHANGED <<durable, workers, slots, counts, isRunning, cancelled, cancel,
                   network, completed, owners, main, terminated>>

Start ==
    /\ creating = "start"
    /\ pc' = [t \in Workers |-> IF t = "consumer" THEN "pop" ELSE "loop"]
    /\ creating' = "made"
    /\ Leaves(Starter, owners \ {"starter"})
    /\ UNCHANGED <<durable, todo, ring, wait, hold, slots, counts, context, network,
                   completed, main, terminated>>

-----------------------------------------------------------------------------
(* The waits.  A thread tests its condition under the mutex; if it fails,  *)
(* it dozes off with the mutex still held, and only then sleeps.           *)
RingFree == \A t \in Workers : ~(wait[t] = "dozing" /\ pc[t] \in {"push", "pop"})
SlotsFree == ~(wait["consumer"] = "dozing" /\ pc["consumer"] = "slot")

DozeOff(t) == /\ wait' = [wait EXCEPT ![t] = "dozing"]
              /\ UNCHANGED <<pc, hold>>

Sleep(t) ==
    /\ wait[t] = "dozing"
    /\ wait' = [wait EXCEPT ![t] = "asleep"]
    /\ UNCHANGED <<durable, todo, ring, pc, hold, slots, counts, isRunning, creating,
                   context, cancel, network, completed, owners, main, terminated>>

Asleep(s) == {t \in s : wait[t] = "asleep"}

(* notify_one: what becomes of the waits when one sleeper of s is woken.   *)
OneWoken(s) == IF Asleep(s) = {} THEN {wait}
               ELSE {[wait EXCEPT ![t] = "no"] : t \in Asleep(s)}

Go(t, s, b) == /\ pc' = [pc EXCEPT ![t] = s]
               /\ hold' = [hold EXCEPT ![t] = b]

(* ProducerThread: the next task, if there is one and nobody cancelled.    *)
TakeTask(p) ==
    /\ pc[p] = "loop"
    /\ IF isRunning /\ todo # {}
       THEN \E b \in todo : /\ \A c \in todo : b <= c
                            /\ todo' = todo \ {b}
                            /\ Go(p, "compress", b)
       ELSE Go(p, "done", NoBlock) /\ UNCHANGED todo
    /\ UNCHANGED <<durable, ring, wait, slots, counts, isRunning, creating, context,
                   cancel, network, completed, owners, main, terminated>>

(* CompressBlock returns nothing if it fails: the producer itself reports  *)
(* that.  When nobody but the queue holds the operation then, the producer *)
(* becomes the last owner.                                                 *)
HeldBesides(p) == "lastOwnerIsProducer" \in Faults \/ "saver" \in owners

Compress(p) ==
    /\ pc[p] = "compress"
    /\ \/ Go(p, "push", hold[p]) /\ UNCHANGED counts
       \/ /\ HeldBesides(p)
          /\ Go(p, "report", hold[p])
          /\ counts' = [counts EXCEPT !.failed = @ + 1]
    /\ UNCHANGED <<durable, todo, ring, wait, slots, isRunning, creating, context,
                   cancel, network, completed, owners, main, terminated>>

(* The progress callback on the producer thread, with InternalClientError: *)
(* only a resumed operation counts that as a reason to drop the row.       *)
ReportFailure(p) ==
    /\ pc[p] = "report"
    /\ Go(p, "loop", NoBlock)
    /\ IF owners = {}
       THEN UNCHANGED <<pending, refused, completed, owners, isRunning, cancel>>
       ELSE /\ pending' = IF resumed THEN pending \ {hold[p]} ELSE pending
            /\ refused' = (refused \/ (resumed /\ hold[p] \notin uploaded))
            /\ completed' = TRUE
            /\ Leaves(p, Complete(owners))
    /\ UNCHANGED <<uploaded, synced, snapshotRow, session, todo, ring, wait, slots,
                   counts, creating, context, network, main, terminated>>

RingFull == Len(ring) = RingSize - 1

PushBlockToQueue(p) ==
    /\ pc[p] = "push" /\ wait[p] = "no" /\ RingFree
    /\ \/ ~isRunning /\ Go(p, "loop", NoBlock) /\ UNCHANGED <<ring, wait>>
       \/ /\ isRunning /\ ~RingFull
          /\ ring' = Append(ring, hold[p])
          /\ wait' \in OneWoken(IF pc["consumer"] = "pop" THEN {"consumer"} ELSE {})
          /\ Go(p, "loop", NoBlock)
       \/ isRunning /\ RingFull /\ DozeOff(p) /\ UNCHANGED ring
    /\ UNCHANGED <<durable, todo, slots, counts, isRunning, creating, context, cancel,
                   network, completed, owners, main, terminated>>

(* ConsumerThread and PopBlockFromQueue. *)
PopBlockFromQueue ==
    /\ pc["consumer"] = "pop" /\ wait["consumer"] = "no" /\ RingFree
    /\ \/ ~isRunning /\ Go("consumer", "done", NoBlock) /\ UNCHANGED <<ring, wait>>
       \/ /\ isRunning /\ ring # <<>>
          /\ Go("consumer", "slot", Head(ring))
          /\ ring' = Tail(ring)
          /\ wait' \in OneWoken(Producers)
       \/ isRunning /\ ring = <<>> /\ DozeOff("consumer") /\ UNCHANGED ring
    /\ UNCHANGED <<durable, todo, slots, counts, isRunning, creating, context, cancel,
                   network, completed, owners, main, terminated>>

(* ConsumeBlock: wait for an upload slot, then take it. *)
TakeSlot ==
    /\ pc["consumer"] = "slot" /\ wait["consumer"] = "no"
    /\ \/ ~isRunning /\ Go("consumer", "done", NoBlock) /\ UNCHANGED <<slots, wait>>
       \/ /\ isRunning /\ slots < MaxUploads
          /\ slots' = slots + 1
          /\ Go("consumer", "upload", hold["consumer"])
          /\ UNCHANGED wait
       \/ isRunning /\ slots >= MaxUploads /\ DozeOff("consumer") /\ UNCHANGED slots
    /\ UNCHANGED <<durable, todo, ring, counts, isRunning, creating, context, cancel,
                   network, completed, owners, main, terminated>>

(* DataUploader::Upload, PerformUpload: the first request of the block.    *)
Upload ==
    /\ pc["consumer"] = "upload"
    /\ request' = [request EXCEPT ![hold["consumer"]] = "put"]
    /\ Go("consumer", "pop", NoBlock)
    /\ UNCHANGED <<durable, todo, ring, wait, slots, counts, isRunning, creating,
                   context, cancel, retriesLeft, told, cb, syncRequest, completed,
                   owners, main, terminated>>

WorkerStep(t) == \/ Sleep(t)
                 \/ t \in Producers /\ (\/ TakeTask(t) \/ Compress(t)
                                        \/ ReportFailure(t) \/ PushBlockToQueue(t))
                 \/ t = "consumer" /\ (PopBlockFromQueue \/ TakeSlot \/ Upload)

-----------------------------------------------------------------------------
(* The network thread runs the callbacks of all requests, one at a time.   *)
NetFree == /\ cb.at = "idle" /\ ~Cancelling("net")
           /\ resumed \/ creating = "made"

(* The next request of the operation of block b. *)
Ask(b, r, n) == /\ request' = [request EXCEPT ![b] = r]
                /\ retriesLeft' = [retriesLeft EXCEPT ![b] = n]

(* The operation calls back: the uploader may be gone by then. *)
Tell(b, r) == cb' = IF owners = {} THEN Idle
                    ELSE [Idle EXCEPT !.at = "count", !.block = b, !.result = r]

(* Mutant: UploadFailed is not exchanged but set. *)
FailUploadAgain(b, r, n) == /\ told' = told \cup {b}
                            /\ Ask(b, "fail", n)
                            /\ Tell(b, r)

(* FailUpload notifies the server, again and again if the connection is    *)
(* lost, and calls back the first time.                                    *)
FailUpload(b, r, n) == /\ told' = told \cup {b}
                       /\ Ask(b, "fail", n)
                       /\ IF b \in told THEN UNCHANGED cb ELSE Tell(b, r)

(* The answer to a request.  A lost connection may hide a success.         *)
AnswerPut(b, r) ==
    /\ request[b] = "put"
    /\ \/ r = "ok" /\ Ask(b, "confirm", Retries) /\ UNCHANGED <<told, cb>>
       \/ /\ r = "connection" /\ retriesLeft[b] > 0
          /\ Ask(b, "put", retriesLeft[b] - 1)
          /\ UNCHANGED <<told, cb>>
       \/ r # "ok" /\ (r = "connection" => retriesLeft[b] = 0) /\ FailUpload(b, r, Retries)
    /\ UNCHANGED uploaded

AnswerConfirm(b, r) ==
    /\ request[b] = "confirm"
    /\ \/ /\ r = "ok"
          /\ Ask(b, "closed", 0) /\ Tell(b, r) /\ UNCHANGED told
       \/ /\ r = "connection" /\ retriesLeft[b] > 0
          /\ Ask(b, "confirm", retriesLeft[b] - 1)
          /\ UNCHANGED <<told, cb>>
       \/ r # "ok" /\ (r = "connection" => retriesLeft[b] = 0) /\ FailUpload(b, r, Retries)
    /\ \/ r \in {"ok", "connection"} /\ uploaded' = uploaded \cup {b}
       \/ r # "ok" /\ UNCHANGED uploaded

AnswerFail(b, r) ==
    /\ request[b] = "fail"
    /\ IF r = "connection" /\ retriesLeft[b] > 0
       THEN FailUpload(b, r, retriesLeft[b] - 1)
       ELSE Ask(b, "closed", 0) /\ UNCHANGED <<told, cb>>
    /\ UNCHANGED uploaded

Answer(b, r) ==
    /\ NetFree
    /\ AnswerPut(b, r) \/ AnswerConfirm(b, r) \/ AnswerFail(b, r)
    /\ UNCHANGED <<synced, pending, snapshotRow, refused, session, workers, slots,
                   counts, isRunning, creating, context, cancel, syncRequest,
                   completed, owners, main, terminated>>

(* ConfirmBlock and HandleFailedBlock: count, report, free the slot.       *)
(* Mutant: a failure does not take part in the verdict. *)
VerdictWithoutFailures(c) ==
    IF c.up + c.failed = c.total THEN "synced" ELSE "more"

(* The progress callback: completed = UploadedBlocks == TotalBlocks ||     *)
(* FailedBlocks != 0, judged by the copy made under the mutex.             *)
Verdict(c) == IF c.failed # 0 THEN "failed"
              ELSE IF c.up = c.total THEN "synced" ELSE "more"

CountBlock ==
    /\ cb.at = "count"
    /\ counts' = IF cb.result = "ok" THEN [counts EXCEPT !.up = @ + 1]
                 ELSE [counts EXCEPT !.failed = @ + 1]
    /\ cb' = [cb EXCEPT !.at = "row", !.verdict = Verdict(counts')]
    /\ UNCHANGED <<durable, workers, slots, isRunning, creating, context, cancel,
                   request, retriesLeft, told, syncRequest, completed, owners, main,
                   terminated>>

(* IsUploadRecoverable in the first process, a shorter list in later ones. *)
BeyondRecovery == IF resumed THEN {"denied", "refused"} ELSE {"refused"}

(* The row of a block goes when it is uploaded or cannot be recovered.     *)
RowGoes(r) == r = "ok" \/ r \in BeyondRecovery

RemoveRow ==
    /\ cb.at = "row"
    /\ IF owners = {}
       THEN /\ cb' = [cb EXCEPT !.at = "release"]
            /\ UNCHANGED <<pending, refused, owners>>
       ELSE /\ cb' = [cb EXCEPT !.at = "verdict"]
            /\ pending' = IF RowGoes(cb.result) THEN pending \ {cb.block} ELSE pending
            /\ refused' = (refused \/ cb.result \in BeyondRecovery)
            /\ owners' = owners \cup {"net"}
    /\ UNCHANGED <<uploaded, synced, snapshotRow, session, workers, slots, counts,
                   isRunning, creating, context, cancel, request, retriesLeft, told,
                   syncRequest, completed, main, terminated>>

(* Mutant: the row of the snapshot goes when the sync is requested. *)
GiveVerdictAndForget ==
    /\ cb.at = "verdict"
    /\ cb' = [cb EXCEPT !.at = "release"]
    /\ syncRequest' = IF cb.verdict = "synced" THEN "sent" ELSE syncRequest
    /\ snapshotRow' = (snapshotRow /\ cb.verdict # "synced")
    /\ completed' = (completed \/ cb.verdict = "failed")
    /\ Leaves("net", (IF cb.verdict = "failed" THEN Complete(owners) ELSE owners) \ {"net"})
    /\ UNCHANGED <<uploaded, synced, pending, refused, session, workers, slots, counts,
                   creating, context, request, retriesLeft, told, main, terminated>>

(* MarkSnapshotSynced or DataUploadFailed. *)
GiveVerdict ==
    /\ cb.at = "verdict"
    /\ cb' = [cb EXCEPT !.at = "release"]
    /\ syncRequest' = IF cb.verdict = "synced" THEN "sent" ELSE syncRequest
    /\ completed' = (completed \/ cb.verdict = "failed")
    /\ Leaves("net", (IF cb.verdict = "failed" THEN Complete(owners) ELSE owners) \ {"net"})
    /\ UNCHANGED <<durable, workers, slots, counts, creating, context, request,
                   retriesLeft, told, main, terminated>>

(* Mutant: the consumer is not told about the free slot. *)
ReleaseSilently ==
    /\ cb.at = "release" /\ SlotsFree
    /\ slots' = slots - 1
    /\ cb' = [cb EXCEPT !.at = IF cb.result = "ok" THEN "leave" ELSE "cancel"]
    /\ UNCHANGED <<durable, workers, counts, isRunning, creating, context, cancel,
                   request, retriesLeft, told, syncRequest, completed, owners, main,
                   terminated>>

ReleaseSlot ==
    /\ cb.at = "release" /\ SlotsFree
    /\ slots' = slots - 1
    /\ wait' \in OneWoken(IF pc["consumer"] = "slot" THEN {"consumer"} ELSE {})
    /\ cb' = [cb EXCEPT !.at = IF cb.result = "ok" THEN "leave" ELSE "cancel"]
    /\ UNCHANGED <<durable, todo, ring, pc, hold, counts, isRunning, creating, context,
                   cancel, request, retriesLeft, told, syncRequest, completed, owners,
                   main, terminated>>

(* A failed block cancels everything else. *)
CancelAfterFailure ==
    /\ cb.at = "cancel"
    /\ CancelContext("net")
    /\ cb' = [cb EXCEPT !.at = "leave"]
    /\ UNCHANGED <<durable, workers, slots, counts, creating, request, retriesLeft, told,
                   syncRequest, completed, owners, main, terminated>>

(* The callback ends: it may be the last to hold the uploader. *)
LeaveCallback ==
    /\ cb.at = "leave" /\ ~Cancelling("net")
    /\ cb' = Idle
    /\ IF owners = {} THEN CancelUploader("net") ELSE UNCHANGED <<isRunning, cancel>>
    /\ UNCHANGED <<durable, workers, slots, counts, creating, context, request,
                   retriesLeft, told, syncRequest, completed, owners, main, terminated>>

(* The answer to the last request.  Its row goes before the error is       *)
(* looked at; without the fault, only the answer is lost, not the request. *)
Heard == synced \/ "syncRequestLost" \notin Faults

AnswerSync ==
    /\ NetFree /\ syncRequest = "sent"
    /\ syncRequest' = "closed"
    /\ synced' \in {TRUE, Heard}
    /\ IF owners = {}
       THEN UNCHANGED <<snapshotRow, completed, owners, isRunning, cancel>>
       ELSE /\ snapshotRow' = FALSE
            /\ completed' = TRUE
            /\ Leaves("net", Complete(owners))
    /\ UNCHANGED <<uploaded, pending, refused, session, workers, slots, counts, creating,
                   context, request, retriesLeft, told, cb, main, terminated>>

NetStep == \/ \E b \in Blocks, r \in Results : Answer(b, r)
           \/ CountBlock \/ RemoveRow \/ GiveVerdict \/ ReleaseSlot
           \/ CancelAfterFailure \/ LeaveCallback
           \/ AnswerSync

CreateStep == TestCancelled \/ List \/ Start

-----------------------------------------------------------------------------
(* The main thread.  It may cancel while the network thread creates the    *)
(* uploader; the one of a resumed operation it creates itself.             *)
MayCancel == creating = "made" \/ (~resumed /\ "cancelDuringCreate" \in Faults)

(* The user stops the synchronisation: the queue is taken over first, its  *)
(* operation cancelled then.                                               *)
CancelSync ==
    /\ main = "idle" /\ "queue" \in owners /\ MayCancel
    /\ main' = "cancel"
    /\ owners' = (owners \ {"queue"}) \cup {"main"}
    /\ UNCHANGED <<durable, workers, slots, counts, isRunning, creating, context, cancel,
                   network, completed, terminated>>

(* The project could not be saved: LocalProjectSnapshot::Abort. *)
Abort ==
    /\ main \in {"idle", "ended"} /\ "saver" \in owners /\ MayCancel
    /\ main' = "cancel"
    /\ owners' = (owners \ {"saver"}) \cup {"main"}
    /\ UNCHANGED <<durable, workers, slots, counts, isRunning, creating, context, cancel,
                   network, completed, terminated>>

(* Cancel and Abort: the context first, then UploadFailed. *)
CancelOperation ==
    /\ main = "cancel"
    /\ CancelContext("main")
    /\ main' = "fail"
    /\ UNCHANGED <<durable, workers, slots, counts, creating, network, completed, owners,
                   terminated>>

FailOperation ==
    /\ main = "fail" /\ ~Cancelling("main")
    /\ main' = "ended"
    /\ completed' = TRUE
    /\ Leaves("main", Complete(owners) \ {"main"})
    /\ UNCHANGED <<durable, workers, slots, counts, creating, context, network, terminated>>

MainStep == CancelOperation \/ FailOperation

(* The project is saved: the operation is let go of. *)
NobodyReports == \A p \in Producers : pc[p] # "report"

Saved ==
    /\ "saver" \in owners
    /\ NobodyReports \/ "lastOwnerIsProducer" \in Faults
    /\ Leaves("saver", owners \ {"saver"})
    /\ UNCHANGED <<durable, workers, slots, counts, creating, context, network, completed,
                   main, terminated>>

(* The process ends, in whatever state, and another one opens the project: *)
(* ResumeProjectUpload, with nothing but the rows.                         *)
Restart ==
    /\ session < MaxSessions /\ snapshotRow
    /\ ~refused \/ "resumeAfterRefusal" \in Faults
    /\ session' = session + 1
    /\ todo' = pending /\ ring' = <<>> /\ slots' = 0
    /\ counts' = [total |-> Cardinality(pending), up |-> 0, failed |-> 0]
    /\ isRunning' = TRUE
    /\ pc' = [t \in Workers |-> "none"]
    /\ wait' = [t \in Workers |-> "no"]
    /\ hold' = [t \in Workers |-> NoBlock]
    /\ creating' = "test" /\ cancelled' = FALSE /\ listed' = FALSE
    /\ cancel' = [by |-> NoOne, step |-> "none"]
    /\ request' = [b \in Blocks |-> "none"]
    /\ retriesLeft' = [b \in Blocks |-> Retries]
    /\ told' = {} /\ cb' = Idle
    /\ syncRequest' = IF pending = {} THEN "sent" ELSE "none"
    /\ completed' = FALSE
    /\ owners' = {"queue", "starter"}
    /\ main' = "idle"
    /\ UNCHANGED <<uploaded, synced, pending, snapshotRow, refused, terminated>>

Next == /\ ~terminated
        /\ \/ \E t \in Workers : WorkerStep(t)
           \/ NetStep \/ CreateStep \/ Notify \/ Join
           \/ CancelSync \/ Abort \/ MainStep \/ Saved
           \/ Restart

(* Every thread runs, every request is answered (the network manager has a *)
(* transfer timeout) and saving ends; nobody has to cancel or to restart.  *)
Fairness == /\ \A t \in Workers : WF_vars(WorkerStep(t))
            /\ WF_vars(NetStep) /\ WF_vars(CreateStep)
            /\ WF_vars(Notify) /\ WF_vars(Join)
            /\ WF_vars(MainStep) /\ WF_vars(Saved)

Spec == Init /\ [][Next]_vars /\ Fairness

-----------------------------------------------------------------------------
(* As long as the operation lives, the slots in use are the blocks that    *)
(* are uploading, up to the end of their callback, and the limit holds:    *)
(* no answer, retry or notification frees a slot twice or never.           *)
Uploading == {b \in Blocks : \/ pc["consumer"] = "upload" /\ hold["consumer"] = b
                             \/ request[b] \in {"put", "confirm"}
                             \/ cb.block = b /\ cb.at \in {"count", "row", "verdict", "release"}}

SlotsAccounted == /\ owners # {} => slots = Cardinality(Uploading)
                  /\ slots <= MaxUploads

(* The server is asked to mark the snapshot as synced only when it has     *)
(* confirmed every block, in whichever processes they were uploaded.       *)
SyncedMeansUploaded == syncRequest # "none" \/ synced => uploaded = Blocks

RowsCoverMissing == ~refused => Blocks \subseteq uploaded \cup pending

(* Whenever the process ends, an upload that did not succeed can be        *)
(* resumed: the row of the snapshot is there until the server has marked   *)
(* it as synced, and the rows of blocks name every one that the server     *)
(* still misses, unless it refused one.                                    *)
ResumableUntilSynced == (snapshotRow \/ synced) /\ RowsCoverMissing

(* No thread joins itself, a thread that was never started, or one that    *)
(* another thread has joined.                                              *)
JoinsAreLegal == ~terminated

(* Once Cancel() has joined the threads, no block starts to upload and no  *)
(* producer or consumer takes a step.  The callback of a request that was  *)
(* under way may still come, and counts and releases its slot.             *)
NothingAfterCancel == [][
    cancel.step = "done" /\ session' = session =>
        /\ \A b \in Blocks : request[b] = "none" => request'[b] = "none"
        /\ pc' = pc]_vars

(* The upload completes, and when all who hold the operation let go of it, *)
(* every thread of the uploader has ended: nobody sleeps for ever, and no  *)
(* join waits for ever.                                                    *)
EverythingEnds == <>[](completed /\ WorkersDone)
=============================================================================
