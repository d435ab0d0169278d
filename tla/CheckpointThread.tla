-------------------------- MODULE CheckpointThread --------------------------
(***************************************************************************)
(* A database connection (DBConnection) and its checkpoint thread.  Any    *)
(* thread may commit through the connection; the hook of a commit asks the *)
(* thread, under a mutex and a condition variable, for a checkpoint.       *)
(* Close() polls two of the flags without the mutex, stops the thread,     *)
(* joins it and checkpoints what is left.                                  *)
(***************************************************************************)
EXTENDS Integers, FiniteSets

CONSTANTS
    Writers, \* the threads that commit, the main thread among them
    Nobody,  \* the mutex is free
    Thread,  \* the checkpoint thread, as an owner of the mutex
    MaxWal   \* bound: transactions in the write-ahead log

ASSUME OwnerAssumption == Nobody # Thread
ASSUME BoundAssumption == MaxWal \in Nat \ {0}

VARIABLES
    main,    \* where Open() and Close() are
    ck,      \* where the checkpoint thread is
    writer,  \* per writer: idle, or between its commit and its hook
    mutex,   \* mCheckpointMutex
    pending, \* mCheckpointPending
    active,  \* mCheckpointActive
    stop,    \* mCheckpointStop
    wal,     \* transactions not yet in the main file
    unseen,  \* history: a commit no checkpoint has started after
    busy     \* another reader makes a checkpoint return SQLITE_BUSY

shared == <<mutex, pending, active, stop>>
vars == <<main, ck, writer, shared, wal, unseen, busy>>

Init ==
    /\ main = "closed"
    /\ ck = "none"
    /\ writer = [w \in Writers |-> "idle"]
    /\ mutex = Nobody
    /\ pending = FALSE
    /\ active = FALSE
    /\ stop = FALSE
    /\ wal = 0
    /\ unseen = FALSE
    /\ busy = FALSE

WritersIdle == \A w \in Writers : writer[w] = "idle"

(* notify_one: there is only one waiter.                                   *)
Notified == IF ck = "waiting" THEN "woken" ELSE ck

-----------------------------------------------------------------------------
(* The main thread: Open() and Close().                                    *)

OpenConnection ==
    /\ main = "closed"
    /\ pending' = FALSE
    /\ active' = FALSE
    /\ stop' = FALSE
    /\ ck' = "woken"
    /\ main' = "open"
    /\ UNCHANGED <<writer, mutex, wal, unseen, busy>>

(* The hook is uninstalled.  Audio is stopped and all writers are done     *)
(* when a connection is closed.                                            *)
Close ==
    /\ main = "open"
    /\ WritersIdle
    /\ main' = "pollPending"
    /\ UNCHANGED <<ck, writer, shared, wal, unseen, busy>>

(* while (mCheckpointPending || mCheckpointActive), without the mutex.     *)
PollPending ==
    /\ main = "pollPending"
    /\ ~pending
    /\ main' = "pollActive"
    /\ UNCHANGED <<ck, writer, shared, wal, unseen, busy>>

PollActive ==
    /\ main = "pollActive"
    /\ main' = IF active THEN "pollPending" ELSE "stop"
    /\ UNCHANGED <<ck, writer, shared, wal, unseen, busy>>

(* Mutant: the stop flag is set and nobody is told.                        *)
StopWithoutNotify ==
    /\ main = "stop"
    /\ mutex = Nobody
    /\ stop' = TRUE
    /\ main' = "join"
    /\ UNCHANGED <<ck, writer, mutex, pending, active, wal, unseen, busy>>

Stop ==
    /\ main = "stop"
    /\ mutex = Nobody
    /\ stop' = TRUE
    /\ ck' = Notified
    /\ main' = "join"
    /\ UNCHANGED <<writer, mutex, pending, active, wal, unseen, busy>>

(* The thread has ended: the last checkpoint, which may leave the log, and *)
(* both connections are closed.                                            *)
Join ==
    /\ main = "join"
    /\ ck = "ended"
    /\ ck' = "none"
    /\ wal' \in {0, wal}
    /\ unseen' = FALSE
    /\ main' = "closed"
    /\ UNCHANGED <<writer, shared, busy>>

-----------------------------------------------------------------------------
(* Writers: a commit, then CheckpointHook under the mutex.                 *)

Commit(w) ==
    /\ main = "open"
    /\ writer[w] = "idle"
    /\ wal < MaxWal
    /\ wal' = wal + 1
    /\ unseen' = TRUE
    /\ writer' = [writer EXCEPT ![w] = "hook"]
    /\ UNCHANGED <<main, ck, shared, busy>>

(* Mutant: the thread is not signalled.                                    *)
HookWithoutNotify(w) ==
    /\ writer[w] = "hook"
    /\ mutex = Nobody
    /\ pending' = TRUE
    /\ writer' = [writer EXCEPT ![w] = "idle"]
    /\ UNCHANGED <<main, ck, mutex, active, stop, wal, unseen, busy>>

CheckpointHook(w) ==
    /\ writer[w] = "hook"
    /\ mutex = Nobody
    /\ pending' = TRUE
    /\ ck' = Notified
    /\ writer' = [writer EXCEPT ![w] = "idle"]
    /\ UNCHANGED <<main, mutex, active, stop, wal, unseen, busy>>

(* Reads on the primary connection, such as drawing the tracks.            *)
BeginRead ==
    /\ main = "open"
    /\ ~busy
    /\ busy' = TRUE
    /\ UNCHANGED <<main, ck, writer, shared, wal, unseen>>

EndRead ==
    /\ busy
    /\ busy' = FALSE
    /\ UNCHANGED <<main, ck, writer, shared, wal, unseen>>

-----------------------------------------------------------------------------
(* The checkpoint thread.                                                  *)

Lock ==
    /\ ck = "woken"
    /\ mutex = Nobody
    /\ mutex' = Thread
    /\ ck' = "testing"
    /\ UNCHANGED <<main, writer, pending, active, stop, wal, unseen, busy>>

(* The predicate of the wait, then the wait itself, which releases the     *)
(* mutex.                                                                  *)
Test ==
    /\ ck = "testing"
    /\ ck' = IF pending \/ stop THEN "working" ELSE "sleeping"
    /\ UNCHANGED <<main, writer, shared, wal, unseen, busy>>

Sleep ==
    /\ ck = "sleeping"
    /\ mutex' = Nobody
    /\ ck' = "waiting"
    /\ UNCHANGED <<main, writer, pending, active, stop, wal, unseen, busy>>

SpuriousWakeup ==
    /\ ck = "waiting"
    /\ ck' = "woken"
    /\ UNCHANGED <<main, writer, shared, wal, unseen, busy>>

End ==
    /\ ck = "working"
    /\ stop
    /\ mutex' = Nobody
    /\ ck' = "ended"
    /\ UNCHANGED <<main, writer, pending, active, stop, wal, unseen, busy>>

(* Mutant: the request is taken before the checkpoint counts as active.    *)
ClaimPendingFirst ==
    /\ \/ /\ ck = "working"
          /\ ~stop
          /\ pending' = FALSE
          /\ ck' = "claiming"
          /\ UNCHANGED <<active, mutex>>
       \/ /\ ck = "claiming"
          /\ active' = TRUE
          /\ ck' = "checkpoint"
          /\ mutex' = Nobody
          /\ UNCHANGED pending
    /\ UNCHANGED <<main, writer, stop, wal, unseen, busy>>

(* mCheckpointActive is set, then mCheckpointPending is reset, which       *)
(* Close() reads without the mutex.                                        *)
Claim ==
    /\ \/ /\ ck = "working"
          /\ ~stop
          /\ active' = TRUE
          /\ ck' = "claiming"
          /\ UNCHANGED <<pending, mutex>>
       \/ /\ ck = "claiming"
          /\ pending' = FALSE
          /\ ck' = "checkpoint"
          /\ mutex' = Nobody
          /\ UNCHANGED active
    /\ UNCHANGED <<main, writer, stop, wal, unseen, busy>>

(* A passive checkpoint, tried again every millisecond while SQLITE_BUSY.  *)
(* It may leave transactions in the log, and it may fail.                  *)
Checkpoint ==
    /\ ck = "checkpoint"
    /\ ~busy
    /\ unseen' = FALSE
    /\ \/ wal' \in 0 .. wal /\ ck' = "done"
       \/ UNCHANGED wal /\ ck' = "failed"
    /\ UNCHANGED <<main, writer, shared, busy>>

(* mCheckpointActive is reset without the mutex; a failure is reported to  *)
(* the user, which the model leaves out.                                   *)
ResetActive ==
    /\ ck \in {"done", "failed"}
    /\ active' = FALSE
    /\ ck' = "woken"
    /\ UNCHANGED <<main, writer, mutex, pending, stop, wal, unseen, busy>>

ThreadStep ==
    Lock \/ Test \/ Sleep \/ End \/ Claim \/ Checkpoint \/ ResetActive

CloseStep == PollPending \/ PollActive \/ Stop \/ Join

Next ==
    \/ OpenConnection \/ Close \/ CloseStep
    \/ \E w \in Writers : Commit(w) \/ CheckpointHook(w)
    \/ BeginRead \/ EndRead
    \/ ThreadStep \/ SpuriousWakeup

(* Every thread runs, none waits for the mutex forever, every read ends,   *)
(* and the 1 ms retry of a checkpoint finds a moment without a reader.     *)
(* Nobody has to open, commit or close.                                    *)
Fairness ==
    /\ WF_vars(CloseStep)
    /\ WF_vars(ThreadStep)
    /\ SF_vars(Stop)
    /\ SF_vars(Lock)
    /\ SF_vars(Checkpoint)
    /\ WF_vars(EndRead)
    /\ \A w \in Writers : SF_vars(CheckpointHook(w))

Spec == Init /\ [][Next]_vars /\ Fairness

-----------------------------------------------------------------------------
(* Every variable has its type, the thread owns the mutex exactly in its   *)
(* critical section, and the active flag tells where it is.                *)
TypeOK ==
    /\ main \in {"closed", "open", "pollPending", "pollActive", "stop", "join"}
    /\ ck \in {"none", "woken", "testing", "sleeping", "waiting", "working",
               "claiming", "checkpoint", "done", "failed", "ended"}
    /\ writer \in [Writers -> {"idle", "hook"}]
    /\ mutex \in {Nobody, Thread}
    /\ {pending, active, stop, unseen, busy} \subseteq BOOLEAN
    /\ wal \in 0 .. MaxWal
    /\ mutex = Thread <=> ck \in {"testing", "sleeping", "working", "claiming"}
    /\ active <=> ck \in {"claiming", "checkpoint", "done", "failed"}

(* No commit is forgotten: once its hook has run, a checkpoint that starts *)
(* after it has been asked for, or is about to start.                      *)
NoCommitForgotten ==
    main = "open" /\ unseen /\ WritersIdle => pending \/ ck = "checkpoint"

(* The polling of Close() sees every checkpoint although it takes no       *)
(* mutex: when it goes on, none is requested and none is running.          *)
PollSeesCheckpoint ==
    main \in {"stop", "join"} =>
        ~pending /\ ~active /\ ck \notin {"claiming", "checkpoint"}

(* A sleeping thread has been signalled of everything it must do.          *)
NoLostWakeup == ck = "waiting" => ~pending /\ ~stop

(* Close() always returns: the join never waits for a sleeping thread.     *)
CloseReturns == main = "pollPending" ~> main = "closed"

(* Every request leads to a checkpoint that starts after it.               *)
RequestServed == pending ~> ~unseen

=============================================================================
