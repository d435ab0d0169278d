----------------------- MODULE CheckpointThread_proofs -----------------------
(***************************************************************************)
(* Proofs about CheckpointThread, for every set of writers and every bound *)
(* on the write-ahead log.                                                 *)
(*                                                                         *)
(* The safety properties are not inductive: whether a sleeping thread has  *)
(* been told of everything depends on what it saw before it slept.         *)
(* ThreadInv and CloseInv say what is known at each place of the thread    *)
(* and of Close().                                                         *)
(***************************************************************************)
EXTENDS CheckpointThread, TLAPS

(* What the checkpoint thread knows where it is.                           *)
ThreadInv ==
    /\ ck = "none" <=> main = "closed"
    /\ ck = "sleeping" => ~pending /\ ~stop
    /\ ck = "working" => pending \/ stop
    /\ ck = "claiming" => pending /\ ~stop
    /\ ck = "ended" => main = "join"

(* What Close() knows where it is.                                         *)
CloseInv ==
    /\ stop => main \in {"join", "closed"}
    /\ main # "open" => WritersIdle
    /\ main \in {"pollActive", "stop", "join"} => ~pending
    /\ main \in {"stop", "join"} => ~active
    /\ main = "closed" => ~unseen

Safety == NoCommitForgotten /\ PollSeesCheckpoint /\ NoLostWakeup

Inv == TypeOK /\ ThreadInv /\ CloseInv /\ Safety

(* Types, the ownership of the mutex and the active flag.                  *)
LEMMA TypeStep == Inv /\ [Next]_vars => TypeOK'
<1> SUFFICES ASSUME Inv, [Next]_vars PROVE TypeOK'
  OBVIOUS
<1> USE OwnerAssumption, BoundAssumption DEF Inv, vars, shared, TypeOK, ThreadInv
<1>1. CASE OpenConnection
  BY <1>1 DEF OpenConnection
<1>2. CASE Close
  BY <1>2 DEF Close
<1>3. CASE PollPending
  BY <1>3 DEF PollPending
<1>4. CASE PollActive
  BY <1>4 DEF PollActive
<1>5. CASE Stop
  BY <1>5 DEF Stop, Notified
<1>6. CASE Join
  <2>1. wal' \in 0 .. MaxWal
    BY <1>6 DEF Join
  <2>2. ck = "ended" /\ ck' = "none" /\ main' = "closed"
    BY <1>6 DEF Join
  <2>3. UNCHANGED <<writer, mutex, pending, active, stop, busy>>
    BY <1>6 DEF Join
  <2>4. unseen' = FALSE
    BY <1>6 DEF Join
  <2>5. QED
    BY <2>1, <2>2, <2>3, <2>4
<1>7. ASSUME NEW w \in Writers, Commit(w) PROVE TypeOK'
  <2>1. wal' \in 0 .. MaxWal
    <3>1. wal \in 0 .. MaxWal /\ wal < MaxWal /\ wal' = wal + 1
      BY <1>7 DEF Commit
    <3>2. QED
      BY <3>1
  <2>2. writer' \in [Writers -> {"idle", "hook"}]
    BY <1>7 DEF Commit
  <2>3. UNCHANGED <<main, ck, mutex, pending, active, stop, busy>>
    BY <1>7 DEF Commit
  <2>4. unseen' = TRUE
    BY <1>7 DEF Commit
  <2>5. QED
    BY <2>1, <2>2, <2>3, <2>4
<1>8. ASSUME NEW w \in Writers, CheckpointHook(w) PROVE TypeOK'
  BY <1>8 DEF CheckpointHook, Notified
<1>9. CASE BeginRead
  BY <1>9 DEF BeginRead
<1>10. CASE EndRead
  BY <1>10 DEF EndRead
<1>11. CASE Lock
  BY <1>11 DEF Lock
<1>12. CASE Test
  BY <1>12 DEF Test
<1>13. CASE Sleep
  BY <1>13 DEF Sleep
<1>14. CASE End
  BY <1>14 DEF End
<1>15. CASE Claim
  BY <1>15 DEF Claim
<1>16. CASE Checkpoint
  <2>1. wal' \in 0 .. MaxWal
    BY <1>16 DEF Checkpoint
  <2>2. ck = "checkpoint" /\ ck' \in {"done", "failed"}
    BY <1>16 DEF Checkpoint
  <2>3. UNCHANGED <<main, writer, mutex, pending, active, stop, busy>>
    BY <1>16 DEF Checkpoint
  <2>4. unseen' = FALSE
    BY <1>16 DEF Checkpoint
  <2>5. QED
    BY <2>1, <2>2, <2>3, <2>4
<1>17. CASE ResetActive
  BY <1>17 DEF ResetActive
<1>18. CASE SpuriousWakeup
  BY <1>18 DEF SpuriousWakeup
<1>19. CASE UNCHANGED vars
  BY <1>19
<1>20. QED
  BY <1>1, <1>2, <1>3, <1>4, <1>5, <1>6, <1>7, <1>8, <1>9,
     <1>10, <1>11, <1>12, <1>13, <1>14, <1>15, <1>16, <1>17, <1>18, <1>19
     DEF Next, CloseStep, ThreadStep

(* What the thread knows stays true, whatever the others do.               *)
LEMMA ThreadInvStep == Inv /\ [Next]_vars => ThreadInv'
<1> SUFFICES ASSUME Inv, [Next]_vars PROVE ThreadInv'
  OBVIOUS
<1> USE OwnerAssumption, BoundAssumption
    DEF Inv, vars, shared, TypeOK, ThreadInv, CloseInv, WritersIdle
<1>1. CASE OpenConnection
  BY <1>1 DEF OpenConnection
<1>2. CASE Close
  BY <1>2 DEF Close
<1>3. CASE PollPending
  BY <1>3 DEF PollPending
<1>4. CASE PollActive
  BY <1>4 DEF PollActive
<1>5. CASE Stop
  BY <1>5 DEF Stop, Notified
<1>6. CASE Join
  BY <1>6 DEF Join
<1>7. ASSUME NEW w \in Writers, Commit(w) PROVE ThreadInv'
  BY <1>7 DEF Commit
<1>8. ASSUME NEW w \in Writers, CheckpointHook(w) PROVE ThreadInv'
  BY <1>8 DEF CheckpointHook, Notified
<1>9. CASE BeginRead
  BY <1>9 DEF BeginRead
<1>10. CASE EndRead
  BY <1>10 DEF EndRead
<1>11. CASE Lock
  BY <1>11 DEF Lock
<1>12. CASE Test
  BY <1>12 DEF Test
<1>13. CASE Sleep
  BY <1>13 DEF Sleep
<1>14. CASE End
  BY <1>14 DEF End
<1>15. CASE Claim
  BY <1>15 DEF Claim
<1>16. CASE Checkpoint
  BY <1>16 DEF Checkpoint
<1>17. CASE ResetActive
  BY <1>17 DEF ResetActive
<1>18. CASE SpuriousWakeup
  BY <1>18 DEF SpuriousWakeup
<1>19. CASE UNCHANGED vars
  BY <1>19
<1>20. QED
  BY <1>1, <1>2, <1>3, <1>4, <1>5, <1>6, <1>7, <1>8, <1>9,
     <1>10, <1>11, <1>12, <1>13, <1>14, <1>15, <1>16, <1>17, <1>18, <1>19
     DEF Next, CloseStep, ThreadStep

(* What Close() knows stays true, whatever the others do.                  *)
LEMMA CloseInvStep == Inv /\ [Next]_vars => CloseInv'
<1> SUFFICES ASSUME Inv, [Next]_vars PROVE CloseInv'
  OBVIOUS
<1> USE OwnerAssumption, BoundAssumption
    DEF Inv, vars, shared, TypeOK, ThreadInv, CloseInv, WritersIdle
<1>1. CASE OpenConnection
  BY <1>1 DEF OpenConnection
<1>2. CASE Close
  BY <1>2 DEF Close
<1>3. CASE PollPending
  BY <1>3 DEF PollPending
<1>4. CASE PollActive
  BY <1>4 DEF PollActive
<1>5. CASE Stop
  BY <1>5 DEF Stop, Notified
<1>6. CASE Join
  BY <1>6 DEF Join
<1>7. ASSUME NEW w \in Writers, Commit(w) PROVE CloseInv'
  BY <1>7 DEF Commit
<1>8. ASSUME NEW w \in Writers, CheckpointHook(w) PROVE CloseInv'
  BY <1>8 DEF CheckpointHook, Notified
<1>9. CASE BeginRead
  BY <1>9 DEF BeginRead
<1>10. CASE EndRead
  BY <1>10 DEF EndRead
<1>11. CASE Lock
  BY <1>11 DEF Lock
<1>12. CASE Test
  BY <1>12 DEF Test
<1>13. CASE Sleep
  BY <1>13 DEF Sleep
<1>14. CASE End
  BY <1>14 DEF End
<1>15. CASE Claim
  BY <1>15 DEF Claim
<1>16. CASE Checkpoint
  BY <1>16 DEF Checkpoint
<1>17. CASE ResetActive
  BY <1>17 DEF ResetActive
<1>18. CASE SpuriousWakeup
  BY <1>18 DEF SpuriousWakeup
<1>19. CASE UNCHANGED vars
  BY <1>19
<1>20. QED
  BY <1>1, <1>2, <1>3, <1>4, <1>5, <1>6, <1>7, <1>8, <1>9,
     <1>10, <1>11, <1>12, <1>13, <1>14, <1>15, <1>16, <1>17, <1>18, <1>19
     DEF Next, CloseStep, ThreadStep

(* The three safety properties.                                            *)
LEMMA SafetyStep == Inv /\ [Next]_vars => Safety'
<1> SUFFICES ASSUME Inv, [Next]_vars PROVE Safety'
  OBVIOUS
<1> USE OwnerAssumption, BoundAssumption
    DEF Inv, vars, shared, TypeOK, ThreadInv, CloseInv,
        WritersIdle, Safety, NoCommitForgotten, PollSeesCheckpoint, NoLostWakeup
<1>1. CASE OpenConnection
  BY <1>1 DEF OpenConnection
<1>2. CASE Close
  BY <1>2 DEF Close
<1>3. CASE PollPending
  BY <1>3 DEF PollPending
<1>4. CASE PollActive
  BY <1>4 DEF PollActive
<1>5. CASE Stop
  BY <1>5 DEF Stop, Notified
<1>6. CASE Join
  BY <1>6 DEF Join
<1>7. ASSUME NEW w \in Writers, Commit(w) PROVE Safety'
  BY <1>7 DEF Commit
<1>8. ASSUME NEW w \in Writers, CheckpointHook(w) PROVE Safety'
  BY <1>8 DEF CheckpointHook, Notified
<1>9. CASE BeginRead
  BY <1>9 DEF BeginRead
<1>10. CASE EndRead
  BY <1>10 DEF EndRead
<1>11. CASE Lock
  BY <1>11 DEF Lock
<1>12. CASE Test
  BY <1>12 DEF Test
<1>13. CASE Sleep
  BY <1>13 DEF Sleep
<1>14. CASE End
  BY <1>14 DEF End
<1>15. CASE Claim
  BY <1>15 DEF Claim
<1>16. CASE Checkpoint
  BY <1>16 DEF Checkpoint
<1>17. CASE ResetActive
  BY <1>17 DEF ResetActive
<1>18. CASE SpuriousWakeup
  BY <1>18 DEF SpuriousWakeup
<1>19. CASE UNCHANGED vars
  BY <1>19
<1>20. QED
  BY <1>1, <1>2, <1>3, <1>4, <1>5, <1>6, <1>7, <1>8, <1>9,
     <1>10, <1>11, <1>12, <1>13, <1>14, <1>15, <1>16, <1>17, <1>18, <1>19
     DEF Next, CloseStep, ThreadStep

(* A closed connection, with nobody in the middle of anything.             *)
LEMMA InitInv == Init => Inv
<1> SUFFICES ASSUME Init PROVE Inv
  OBVIOUS
<1>1. TypeOK
  <2>1. wal \in 0 .. MaxWal
    BY BoundAssumption DEF Init
  <2>2. writer \in [Writers -> {"idle", "hook"}]
    BY DEF Init
  <2>3. QED
    BY <2>1, <2>2, OwnerAssumption DEF Init, TypeOK
<1>2. WritersIdle
  BY DEF Init, WritersIdle
<1>3. ThreadInv /\ CloseInv
  BY <1>2 DEF Init, ThreadInv, CloseInv
<1>4. Safety
  BY DEF Init, Safety, NoCommitForgotten, PollSeesCheckpoint, NoLostWakeup
<1>5. QED
  BY <1>1, <1>3, <1>4 DEF Inv

(* Whatever the writers, the reads and Close() do around the checkpoint    *)
(* thread: the mutex and the active flag tell where the thread is, no      *)
(* commit is forgotten, Close() polls until no checkpoint is requested or  *)
(* running, and the thread never sleeps over a request or the stop flag    *)
(* (CheckpointThread, CheckpointHook and Close in DBConnection.cpp).       *)
THEOREM CheckpointSafety ==
    Spec => [](TypeOK /\ NoCommitForgotten /\ PollSeesCheckpoint /\ NoLostWakeup)
<1>1. Inv /\ [Next]_vars => Inv'
  BY TypeStep, ThreadInvStep, CloseInvStep, SafetyStep DEF Inv
<1>2. Inv => TypeOK /\ NoCommitForgotten /\ PollSeesCheckpoint /\ NoLostWakeup
  BY DEF Inv, Safety
<1>3. QED
  BY InitInv, <1>1, <1>2, PTL DEF Spec

(* The flags, the mutex and the places of the threads keep their types.    *)
THEOREM TypesHold == Spec => []TypeOK
BY CheckpointSafety, PTL

(* What the commit hook asked for is pending or being done: the thread     *)
(* resets no flag over a commit it has not seen.                           *)
THEOREM CommitsRemembered == Spec => []NoCommitForgotten
BY CheckpointSafety, PTL

(* The two reads of Close(), made without the mutex, miss no checkpoint.   *)
THEOREM PollingMissesNothing == Spec => []PollSeesCheckpoint
BY CheckpointSafety, PTL

=============================================================================
