# WaveQuay: TLA+ models, checks and proofs

WaveQuay is a multitrack audio editor in C++/QML, descended from Audacity 4.
The repository holds, next to the framework and the vendored libraries, two
layers of application code:

- `src/src/` is the application: actions, controllers, views, and adapters
  that drive the older core (`src/src/*/internal/au3`, `src/src/au3wrap`);
- `src/au3/libraries/` is the older core: undo history, project file, sample
  blocks, audio engine, real-time effects, cloud synchronisation.

These modules model the parts of the older core, and of the application around
it, in which something can go wrong that a test would hardly reach:

- what keeps a user's work: the undo history, the project file with its sample
  blocks, and the thread that moves committed data into that file;
- what runs while it sounds: the handshakes of the audio engine, the ring buffer
  between its threads, and the settings of real-time effects;
- what is shared with others: the upload of a project to the cloud, and the
  file of export recipes that all windows write.

Paths below are relative to `src/`; "Au3" in a file name is the repository's name
for the older core.

## 1. Inventory

### Undo history
`au3/libraries/au3-project-history`, `src/trackedit/internal/au3/au3projecthistory.cpp`

- *State*: `UndoManager` keeps a vector of captured documents, the index of
  the current one, the index of the one that counts as saved, and what the next
  push may be consolidated with. `Au3ProjectHistory` keeps a flag that a drag
  is in progress. The live tracks are state of the project object.
- *Operations*: push (with or without consolidation), recapture the current
  state, undo, redo, jump, roll back, start and end an interaction, mark saved,
  clear.
- *Interactions*: every edit ends with a push; a push first calls the
  `AutoSave` hook of the project file, which may throw; selection, mute, solo
  and effect parameters recapture the current state; saving and closing read
  and move the saved mark.
- *Hard*: the two indices and the vector change together in most operations; a
  throwing autosave leaves half a step; events arrive in the middle of a drag.
- *Correct when*: the index, the captured state and the live tracks agree; the
  saved mark is on a state whose audio is in the file; what undo leads to is
  what was there.

### Project file and sample blocks
`au3/libraries/au3-project-file-io/ProjectFileIO.cpp`, `SqliteSampleBlock.cpp`, `src/au3wrap/internal/au3project.cpp`

- *State*: a SQLite file with four tables: sample blocks, the project document
  (written by a save), the autosave (written by every edit), a journal of
  earlier project documents. In memory: the file's name, flags (recovered,
  modified, temporary), the documents of the undo history, the clipboard, and
  a copy of the last saved tracks.
- *Operations*: new, load, discard unsaved data, autosave, save, save under a
  new name, compact, close.
- *Interactions*: a block's row is deleted when the last object in memory that
  refers to it is destroyed (`SqliteSampleBlock::~SqliteSampleBlock`), whatever
  the documents in the file say. The code therefore keeps copies of documents,
  locks blocks and bypasses deletions so that rows outlive what needs them.
- *Hard*: saving, Save As, compaction and closing are sequences of transactions
  and renames, with a process that may die between any two, and steps of which
  any one may fail.
- *Correct when*: no document that will be loaded again names a deleted block;
  what was saved under a name stays under it; a crash costs at most the edit in
  progress or the undo or redo just made.

### Database connection and checkpoint thread
`au3/libraries/au3-project-file-io/DBConnection.cpp`

- *State*: a primary and a checkpoint connection, a write-ahead log, a mutex, a
  condition variable and three flags (pending, active, stop).
- *Operations*: open, close, commit hook, checkpoint thread.
- *Hard*: `Close()` polls two flags without the mutex, then must wake and join
  a thread that may be sleeping or retrying.
- *Correct when*: no commit is left without a checkpoint, no wakeup is lost,
  and closing always returns.

### Audio engine: transport
`au3/libraries/au3-audio-io/AudioIO.cpp`

- *State*: a PortAudio stream and its token; four atomic flags with which the
  main thread and the callback steer the audio thread (exchange once, loop
  running, monitoring, loop active); one acknowledgement the audio thread leaves
  (start or stop); a pending seek; a mutex that a seek and a stop both take.
- *Operations*: `StartStream`, `StartMonitoring`, `StopStream`, `SeekStream`; the
  loop of `AudioThread`; the callback, which fills the output, drains the input
  and serves seeks.
- *Interactions*: all by polling flags. Playback controllers start, stop and
  seek in any order; PortAudio calls back on a thread of its own between the
  start of a stream and its close.
- *Hard*: an acknowledgement is a single variable for starts and stops, of
  streams and of monitoring; a seek pauses the audio thread from inside the
  callback; a device may fail to start after the buffers were made.
- *Correct when*: nobody touches the buffers of an exchange under way; what was
  captured is recorded; the callback plays no stale ring; every call returns.

### Audio engine: ring buffer
`au3/libraries/au3-audio-io/RingBuffer.cpp`

- *State*: the cells, three indices (consumed, flushed, written) of which two are
  atomic and shared, and the length of the silence that ended the last put.
- *Operations*: the writer asks for room, puts (samples, then silence), clears,
  takes back, flushes; the reader asks for data, gets and discards.
- *Hard*: no lock; each thread works from a value of the other's index that may
  be stale; taking back moves samples across the end of the buffer.
- *Correct when*: it is a bounded FIFO queue, whatever the interleaving.

### Real-time effects and the message buffer
`au3/libraries/au3-realtime-effects`, `au3-utility/MessageBuffer.h`

- *State*: three copies of the settings (kept by the main thread, given last, used
  by the worker), each with a one-byte counter; a two-slot message buffer in each
  direction; the list of effects; a lock and a condition variable.
- *Operations*: give settings, with or without `Flush()`; add, remove and restore
  the effect; start and stop playback; the passes of the audio thread.
- *Interactions*: the audio thread visits the list without the lock that removal
  takes; undo and the history panel replace the list.
- *Hard*: a reader that finds the slot it wants busy takes the other one; the
  counter wraps around; `Flush()` sleeps until the audio thread has answered.
- *Correct when*: no slot has two users; settings do not go back; the last ones
  are heard and are kept when playback stops; no effect ends under a pass.

### Cloud upload and cancellation
`au3/libraries/au3-cloud-audiocom/sync`, `au3-concurrency/concurrency/CancellationContext.cpp`

- *State*: rows of the local database (the snapshot, its blocks still to upload);
  in memory the tasks, a ring of compressed blocks, the upload slots, counts, a
  running flag, the cancellation context, and shared ownership of the operation.
- *Operations*: producers compress, a consumer starts uploads, the network thread
  retries, confirms and counts them and gives the verdict; the user, the saver
  and a failed block cancel; whoever holds the operation last destroys it and
  joins the threads; a later process resumes from the rows.
- *Hard*: registration races cancellation; threads may join themselves; a signal
  may fall between a test and a sleep; the process may end anywhere.
- *Correct when*: nothing is marked as synced before it is uploaded, an
  interrupted upload can be resumed, the operation ends and every join is legal.

### Export recipes
`src/importexport/export/internal/exportrecipestore.cpp`, `exportrecipecontroller.cpp`

- *State*: one JSON file in the user's folder, a lock file beside it.
- *Operations*: list, save (new or in place of another), remove.
- *Interactions*: several windows of one process (`CMakeLists.txt:142`), and several
  processes, share the file; saving the current settings takes the lock up to three
  times.
- *Hard*: what was checked in one lock period may be gone in the next; a window
  may die inside; the file may be damaged or moved away by hand.
- *Correct when*: the file changes by whole operations, no change of another
  window is lost, and what a caller is told is what happened.

### The rest of the system

| Component | State and operations | Hard behaviour | Here |
|---|---|---|---|
| Transactions (`au3-transactions`) | nested savepoints on a connection several threads share | a savepoint of one thread nests into another's | not yet (section 7) |
| Document encoding (`ProjectSerializer`) | name registry, binary XML | none concurrent; an encoding | a document is the set of blocks it names |
| Project scenarios (`src/project`) | which dialog leads to which operation | the user answers in any order | `ProjectStore` allows every order the controllers do |
| Session manager (`src/appshell`) | list of projects to recover | restart after a crash | its effect on a file is `RemoveUnsavedData` |
| IPC channel (`au3-ipc`) | send and receive threads, buffers | partial sends, disconnect | not yet (section 7) |
| Wave data (`au3-wave-track`) | block list of a sequence | split, append and delete across block borders | not yet (section 7) |
| Track editing (`src/trackedit`) | clips and tracks; calls the history | what an edit computes | any new content (`PushHistoryState`, `Edit`) |
| Playback and recording controllers | transport state | which calls they make of the audio engine, and when | any order of calls (`AudioTransport!User`) |
| Framework, views, effects, importers, third-party code | presentation, DSP, formats | none of this kind | not modelled |

`PROJECT.json` lists every hazard of this code at its line, with the property
that would notice it, or the reason why none does yet.

## 2. Modules

| Module | Models |
|---|---|
| `UndoHistory` | the history as the application drives it |
| `Timeline` | abstract: what an undo history promises |
| `UndoHistory_proofs` | theorems about `UndoHistory` |
| `ProjectFile` | one project file and what one transaction does to it |
| `ProjectStore` | the life of blocks and documents across all operations |
| `ProjectStore_proofs` | theorems about `ProjectStore` |
| `CheckpointThread` | the connection, its commit hook and its thread |
| `CheckpointThread_proofs` | theorems about `CheckpointThread` |
| `AudioTransport` | main thread, audio thread and device callback of the audio engine |
| `AudioTransport_proofs` | theorems about `AudioTransport` |
| `RingBuffer` | the lock-free buffer between two of these threads, sample by sample |
| `SampleQueue` | abstract: what a ring buffer promises |
| `RingBuffer_proofs` | safety of `RingBuffer`, and that it implements `SampleQueue` |
| `RealtimeEffect` | the settings of one effect between two threads, over `MessageBuffer` |
| `RealtimeEffect_proofs` | theorems about `RealtimeEffect` |
| `BlockUploader` | the upload of missing blocks: threads, requests, cancellation, lifetime, resumption |
| `BlockUploader_proofs` | theorems about `BlockUploader` |
| `ExportRecipes` | windows that share the recipe file under its lock |
| `RecipeBook` | abstract: one book that changes by whole operations |
| `ExportRecipes_proofs` | theorems about `ExportRecipes`, and that it implements `RecipeBook` |
| `MCUndoHistory`, `MCProjectStore`, `MCCheckpointThread` | small instances for TLC |

Definitions headed "Mutant:" are plausible mistakes in the operation that
follows them; they are used to see that each property can be violated by a bug
in the code, and no specification refers to them.

### UndoHistory

The variables carry the names of the fields: `stack`, `current`, `saved`,
`lastAction`, `mayConsolidate` of `UndoManager`, and `interaction`
(`m_interactionOngoing`). `tracks` is the live document, `disk` what the last
successful save wrote. A document is a record of its *audio*, whose loss the
user would notice, and its *view* (selection and the like), which is captured by
the same extensions and is never a reason to ask "save changes?"; without the
distinction every selection change would break the saved mark, which the code
accepts on purpose. Indices are the code's, from 0, with -1 for none.

One action is one call from the application with everything it does:
`PushHistoryState` the edit, the autosave hook, the push and the end of the
drag; `UndoRedo` the move of the index, the autosave and the restore, in the
order of the code; `UndoRedoFails` the same call cut off by a throwing autosave.

`Faults` names the departures from what the application does most of the time,
so that each can be studied alone: `autosave` (the hook throws), `completion`
(the call that should end a drag with a push fails), `slider` (volume and pan
move the live tracks without `startUserInteraction()`), `shortcut` (a keyboard
command arrives in the middle of a drag).

`Timeline` is the abstract specification: a line of contents, a present on it,
what is stored, and a flag that may say "clean" only when the present is
stored. `ImplementsTimeline` is the refinement: a drag in progress is not on the
line, a closed project is a line of one content, `clean` is `~UnsavedChanges()`.

### ProjectFile and ProjectStore

A document is the set of the blocks it names: every question asked here is
whether a row is there when a document needs it. A file is a record of four
tables. `ProjectFile` has the operations that are one transaction.

`ProjectStore` has, per file name, the file and the `_compact_temp` and
`_compact_back` files next to it. `pc` says where in an operation the process
is: every transaction and every rename is an action, because the process may die
between two (`Crash`), losing memory and keeping files. `Released` is the
deletion that follows the destruction of the last reference: every action that
drops a reference (a new edit, an abandoned redo branch, a replaced clipboard, a
replaced copy of the last saved tracks) deletes the rows that nothing in memory
names any more, as the destructors do. Two history variables only record:
`committed` is what the user last saved under a name, and `left` the tracks that the
last undo or redo left behind, until an edit or a save follows. An undo autosaves
before it restores (`ProjectHistory::PopState`, `UndoRedo`), so that a crash right
after it brings back what it left; the state undone to is in the file only once
something is autosaved again.

| Code | Actions |
|---|---|
| `Au3ProjectAccessor::load`, `removeUnsavedData` | `NewProject`, `Load`, `RemoveUnsavedData` |
| an edit, then `pushHistoryState` | `Edit`, `AutoSave` / `AutoSaveFails`, `PushState` |
| undo, redo, copy | `UndoRedo`, `Copy` |
| `save` | `MoveProject` / `Save`, `UpdateSaved`, `FinishSave`; `MoveProjectFails`, `SaveFails` |
| `SaveProject` to another name | `SaveAs`, `DropOriginalAutosave`, `PruneOriginal`, compaction, `SwitchToCopy`; `SaveAsFails`, `DropOriginalAutosaveFails` |
| `Compact` | `Compact`, `MoveOriginalAway`, `MoveCopyIn`, `FinishCompact`; `CompactFails`, `KeepOriginal`, `MoveOriginalBack` |
| `close`, `SetBypass`, `CloseProject` | `Close`, `CloseRecovered` / `CloseNew` / `CompactOnClose` / `SkipCompaction`, `RewriteSaved`, `RewriteSavedAutosave`, `SetBypass`, `FinishClose` |

`Faults` here: `autosave` (it fails), `save` (a step of a save fails or a Save
As is cancelled), `compaction` (it fails, is cancelled or is cut short by a
crash at any step), `recovered` (a project recovered from an autosave is saved
under a new name). Crashes between the steps of everything else are always
possible. A crash between the two renames of a compaction leaves the saved document in
`_compact_back` only. `SavedNeverLost` asks that it survive there, which is all the code
provides: nothing looks for a backup at the next start. `compaction` also covers a copy made on close that is not smaller than the
original, which the code keeps then (`ProjectFileIO.cpp:1596`). Compaction on close
needs about a fifth of the audio unused (1222) and leaves the autosave out of
the copy, so this is close to impossible; `AutosaveHasBlocks` in the run `store`, and its
theorem, nevertheless rest on it. A forced compaction, of a Save As, may keep the
original in every run.

Choices where the code leaves one open: whether compaction is worth while is
free when the file has rows; whether closing a recovered project deletes rows is
free, since `mWasCompacted` and `mHadUnused` have not been initialised then.

### CheckpointThread

`main` and `ck` are the places of the main thread in `Open()`/`Close()` and of
the checkpoint thread in its loop, cut wherever another thread can observe the
difference: the test of the predicate and the sleep are two steps, and the two
writes `active = true; pending = false` are two steps because `Close()` reads
both without the mutex. A commit and its hook are two steps. `busy` is a reader
that makes a checkpoint return `SQLITE_BUSY`. `unseen` is a history variable: a
commit that no checkpoint has started after.

### AudioTransport

`once`, `running`, `monitoring` and `active` are the four atomic flags, `ack` the
acknowledgement, `mutex` is `mSuspendAudioThread`. The audio thread's loop is cut
at every flag it reads or writes (`PassBegins`, `TestOnce`, `TestRunning`,
`TestMonitoring`, `Announce`, `Exchange`, `PassEnds` and so on), since the other
two threads observe it there. The callback is `CallbackBegins`,
`FillOutputBuffers`, `DrainInputBuffers`, then `SeekLocks`, `SeekPauses`,
`SeekRepositions`, `SeekReturns` for a pending seek. The main thread's calls are
sequences of steps, cut at every wait: `StartStream` through `StartAcknowledged`,
with the device that fails to open (`SetupFails`) and the one that fails to start
(`FailedStartSeen` to `StartStreamCleanup`); `StartMonitoring`, whose device may fail
to open, or to start without anyone noticing (`OpenMonitor`); `StopStream`
through `Teardown`. What an exchange moves is abstract: `primed` says that the
rings were filled since they were emptied, `captured` counts callbacks whose input
is in the rings.

`Faults`: `stopDuringSeek` (a stop while a callback serves a seek, or is still
going to) and `stopBeforeResume` (a stop after a seek was served and before the
audio thread has resumed).

### RingBuffer and SampleQueue

`mStart`, `mEnd`, `mWritten` and `mLastPadding` are the fields. A copy is one step
per sample, so that the two threads interleave inside a `Put` and a `Get`. A load
of the other thread's index returns *any* value between the one seen last and the
current one (`StartSeen`, `EndSeen`): this is what the relaxed and acquire loads
of the code guarantee, and no more. `room` and `avail` are what `AvailForPut` and
`AvailForGet` promised, less what was used since. Samples are serial numbers and 0
is silence, which lets the queue tell lost, repeated and reordered samples apart.

`SampleQueue` is the abstract specification: samples prepared, samples handed over,
and one atomic step per operation. `ImplementsSampleQueue` maps `pending` to the
cells between `mEnd` and `mWritten` and `ready` to those between `mStart` and `mEnd`.

### RealtimeEffect

`kept`, `last` and `worker` are the three copies of the settings, each a number
and a counter; `toWorker` and `toMain` are the message buffers, with `idx` and
`slot` the slots in hand. A write and a read of a buffer are three steps each, as
in `MessageBuffer.h`: read the last index, claim by exchanging the busy flag, copy
and release. `Set` is followed by `Flush` or not (`then`). A pass of the audio
thread visits the list twice: it reads settings at the first visit and replies at
the second. Undo and redo restore another list with playback stopped.

`Faults`: `removeDuringPass`, `restoreWhilePlaying`.

### BlockUploader

The variables are grouped as they live: what survives the process (`uploaded`,
`synced` on the server, the rows `pending` and `snapshotRow`), the uploader
(`todo`, `ring`, `slots`, `counts`, the workers' `pc`, `wait`, `hold`), and the
operation (creation, cancellation context, requests, the callback of the network
thread, owners). Testing a condition and going to sleep are two steps
(`DozeOff`, `Sleep`). `CancelUploader`, `Notify` and `Join` are `Cancel()`.
`Leaves(t, owners)` is the end of an owner: the last one's destructor cancels, and
joins on thread `t`. `AnswerPut`, `AnswerConfirm`, `AnswerFail` are the answers of
the server to the requests of `DataUploader`, with retries; `CountBlock`,
`RemoveRow`, `GiveVerdict`, `ReleaseSlot` the callback. `Restart` ends the process in
any state and resumes from the rows.

`Faults`: `notifyBetweenTestAndSleep`, `cancelDuringCreate`, `lastOwnerIsProducer`,
`resumeAfterRefusal`, `syncRequestLost`; section 4 tells of each.

### ExportRecipes and RecipeBook

A window is in a call (`op`) at a step (`pc`). Each is modelled as if it were a
process of its own; windows of one process take turns at the boundaries of lock
periods and end together, which is among the behaviours allowed. `SaveCurrent`, `LookUp` and `Capture`
are the parts of `saveCurrent()` before the save; `Acquire`, `Read`, `Write`,
`Release` are one lock period of the store. `Crash` ends a window anywhere: the lock
file of a dead process is taken over, and a write replaces the file as a whole
(`QSaveFile`). `Spoiled` and `MovedAway` are what a person does to the file by hand.
Identifiers are used once. A read that fails is one answer, since nothing in the
program acts on which failure it was.

`RecipeBook` is the abstract specification: a set of recipes that changes by whole
operations. `ImplementsRecipeBook` says that all windows together keep one book.

## 3. Runs

| Run | Instance | Distinct states | Shows |
|---|---|---|---|
| `history` | 3 contents, 2 selections, 2 kinds of edit, 3 states on the stack, no fault | 116 k | saved mark, current state and drags, and the refinement of `Timeline` |
| `history_faults` | the same with all faults | 344 k | what the stack keeps whatever fails: consolidation at the top only, the past untouched, a drag that freezes the state it cancels to |
| `store` | 2 blocks, 2 names and the temporary file, 3 states on the stack, no fault | 831 k | editing, saving, Save As, closing, crashing, reopening |
| `store_compaction` | 2 blocks, 1 name, fault `compaction` | 1.9 M | the saved document survives every failure and crash of a compaction |
| `store_faults` | 1 block, 2 names, faults `autosave`, `save`, `recovered` | 561 k | the session never refers to a deleted block |
| `checkpoint` | 2 writers, 3 transactions in the log | 1 k | no commit without a checkpoint, closing sees every one of them and returns |
| `audio_transport` | 3 streams, 2 seeks, capture rings of 2 callbacks, no fault | 44 k | buffers are never shared, rings are filled before they are played, nothing captured is lost, every call returns |
| `audio_stop_seek` | 1 stream, 1 seek, fault `stopDuringSeek` | violation | finding 1 |
| `realtime_effect` | 5 settings, 2 playbacks, a counter of 5 values, no fault | 413 k | settings between the threads, `Flush()`, stop, removal and restoration |
| `ring_buffer` | 4 cells, 1 of them kept free, 4 samples | 1.2 M | disjoint regions, promises kept, and the refinement of `SampleQueue` |
| `export_recipes` | 2 windows, 3 identifiers, 2 names, a limit of 2 recipes | 423 k | true answers, checks that still hold, one book, every call returns |
| `uploader` | 2 blocks, 2 producers, a ring of 2, 1 slot, 1 retry, 3 processes, no fault | 422 k | slots, verdict, resumption, joins, cancellation, and that everything ends |

Every invariant and action property of these runs is also stated by a theorem of
section 5: the run shows that the hazard is reached on a small instance, the
theorem that no size of instance breaks it. A few properties are in the modules
and in section 5 only, because the run of their module shows nothing more by
checking them: `IndexOK` and `CleanMeansSaved` of `UndoHistory`,
`NoCommitForgotten`, `NoLostWakeup`, `SlotsNotShared`, `FlushedSamplesStay` and
`UniqueIds`.

**Bounds.** `MaxStates` bounds the undo stack. Three states are a past, a
present and a future, so that a push can abandon a redo branch, the saved mark
can be below, on or above the current state, and a consolidation can follow an
undo. Three contents let a state differ both from the saved one and from its
neighbour; the two descriptions let a consolidation be refused. Two blocks let
one document keep what another drops, which is what every deletion decides; with
three blocks and one name (429 k states) the same invariants hold. Two names
are the source and the target of a Save As, which may then exchange roles.
`JournalDepth` is 0 where no property is about the journal; the code's depth is
10, and two is enough for an older generation to exist. `MaxWal` bounds the
log; a writer commits again after every checkpoint, so nothing else is bounded
in `CheckpointThread`. Blocks and names are interchangeable, and the runs use
that symmetry; no run with symmetry checks liveness.

Three streams let a stop be followed by another start and by monitoring, with an
acknowledgement left over from each; two seeks let one be asked for while the other
is served. Five settings with a counter of five values make the counter wrap
around; `CounterDistinguishes` states what the code relies on with 256 values, that
fewer than half of them are given between two readings. Four cells, one of them
kept free, let every region wrap around and an `Unput` cross the end; the code
keeps four free of at least sixty-four. Two windows race in every pair of lock
periods, and the limit of two recipes is reached. Two blocks, one slot and a ring
of two (which holds one, as the code's ring of sixteen holds fifteen) make the
producers and the consumer wait for each other; three processes let a resumed
upload be interrupted and resumed again.

**Deadlock** is checked in every run but `uploader`: that program really stops, when
the operation has ended and no process resumes it.

**Fairness.** `CheckpointThread`: `WF(CloseStep)` and `WF(ThreadStep)`, since the
operating system runs both threads. `SF(Stop)`, `SF(Lock)` and
`SF(CheckpointHook(w))`: whoever waits for the mutex gets it in the end although
others keep taking it. `WF(EndRead)`: a read on the primary connection ends.
`SF(Checkpoint)`: the retry every millisecond finds a moment when no reader is busy;
without it `Close()` may wait forever, and the code has no limit on that wait.
Opening, closing, committing and reading are free to happen or not.

`AudioTransport`: `WF` of the audio thread, of the body of a callback and of the
steps of a call of the main thread, all of which are running code; and
`SF(SeekPauses)`, because the callback polls a flag that the audio thread clears once
per pass and sets again. Callbacks need not begin: a device may fall silent. No user
has to start, seek or stop.

`RealtimeEffect`: `WF` of the audio thread and of the main thread's calls, and `SF` of
the wait in `Flush()`, whose lock the audio thread takes in every pass for a few steps.

`ExportRecipes`: `WF` of each window inside a call; `tryLock` has a timeout.

`BlockUploader`: `WF` of every worker, of the network thread (the network manager has a
transfer timeout, so that every request is answered), of creation, of the steps of
`Cancel()`, of the main thread inside a cancellation, and of the end of saving.
Nobody has to cancel and no process has to end.

The other modules state no liveness property: nothing there happens unless a user
asks for it.

## 4. Findings

Each is something a document, a comment or a sibling of the code promises and the
code does not keep. The first has a run of its own. For the others the property is
named, and either the configuration under which TLC finds it violated
(`UndoHistory*.cfg` with `MCUndoHistory`, `ProjectStore*.cfg` with `MCProjectStore`)
or the fault to add to `Faults` in the configuration of the module. The passing runs
of these properties leave the faults out.

1. **A stop right after a seek** (run `audio_stop_seek`, `CallsReturn`). `StopStream`
   locks `mSuspendAudioThread` (`AudioIO.cpp:1615`) and keeps it while PortAudio
   waits for the callback; a callback about to serve a seek waits for that mutex
   (`AudioIO.cpp:3500`). The comment at 3502 expects the callback to find the
   stream "destroyed while we waited for it"; the two wait for each other.

**Undo history**

2. *Undo with a failing autosave* (`UndoHistoryAutosave.cfg`, `CurrentMatchesTracks`).
   `UndoManager::Undo` moves the index before it calls the consumer, whose autosave
   may throw: the index names a state that was never restored.
3. *A slider outside an interaction* (`UndoHistorySlider.cfg`, `SavedStateIsSaved`).
   Moving a volume slider changes the live tracks without `startUserInteraction()`;
   a selection change then captures the new volume into the state marked as saved,
   and the mark stays.
4. *A drag that nothing completes* (fault `completion`, `CurrentMatchesTracks`).
   `src/trackedit/iprojecthistory.h:65` says that an interaction that ends without
   a push modifies the current state; `endUserInteraction` is called with
   `modifyState = false` everywhere. A command given while the mouse button is down on
   a clip that is not moved (fault `shortcut`) is enough: what it changes is not
   captured at once, and nothing captures it at the end.

**Project file**

5. *Closing after a failed compaction* (`ProjectStoreAutosave.cfg`,
   `AutosaveHasBlocks`). `close()` returns to the saved state before it asks for
   unsaved changes, so the work meant for this case is skipped: the autosave stays
   while its blocks are deleted, and the file does not open again. A copy that is not
   smaller than the original (line 1596) would have the same effect.
6. *A failed save* (`ProjectStoreFailedSave.cfg`, `SavedNeverLost`). `save()`
   replaces the copy of the last saved tracks even when saving failed; closing
   without saving then deletes blocks of the document in the file.
7. *Save As of a recovered project* (`ProjectStoreRecovered.cfg`,
   `NothingCommittedSilently`). The original file is compacted around tracks that
   were recovered and never saved there: it shows the recovered document as its
   saved one.
8. *The journal* (`ProjectStoreJournal.cfg`, `JournalUsable`). Earlier documents are
   kept "so a corrupt current document can be rolled back", and their blocks are not.

**Audio engine and effects**

9. *A stop before the audio thread has resumed from a seek* (fault
   `stopBeforeResume` of `AudioTransport`, `CallsReturn` and `BuffersNotShared`). A seek
   makes the audio thread acknowledge a stop and a start that nobody waits for. The
   comments at `AudioIO.cpp:1672` and 1953 rely on an acknowledgement being the answer
   to the request at hand; a stop in that window takes the stale one for it, or waits
   for one that has been overwritten.
10. *Removing an effect in the middle of a pass* (fault `removeDuringPass` of
    `RealtimeEffect`, `ThreadsApart`). `RealtimeEffectManager.cpp:296` says "Remove the
    state from processing (under the lock guard) before finalizing"; `Visit()`
    (`RealtimeEffectList.h:79`) iterates without that lock, so the effect can be
    finalized under the pass.
11. *A jump in the history panel during playback* (fault `restoreWhilePlaying`,
    `SettingsArrive`). Undo and redo stop playback first; `undoRedoToIndex`
    (`trackeditinteraction.cpp:353`) does not, and the list of effects is replaced
    while it plays (`realtimeeffectrestorer.cpp:45`). An effect taken out of the list
    in this way stays initialised after the stop; a later `Flush()` waits for a pass
    that never visits it.
12. *Ring buffer bookkeeping.* When the unflushed part wraps around, `Unput` measures the
    remaining padding from an index it has already moved (`RingBuffer.cpp:141`, 158), and
    `Put` stores the padding it was asked for before it is bounded (81). The count is
    wrong; the samples are not, which is what the refinement shows.

**Cloud upload**, each with the fault of `BlockUploader` that is named

13. *A signal between test and sleep* (`notifyBetweenTestAndSleep`, `EverythingEnds`).
    `Cancel()` clears `mIsRunning` and signals without the mutexes of the waits
    (`MissingBlocksUploader.cpp:74-80`): a thread that has tested its condition and
    not gone to sleep yet is never woken, and the join hangs.
14. *A cancellation while the uploader is created* (`cancelDuringCreate`,
    `JoinsAreLegal`). `OnCancelled` tests the flag before it takes the lock
    (`CancellationContext.cpp:58-70`), and the threads are started last: `Cancel()` may
    join threads that do not exist, and end the program.
15. *A producer as the last owner* (`lastOwnerIsProducer`, `JoinsAreLegal`). A producer
    that cannot compress its block reports it (`MissingBlocksUploader.cpp:251`) and may
    hold the operation alone then: the destructor joins the thread it runs on.
16. *Resuming after a refusal* (`resumeAfterRefusal`, `SyncedMeansUploaded`). A resumed
    upload drops the row of a block for every failure but two kinds
    (`ResumedSnaphotUploadOperation.cpp:255-260`); the next process finds no rows and
    asks the server to mark the snapshot as complete.
17. *A lost last request* (`syncRequestLost`, `ResumableUntilSynced`). The row of the
    snapshot is removed before the error of the request is looked at
    (`LocalProjectSnapshot.cpp:618-625`): the snapshot is neither complete nor resumed.

**Export recipes**

18. *Checks in earlier lock periods* (`ChecksStillHold` without its condition on
    `raced`). `saveCurrent()` checks the name and the recipe to replace, then saves in a
    lock period of its own (`exportrecipecontroller.cpp:11-29`): with another window
    writing in between, a name is used twice without the "explicit choice" the test
    `DuplicateNameRequiresExplicitChoiceAndUUIDUpdate` asks for.

## 5. Proofs

TLAPS checks these for every value of the constants, from the `ASSUME`s of the
modules only (contents and sentinels are distinct, bounds are numbers).

### UndoHistory
- `StackSafety`: `Spec => [](TypeOK /\ IndexOK /\ ConsolidateOnlyAtTop)`, with any
  faults; `TypesHold` and `ConsolidationIsAtTop` are its parts. The three are
  inductive together (`StackInv`) and none of them alone: a push keeps the index
  inside the stack because `current` is in range before it, and it keeps it on the
  top only if consolidation is off whenever a redo branch exists. The lemmas
  `RecapturedFacts`, `PushedFacts`, `OpenFacts` say what the helpers on the stack
  return.
- `ContentSafety`: `Faults = {}` implies `Spec => [](SavedStateIsSaved /\
  CurrentMatchesTracks)`. `SavedStateIsSaved` alone is not inductive: a
  recapture rewrites the saved state in place, which is harmless only because
  between edits the state already has the audio of the tracks, and a save marks
  the current state, which is right for the same reason. `CurrentIsLive` and
  `CleanSafety` (`CleanMeansSaved`) follow. A weaker hypothesis would not do: TLC finds
  each of the three properties violated with each of the four faults alone.
- `PastIsKept` and `DragIsFrozen`: the action properties `PastIsImmutable` and
  `InteractionFreezesState`, with any faults, from `StackInv`.
- `HistoryIsTimeline`: `Faults = {}` implies `Spec => ImplementsTimeline`. Each action
  is one operation of `Timeline` or a stutter; that the flag is never falsely clean
  comes from `SavedStateIsSaved` after the step, and that a recapture is a stutter
  from `CurrentMatchesTracks` before it.

### ProjectStore
- `TypesHold` and `UndoNeverMissesABlock` (`LiveBlocksStored`), with any faults. The
  types need `Phases` (which of the file, its copy and its backup exist at each
  place of an operation); that the open file has every live block needs `Stored`, which
  says the same of the copy that a Save As is about to open instead.
- `SavedIsNeverLost` (`SavedNeverLost`) and `NothingIsCommittedSilently`
  (`NothingCommittedSilently`), unless a save fails or a recovered project is saved
  under a new name (`SavesWork`). `Shown` and `InFlight` say, for each place of an
  operation, which of the file, the copy being made and the backup holds what was saved
  last with all its blocks; `Anchored` says what keeps those blocks when memory lets go
  of others: the copy of the last saved tracks names them.
- `CrashCostsOneEdit` (`CrashKeepsSession`), unless an autosave fails
  (`AutosavesWork`): as long as there is a session, one of its files would be loaded as
  the tracks, as the current state of the history, or as what an undo or redo left that
  no edit has followed, and has all the blocks of that document. An older state,
  though it may still be on the stack, will not do. `SessionInv` has one part for the
  tracks (`TracksAreCurrent`), one for the autosave (`Autosaved`), one for a document just
  saved (`Projected`), one for the copy of a Save As (`CopyIsOfTracks`), one for what an
  undo left (`LeftIsKept`: it is still a state of the stack) and `Recoverable`, that the
  open file would be loaded as one of the three. `SessionDocsAreLive` says that all
  three are in memory, so that none of their blocks is deleted (`UndoNeverMissesABlock`).
- `AutosaveIsUsable` (`AutosaveHasBlocks`), unless an autosave fails or a compaction
  is stopped half way or keeps its original (`NothingInterrupts`): where rows may go next, the autosave has
  been dropped first (`DroppedFirst`), and no temporary copy is left behind.
- `ClosingWithoutAQuestionIsSafe` (`CleanMeansSaved`), unless an autosave or a save
  fails (`MarksWork`): the state marked as saved is the document in the file
  (`SavedMark`).

  Crashes, and the failures that a hypothesis does not name, may happen in each of
  these theorems. TLC finds the property violated when any one of the faults that
  its hypothesis excludes is let in alone.

### CheckpointThread
- `CheckpointSafety`: for any set of writers and any bound on the log, `TypeOK`,
  `NoCommitForgotten`, `PollSeesCheckpoint` and `NoLostWakeup` always hold; the other
  three theorems are its parts. The inductive invariant adds `ThreadInv` (what the
  thread knows of the flags at each place: it goes to sleep only from a test
  made under the mutex that is still true, because whoever sets a flag needs the
  mutex) and `CloseInv` (the writers are idle while `Close()` runs, so that
  `pending` cannot be set behind its polling, and between the two reads a
  request can only have become an active checkpoint).

### AudioTransport
- `TypesHold`, `CaptureDrained` and `RingsFilled`, with any faults and for any number of
  streams and seeks: `TypeOK`, `CapturedIsRecorded` and `RingsPrimed`. `PhaseInv` (which
  calls the main thread and the callback can be in together) and `RequestInv` (who
  asked for an exchange waits for its end, and nobody else can ask) are enough for
  `ExchangeInv`, what an exchange leaves behind. They rest on no acknowledgement, so
  that a stale one does no harm here.
- `BuffersStayApart`: `Faults = {}` implies `BuffersNotShared`. This needs the handshake
  itself: `CallbackInv` and `FlagInv` (who has set which flag), `LoopInv` (what the
  audio thread's `lastState` says of them) and `AckInv` (the acknowledgement under
  which the main thread leaves a wait is the answer to its own request). TLC finds
  it violated with either fault alone.

### RingBuffer
- `TypesHold`, `NoSharedCell`, `PromisesKept`, `FlushedSamplesKept`, `FrontIsRead`: for
  every size of the buffer and every gap, and however stale the loaded indices,
  `TypeOK`, `RegionsDisjoint`, `AvailNeverOverestimates`, `FlushedSamplesStay` and
  `GetReadsTheFront` hold. Indices go round in a circle, so none is before another;
  what is invariant is their order seen from the value of `mStart` that the writer
  loaded last (`Order`), with what each thread has still to copy (`Copies`) and has
  promised (`Promises`). A block of lemmas is the arithmetic of the circle.
- `RingBufferIsQueue`: `Spec => ImplementsSampleQueue`. A `Put` takes effect when it
  stores `mWritten` and a `Get` when it stores `mStart`; the hard case is `Unput`,
  whose two or three moves across the end of the buffer are shown to shift the
  unflushed samples as one sequence.

### RealtimeEffect
- `TypesHold` and `SlotsStayApart`, with any faults: the exchange of the busy flag alone
  keeps the two threads out of one slot (`SlotInv`, `AccessInv`), because each holds at
  most one slot and there are two.
- `ThreadsStayApart`: unless an effect is removed during a pass, `ThreadsApart`; it
  needs what the main thread knows of a pass when it finalizes (`PassInv`, `FinalInv`).
- `SettingsGoForward` (`SettingsNeverGoBack`), with any faults: whichever slot the audio
  thread gets to read, the one it prefers or the other one, it holds nothing older
  than what is in use (`ReadInv`, with `GivenInv` and `KeptInv` for what the slots and
  the kept settings hold).
- `FlushedIsHeard` (`FlushMeansHeard`) and `StopLosesNoSettings`
  (`StopKeepsSettings`), unless the history panel restores another list during playback
  (`NoRestoreWhilePlaying`). `Flush()` waits for a counter that goes round, so that an
  equal counter says little by itself. From `CounterDistinguishes`, for a counter of any
  size, `StepInv` keeps the settings in use less than half a round behind the last ones
  and `ReplyInv` the reply less than half a round behind the settings in use: together
  less than one, and then equal counters mean equal settings (`SameCounter`,
  `SameValue`). `LifeInv` says when an instance exists, and `DrainInv` that the pass
  requested when playback stops reads what was given last. TLC finds both
  violated without the hypothesis.

### BlockUploader
- `TypesHold`, with any faults; the counts need that no more blocks are counted than
  there are.
- `SlotsAreAccounted` (`SlotsAccounted`), with any faults: a block is in one place at a
  time (`PlaceInv`: it waits, is held by one worker, is in the ring once, or has left
  for the network) and calls back once (`CallInv`), so that each step that changes the
  count of slots changes the set of uploading blocks by one.
- `SyncedIsUploaded` (`SyncedMeansUploaded`), unless an upload is resumed after a
  refusal. `CountInv` is a count of what is still to come: the blocks that are missing
  or may still be counted fit between the number uploaded and the total, so that the
  total is reached only when there are none.
- `NothingMovesAfterCancel` (`NothingAfterCancel`), with any faults: no producer and
  no consumer takes a step, and no block begins to upload, because a join that does not
  end the program has seen every thread end (`EndInv`). The network thread's callback for
  a request that was already under way may still come.
- `JoinsStayLegal` (`JoinsAreLegal`), unless the operation is cancelled while it is
  created or a producer is its last owner (`Survivable`; TLC finds it violated with
  either). `CancelInv` follows the one thread that is inside `Cancel()`,
  `CreateInv` the threads that exist, `OwnerInv` who can be the last owner, `DoneInv`
  what holds after the joins.
- `UploadResumable`: unless the last request is lost, `ResumableUntilSynced`; `RowInv`
  relates the rows to the callback that is about to remove one.

### ExportRecipes
- `TypesHold`, `IdsStayUnique`, `AnswersHold`, `ChecksHoldAtTheWrite`: for any set of
  windows, `TypeOK`, `UniqueIds`, `AnswersAreTrue` and `ChecksStillHold`. The core of the
  invariant is that what the holder of the lock has read is still the file.
- `RecipesAreOneBook`: `Spec => ImplementsRecipeBook`; the write is the one step that
  changes the book.

### Only model-checked
The liveness properties (`CloseReturns`, `RequestServed`, `CallsReturn`,
`SettingsArrive`, `EverythingEnds`), which are out of the prover's reach. Every
invariant and every action property of the passing runs is the conclusion of a theorem
above; where a theorem has a hypothesis, the run checks the same instance of it.

## 6. What the models leave out

- *UndoHistory*: `RemoveStates` over an inner range and its counting with signed and
  unsigned numbers, `RenameState` and
  `VisitStates`, which nothing in the application calls; what the autosave
  writes (that is in `ProjectStore`).
- *ProjectStore*: saving over a file that exists and moving a project onto one;
  a document that cannot be parsed; loading a file with neither document, which
  `LoadProject` takes for recovered and modified without opening it under its name
  (`ProjectFileIO.cpp:2166-2178`; `CanLoad` excludes it); the partial target that a crash in the
  middle of a copy may leave; failures of the transactions inside
  `close()`; consolidation, recapture and rollback of the history, which change
  no reference that is not changed elsewhere. A block that was deleted
  is available again to a later edit only when no document names it, so a
  reused row id is never mistaken for the block it replaces. Removing several
  undo states is one savepoint in the code and one step here.
- *CheckpointThread*: pragmas, prepared statements and error reports. Writers
  have finished when `Close()` starts, which the close sequence ensures.
- *AudioTransport*: `SetPaused`; the end of the audio thread at exit; latency
  correction and the play head; the alignment of the rings of several tracks (the
  early return of an exchange that finds one of them short); the early return
  after a recording exception; the store and load of `AudioIO.cpp:1926`, which may be
  reordered on weak hardware; the result of `Put`, which the engine ignores.
- *RingBuffer*: `GetUnflushed` (and `Clear`, which is modelled) have no caller; an `Unput`
  of more than was put since the last flush, which no caller makes; sample formats.
- *RealtimeEffect*: messages and outputs; effects that fail to make an instance or to
  initialise; several effects in one list, which share nothing but the list; a stale
  load of a message buffer's index, whose loads are always current here; a first
  `GetAccess()` during playback (`RealtimeEffectState.cpp:950`).
- *BlockUploader*: hashing and the project blob before it; `DeleteSnapshot` after an
  abort; several operations in the queue and resumption in the process that was
  interrupted; an answer that arrives before `setRequestFinishedCallback`
  (`Response.cpp:142`); spurious wakeups, which the loops absorb; aborting requests under
  way; `ProduceBlock`, which nothing calls; the refresh of expired addresses. A resumed
  upload without rows asks for the mark and goes on to create an uploader without
  tasks (`ResumedSnaphotUploadOperation.cpp:195`), as in the code.
- *ExportRecipes*: applying a recipe to the export options, which changes no shared
  state; the encoding; preparing the folder, which fails before anything else
  happens; damage to the file between a read and a write under the lock. That a lock
  file older than thirty seconds, or of a process that is gone, is taken over is
  `QLockFile`'s and taken as documented.
- The components the table of section 1 marks as not yet modelled or not modelled.

Some places of this code are as hard to test and no module reaches them:
`endEditItem()` returns early when its track is gone and leaves an interaction open
(`trackitemslistmodel.cpp:640`); the progress dialog of a copy dispatches user events
inside an open transaction (`progressdialog.cpp:80`); saving over a file that exists
attaches it and inserts into it (`ProjectFileIO.cpp:2307`); the report of a failed
checkpoint captures the connection and runs later (`DBConnection.cpp:567`); two flags
are not initialised before the first load (`ProjectFileIO.h:321`; `ProjectStore` leaves
their use free).

## 7. Plan

In this order, each with its runs and, where marked *, its theorems:

1. `TransactionScope`*: savepoints on one shared connection; two threads whose
   scopes interleave with and without `TransactionMutex`
   (`UndoManager::RemoveStates` takes none, `WriteDoc` does). Promise: what a
   failed scope rolls back is its own work only.
2. `RemoteProjectSnapshot`, the download: several requests for blocks that complete in
   any order and are cancelled together.
3. The IPC channel: partial sends and a disconnect seen by either thread first.
4. A property that a closed file holds no orphaned rows, and the block list of
   `Sequence` as pure operators against a reference definition.
