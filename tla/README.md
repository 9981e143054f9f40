# TLA+ models of TestExecutor

TestExecutor is a Qt program that drives test sessions: a main window with tabs,
a console tab that runs a shell, a monitor tab that types commands into a camera
over TCP, a logging client that sends log packages to a logger server, and a
JSON file with its settings. This directory holds TLA+ models of its parts, TLC
configurations that check them on small instances, and proofs that the TLA+
proof system checks for every value of the constants.

## 1. The system

Paths are relative to the repository (the directory `src/` of this checkout).

| component | code | state | operations | interacts with |
|---|---|---|---|---|
| Log client | `logclient/LogClient.cpp,.h` | queue of packages, `m_writeInProgress`, `m_stopInProgress`, `m_loggingMode`, `m_currentMessage`, `m_transferred`, socket, io thread | constructor (connect with retries, open a log file), `Push`, `WriteNextMessage`, `WriteHandler`, `LoggingMode`, `Stop`, destructor | producers in every thread, `CLockQueue`, the logger server |
| Thread-safe queue | `utils/lockqueue.h` | a `std::queue`, a mutex, a condition | `push`, `pop`, `pop_try`, `empty` | the log client |
| Camera monitor | `src/Monitor.cpp`, `inc/Monitor.h` | `m_currentMessage`, `m_isLocked`, `m_transferred`, command history, the text of the widget | key presses, `ReadHandler`, `WriteHandler`, `printData`, `Stop` | GUI thread, io thread, the camera |
| External process | `src/ExternalProcess.cpp,.h`, `src/Console.cpp` | `m_isRunning`, `m_isStop`, `m_exitCode`, child, its two pipes | `Run`, `RunCommand`, `ThreadProcess`, `Stop`, `OnOutput` | GUI thread, reader thread, the child |
| Log message builder | `utils/logbuilder.cpp,.h` | one message; the sizes of tags and texts, which are global | construction, `<<`, destruction (push to the client) | log client |
| FLAP/SNAC/TLV | `oscar/*` | the frame, `snac_base::size`, the two pointers of `tlv_iterator` | build a frame, parse a frame, read a value | log client, logger server |
| JSON configuration | `utils/JsonConfig.*`, `src/AppConfig.cpp`, `inc/AppConfig.h` | a JSON tree, a file, a stack of saved property sets | load, find, set, flush, undo, required nodes | main window, dialogs |
| Configuration dialog | `src/AppConfigDialog.cpp` | the tree widget | `FillTreeNode`, close; the other slots are empty | JSON configuration |
| Value editor | `src/VarEditDialog.cpp` | the text of one line | edit, check; nobody opens it | JSON configuration |
| Main window | `src/TestExecutor.cpp`, `src/main.cpp` | io context and thread, geometry | construction, close, settings, destruction | all of them |
| SSH session | `src/SshSession.*` | a counter and a client pointer | none that is called | external library |
| Console widget | `src/QConsole.cpp`, `inc/QConsole.h` | the text and its cursor, `promptParagraph`, `history`, `historyIndex`, `isLocked` | keys, context menu, mouse, drag and drop, `printCommandExecutionResults`, `displayPrompt` | the user, the owner that executes commands |

Three mechanisms join the components: calls within the GUI thread, handlers that
asio runs in an io thread, and Qt signals queued from another thread to the GUI
thread.

### What is hard, and what makes each part correct

* **Log client.** Producers, the constructing thread and the io thread share
  `m_currentMessage` and `m_transferred`; `WriteHandler` reads them without the
  mutex, and only `m_writeInProgress` keeps the others away. Correct: the
  unlocked reads are safe; whoever finds a write in progress may go away because
  somebody looks at the queue again; packages leave whole, once, in the order of
  acceptance; a failed write or a failed encoding cannot corrupt the stream; an
  end of `Stop`, and what it may lose.
* **Queue.** A notification is not missed, operations are atomic, `pop_try`
  returns, `pop` is served.
* **Monitor.** A plain Boolean, `m_isLocked`, hands `m_currentMessage` from the
  GUI thread to the io thread and back. Correct: the buffer of an outstanding
  write does not change, commands arrive whole and in order, what stands on the
  screen is what Return sends, the history index is in range.
* **External process.** `Stop` races the start of the thread it stops
  (`m_isStop` is reset there, `m_process` is made there). Correct: output is
  shown in order; when `Stop` has returned, thread and child are gone; when it
  does not return, and why.
* **JSON configuration.** Searching a path can create nodes or throw; a flush
  truncates the file before it writes it, at every start and every close.
  Correct: a start loses no value of the file it rewrites; a file the program
  wrote is one it can start with; the window comes back where it was closed; the
  window can be closed, whatever was in the file.
* **Encoding.** Places are computed twice, once to make the storage and once to
  write into it; lengths have 16 bits, sums of lengths do not. Correct: every byte
  written is inside the storage and every byte of the frame is written; an
  undamaged frame gives back what went in; a damaged one does not lead the
  iterator out of it, and the iterator stops.
* **Configuration dialog.** It fills its tree by a recursion over the file that
  looks a node up by its name alone before it looks at its path, so names a user
  chose steer it. Correct: whatever the file, the recursion ends; the open dialog
  shows every set and link; what is shown beyond that, and what keeps the dialog
  from opening, comes from such names only.
* **Life of the program.** The log client is one static object behind a
  double-checked lock, found by every message without a check; the io thread of
  the window and the static destructors come to it from both ends. Correct: one
  client is made; a message meets it complete and alive; it has the lengths the
  client's settings name; closing the window comes to an end.
* **Console widget.** Keys, menu, mouse and drags reach the text on different
  ways, each with its own test of where the cursor or the selection is, and the
  mouse goes on while the keyboard is locked. Correct: what stands before the
  edition zone stays as it is; what is sent and recalled is what is shown.

`PROJECT.json` lists the hazards one by one, at their lines, with the properties
that would catch each.

## 2. Modules

| module | what it is | theorems |
|---|---|---|
| `LogChannel` | abstract: a FIFO channel that may be cut | |
| `LogClient` | `CLogClient`, thread by thread, with transport and server | `LogClient_proofs` |
| `MCLogClient` | its instances | |
| `FifoQueue` | abstract: a queue whose operations are atomic | |
| `LockQueue` | `CLockQueue`, lock by lock | `LockQueue_proofs` |
| `MCLockQueue` | its instance | |
| `Monitor` | `CMonitor`, with the camera | `Monitor_proofs` |
| `MCMonitor` | its instance | |
| `LineStream` | abstract: a stream of lines that may fail and may be cut | |
| `ExternalProcess` | `CExternalProcess` and `Console`, with the child | `Console_proofs` |
| `MCExternalProcess` | its instance | |
| `ConfigStore` | `CJsonConfig`, `CAppConfig` and the window that uses them, over several runs of the program | `ConfigStore_proofs` |
| `MCConfigStore` | its instance | |
| `Oscar` | `oscar/`: the builder of frames, what may damage them, the parser | `Oscar_proofs` |
| `MCOscar` | its instance | |
| `QConsole` | `QConsole`, with the user and the owner | `Console_proofs` |
| `MCQConsole` | its instance | |
| `ConfigTree` | `CAppConfigDialog` and what `CAppConfig` tells it | `ConfigTree_proofs` |
| `MCConfigTree` | its instance: 73 files | |
| `Lifecycle` | the log client of the program from `Get(pt)` to the end of the process: message builders, window, main | `Lifecycle_proofs` |
| `MCLifecycle` | its instance | |

`LogClient` composes with `LockQueue` by refinement: it uses each call of the
queue as one atomic step, and `LockQueue` is shown to implement `FifoQueue`,
whose operations are atomic. `LogClient` and `Monitor` both implement
`LogChannel`, the second with commands for packages. `ExternalProcess` implements
`LineStream`: lines, perhaps a notice of failure behind them, perhaps a cut.
`Lifecycle` stands around
`LogClient`: it models which object a message is pushed to, `LogClient` what that
object does with it. `ConfigTree` starts where `ConfigStore` leaves off, with the
settings of a program that has started: the nodes a start makes are there.

Conventions. An action stands for the code between two points where another
thread can observe or disturb the thread. Several short *slip* operators stand
before an operator they resemble: each is that operator with a mistake one could
make in the code. No behaviour uses them; exchanging one for its original makes
a property fail, which shows that the property can fail.

### LogClient

`pc` says where each thread is, and its labels follow the code: `readMode` and
`readStop` are the two unprotected reads of `Push` (LogClient.cpp:106),
`enqueue` is `m_queue.push`, `writeNext`/`locked`/`encode`/`send` are
`WriteNextMessage` (185-219), `handler`/`written` are `WriteHandler` (159-183),
`setStop`..`stopped` are `Stop` (90-102). `Connected`, `ConnectRefused` and
`ConstructorThrows` are the constructor.
The mutex is a variable that holds its owner. `writeOp` is the outstanding
`async_write`: asio reads the buffer while the operation is in state `writing`,
so a unit sent is the unit that stands in `currentMessage` *at that moment*. The
server (external) joins units into frames by frame length; a frame whose units
do not belong together counts as `Garbled`. `received` is what was handed to TCP
on a connection that lived; what the network loses later is not the client's.

Abstractions: a package is a model value, its encoded frame a number of units; a
package is encoded or refused as a whole (`Oversized`). Reading a plain `bool`
that another thread writes is a data race in C++; the model reads the old or the
new value, the two outcomes the compilers of the build produce. `shutdown` on a
connection that is gone throws, and so does a second `join`; both leave a
function called from a destructor, so the process terminates. Calls on the object
after its destruction are not modelled. asio's `async_write` completes only with
the whole buffer or an error, so the branch that sends the rest of a message
(LogClient.cpp:164-169) is not reached; the model lets the transport complete
short writes when `ShortWrites` holds, and shows the branch to be right.

### LockQueue

One step per line that another thread can see: lock, the operation, notify,
wait (mutex released, thread in `waiting`), wake-up (by notification, spurious,
by the deadline), lock again, unlock. `expired` holds the threads whose deadline
has passed. `pop_try` looks at the queue before the deadline, each time round.

### Monitor

A key press is one step: the io thread reads only `m_isLocked`-protected state.
`ReadHandler` posts a signal, `PrintData` is its delivery. `ClearMessage` and
`Unlock` are the two assignments of `WriteHandler` (Monitor.cpp:131-132), in
their order: a key press can come between them, not before them. `line` is the
text block under the cursor, `currentMessage` what the code believes stands
there.

### ExternalProcess

Three actors: the GUI thread (`gui`), the reader thread (`worker`) and the child
(external). `Spawn` fills `m_process`, `Terminate` is
`boost::process::child::terminate`, which does no harm to a child that is gone.
Both threads call it on the same object without a lock, and all calls of the child are
the overloads that throw. `Throws` is therefore possible wherever the try block
(ExternalProcess.cpp:95-117) makes one: when the child is made, at `running()` (not
evaluated once `m_isStop` is seen), at `terminate()`, which leaves the child as it was,
and at `wait()`, behind it. It posts the text of the exception, behind whatever lines
were posted before, and leaves -100 for the exit code. `StopThrows` is the `terminate`
of `Stop` (l. 87), which nobody catches on the way out of the destructor.
`pipeHeld` says that a process started by the child inherited its output pipe:
`getline` then does not see an end of file when the child is gone. `shown` and
`posted` are the lines the console has inserted and the signals still queued; an
exception's text counts as one of them. `LineStream` is what the window may rely on.

### ConfigStore

One actor, the GUI thread, and a file that outlives it. A JSON value is a tree:
a function from paths (sequences of names) to a scalar, null, `Object` or
`Array`; what is inside arrays plays no part. `FindAll` is the search that is not
const (JsonConfig.cpp:210-233): it makes what is missing, null nodes become
objects, and it `Throws` at a node that can have no members. Since it throws
before it has made anything, a call that throws leaves the tree as it was.
`CheckRequiredNodes` does all its searches in one step: the nodes one search makes
never make another one throw, so their order does not matter. `ReadThrows` is the
const search with `asString` behind it.

`Flush` is two steps, because between them the file is empty or half written
(`Torn`): `Truncate` and `Write`, and each can fail without anybody noticing.
`Crash` can come anywhere. A torn file makes the next start refuse; only the user
(`UserEdits`) ends that. When `readSettings` throws, the constructor leaves a
joinable `m_thread` (a `std::thread`, StdInc.h.in:62-65) behind, so the process
terminates before the handler in `main` runs.
`SetByPath`, `SaveCurrentPropertySet` and `ClearUndo` have no caller at this commit
and the caller of `Undo` is guarded by a flag nobody sets; they are modelled as the
class offers them, to be called while the window is there.

### Oscar

One call of `make_flap_package`, then one of the constructor of `flap_parser`, on
one frame. The frame `stg` is a sequence of bytes; a byte has `Byte` values and a
word `Byte * Byte`, 256 and 65 536 in the code. The builder has a step for each
element `std::accumulate` adds (`AddSize`), one for the storage and the SNAC
header (`FillHeader`), one for each TLV (`StoreData`) and one for the FLAP header.
`starts` remembers the sums, `ptr` goes along with the writing: that they agree is
to be shown, not assumed. `BigEndian` is what `native_to_big` does on a
little-endian machine. `Damage` changes one byte of a finished frame to anything
in `Noise`, `Cut` drops its end. In the parser `begin` and `end` are the members of
`tlv_iterator` as indices; a byte behind the storage may have any value. The
constructor of an iterator and `++` each read a length before they compare, so
the checks are part of the steps.

The template arguments of `make_flap_package` in `LogClient.cpp:198-206` are the
types of the traits, so the sizes of the arguments (snac.h:55) are those of the
tuple (snac.h:110); `Args` says so.

### QConsole

`doc` is the text, one character for a separator of blocks, with the position and
the anchor of the widget's cursor; the operators on it are what the calls of
`QTextCursor` and `QTextEdit` do and are external. An action is one key, menu
entry, mouse gesture or call of the owner. The keys without a case of their own
(QConsole.cpp:491-508) first move the cursor: `EditCursor`. `Home` has no `break`
and goes on as `Down`. `Del` asks where the cursor is, `Cut` where the selection
is. `RemoveSelection` is what `QTextEdit` does with a selection without asking the
console: Ctrl and Delete, and a drag to another program.

A block longer than `Width` is wrapped. Where its lines begin depends on words, font and
size of the widget and is left open, but it does not change of itself: `lines` is the
layout, a text that changes is laid out anew (`LaidOut`), and so is one whose widget gets
another size (`Resize`). The code uses all three measures of a place: `blockNumber`,
the block's start (`getCurrentCommand`) and the line's start (`replaceCurrentCommand`, and
`columnNumber` in the tests of the zone and of Backspace, QConsole.cpp:328, 548, 560,
577). In the first `promptLength` columns of every later line of the prompt's block
the tests say that the cursor is not in the zone: Return, Tab, Up, Down, Backspace and a
drop are ignored there, and a typed character goes to the end of the text; behind exactly
`promptLength` columns Backspace is ignored again. `ZoneHolds` and `SelectionHolds` have
the layout as a parameter, because a drop and an incomplete command ask about a text
that has just changed.
`isCommandComplete` and `suggestCommand` are virtual; their answers are the
constants `Incomplete` and `Suggestions`. The owner prints only while it has a
command and ends each command once. `MaxHistory` bounds what the history keeps. The
module stands beside `ExternalProcess` in `Console_proofs`, so its specification has
names of its own (`QInit`, `QNext`, `QSpec`, `QTypeOK`).

Not in the model: undo and redo (`displayPrompt` clears what could be undone before
the prompt), input methods, results that Qt takes for rich text. `oldPosition` is
left out, because a drop sets the cursor anew.

### ConfigTree

The recursion of `FillTreeNode` is a stack of `calls`, each with the nodes it has
still `todo`; one step is one turn of the loop (AppConfigDialog.cpp:133-146), one
step a return. `items` are the items in the order of their making, each with its
`parent`, so `NodePath` climbs as `GetNodePath` does. A mask is the set of its bits:
`JO_MONITORS` (3) is the bits of `JO_SESSIONS` and `JO_CONNECTIONS`. A name is a
model value; `Parts` says what `SplitPath` makes of it - nothing of an empty one,
several names of one with dots. A link that is null reads as the empty name. The
order of the members of an object is that of their texts and is left open, sorting
and expanding are layout. In the call for a nameless item `setCurrentItem` gets an
item that is not in the widget, which has no effect. `SearchThrows` is `isMember` on
a value that can have no members, `LinksThrow` is `asString` of an object or array;
both leave the constructor of the dialog and the slot `OptionsDialog`, and the stage
`thrown` is the end of the run. The settings are those of a start that succeeded
(`FileAssumption`): the nodes of the program are there, and what has a node below it is
an object. The kinds of components are any list with at least one in it. `closeEvent` would undo if anything set `m_bDirty`.

### Lifecycle

`pc` follows `Get(pt)` line by line (`test`, `lock`, `retest`, `make`, `connect`,
`publish`, `unlock`, `return`) and a message from its builder to `Push` (`build`,
`send`, `push`). Both threads may do both, `Starters` says who may call `Get(pt)`.
Its call in the main window is commented out at this commit (TestExecutor.cpp:39)
together with everything that logs; the model takes callers in the place where they
stood, and any slot or handler. Main's way to the end is `stage`: `Close`, `StopIo`
and `Join` are the three lines of `~TestExecutor`, then come the static destructors.
`unique_ptr` keeps its pointer until the destructor has returned, so `DestroyClient`
and `EndProcess` are two steps: a thread that was not joined would find an object
that is being destroyed. `client` says what the object is: `making` in its
constructor, `alive` from its connection on. The pointer is a plain one; a racing
read gives the old or the new value, and the builds (x86) do not store it before
what the constructor has stored. How often the constructor tries to connect is in
`LogClient`; so is `Stop`, which is one step of `DestroyClient` here although it may wait
for ever behind a failed write (`StopSettles`). `message` has the lengths
of tag and text, cut and filled up as `Init` and the destructor of the builder do it;
a null pointer is not an exception, so the handlers of that destructor do not see it.

## 3. Runs

| run | instance | states | shows |
|---|---|---|---|
| `LogClient` | 2 producers, 2 messages each, one of them too large, a log file, Stop twice | 641 349 | `UnlockedReadsSafe`, `NoLostWakeup`, `StopLosesAtMostOne`, `ImplementsChannel`, `SecondStopTerminates` |
| `LogClient_faults` | 1 message each, one Stop, refused and broken connections, short writes, `LoggingMode` from elsewhere | 350 864 | `FrameIntact`, `WedgedForGood`, `StopSettles`, `AcceptedIsDelivered` |
| `LogClient_comment` | 2 producers | violation | LogClient.h:36 says `WriteNextMessage` runs under the lock; it does not |
| `LockQueue` | 3 threads, 1 call each, 2 values | 15 017 | `ImplementsFifo`, `PopTryReturns`, `PopIsServed` |
| `Monitor` | 2 characters, commands of at most 2, 2 commands, 1 signal on its way | 147 390 | `TypeOK`, `SeenIsSent`, `BufferStable`, `StuckForGood`, `ImplementsChannel`, `EnterUnlocks` |
| `ExternalProcess` | 1 command, 2 lines out of three, calls that throw in both threads, every other fault | 36 269 | `ShownInOrder`, `StoppedMeansGone`, `StopSettles` |
| `ConfigStore` | 10 files of a user, 2 geometries, 2 property sets, 1 undo, failing disk, crashes | 17 334 | `CloseNeverThrows`, `StartKeepsValues`, `OwnFileIsGood`, `GeometryComesBack` |
| `Oscar` | bytes of 8 values, 5 values to pass, one byte damaged or any cut | 69 659 | `StoresInside`, `GivesBack`, `CountsInside`, `CountingEnds` |
| `QConsole` | 1 letter, 1 break, 2 characters in the zone, 2 commands, lines of 2 characters or, in a wrapped block, of any number, any resize | 81 520 | `QTypeOK`, `ProtectedText`, `ShownIsMeant` |
| `QConsole_del` | the same | violation | QConsole.cpp:772 says `del` deletes only in the edition zone; it deletes a selection that begins before it |
| `ConfigTree` | 2 of the 4 kinds of components, 73 files | 1 944 | `NothingMissing`, `ExtrasBelowMainNames`, `ThrowsForNames`, `RecursionIsBounded` |
| `Lifecycle` | both threads, 3 calls each, 2 settings, lengths 0 to 3 | 36 275 | `OneClient`, `PushFindsClient`, `SettingsApply`, `ExitGoesOn` |

A property that is proved for every value of the constants is not always run as well:
the runs of `LogClient`, `LockQueue`, `ExternalProcess`, `ConfigStore`, `ConfigTree`,
`Oscar` and `Lifecycle` leave out their type invariants, and `FirstInFirstOut`,
`CommandsInOrder` (what `ImplementsChannel` says of the steps), `NoMissedNotification`,
`NothingNewAfterTerminate`, `ThrownInv`, `ImplementsStream` and `CountingAdvances`, whose
theorems section 4 names.

Two producers and the constructing thread are the fewest for which the thread
that writes a package is not the one that pushed it while a third waits at the
mutex. Frames of two units (messages) and one (control packages) make a stale
`m_transferred` and a buffer replaced too early visible. Two calls of `Stop` are
what the code can do: the program's and the destructor's. Three threads in the
queue are a pusher and two sleepers that compete for one value. Two commands let
the history index run over its whole range, two characters tell what was typed
from what was recalled. Two lines of the child are one that is shown and one
that is lost or empty. The ten files are one for each node the program reads or
writes below (root, `Activity`, `Components`, `Application`, the geometry, the
definitions) with a value that has no room, and usable ones with and without
settings; the number of starts is not bounded. With bytes of eight values a word
has 64, so that the empty text, the longest message that fits (eleven bytes of text)
and the first that does not are all there, and a damaged byte can make a length
wrap. Two characters behind a prompt of one make a word, two blocks, a wrapped line
and a selection across the prompt; two commands make a nearest one that is not the
next one. The run does not go on behind a step that has changed what stands before
the zone, behind a mouse edit in a locked console, or behind a prompt printed in
the middle of the text (`Continued`): those steps are checked, and what the console
does once its prompt is gone is not the question here. Nor does it behind a prompt
that makes the text longer than `MCLength`; eleven characters are two prompts with their
commands and results. The prompt of one character and lines of two make a later line with
a column before `promptLength`, one at it and one behind it. `Reach` lets the mouse go one
place before the zone. One damaged byte of each place reaches every field of the frame; `MaxCount`
bounds the history of the places counted, not the parser.
Two kinds of components are one whose links and sets the files vary and one that has
others beside it. The files have, at the place of the links and at that of the sets,
every kind of value; links with a plain name, a dotted one, none, those of the nodes
`Activity`, `Components` and `CurrentSet`, twice the same, and an object; and below
sets with these names the nodes the recursion then asks for, again with every kind of
value, so that it goes on, stops, or throws there. Three calls of a thread are
`Get(pt)`, a message begun before it has returned anywhere and one behind it; settings
on either side of the defaults, with lengths below, at and above each, reach both
branches of the cutting and the filling.
Where a theorem states a property, it does not depend on these numbers.

### Fairness

`LogClient`: weak fairness of every thread inside a call, of the io thread and
of the network (a write in progress completes or fails). Threads are scheduled
by the operating system, and the mutex is held for finitely many steps. Nobody
has to log, to stop, or to break the connection.
`LockQueue`: the same, with strong fairness for taking the mutex, because
spurious wake-ups of others could keep it busy at every moment the thread looks.
The C++ standard does not promise it; the platform mutexes do in practice. Time
passes: a deadline is reached.
`Monitor`: the io thread and the network go on; nobody has to press a key.
`ExternalProcess`: both threads go on; the child does what it likes.
`ConfigStore` has safety properties only and needs no fairness.
`QConsole` has safety properties only and needs no fairness.
`ConfigTree` has safety properties only and needs no fairness: that the recursion ends
is a bound on its depth and a finite file.
`Lifecycle`: threads inside a call go on, the io thread starts and returns when its
context is stopped, and main goes on from the first line of `~TestExecutor`; nobody has
to log or to close the window. A handler always ends: it is a finite call here, and in
`LogClient` the waiting `Stop` is not called by a handler.
`Oscar`: a call once made goes on; it is straight code on one thread.

### What the runs say about the code

* The locking scheme of the log client is right, although the comment on
  `WriteNextMessage` describes another one.
* A failed write or a package that cannot be encoded stops the client for good:
  `m_writeInProgress` is never reset. No frame is mixed up by it, but if the
  logging mode is set back, packages pile up, and `Stop` waits for ever
  (`StopSettles` names this outcome).
* `Stop` may cut off the last package: usually the stop package itself.
* A client on which `Stop` was called dies in its destructor (`SecondStopTerminates`).
* `Stop` of an external process whose child was never made uses a null pointer,
  dies when its `terminate` throws, and waits for ever when a grandchild keeps the pipe
  (`StopSettles`). An exception of the reading thread may follow lines already shown;
  its text is then the last (`ShownInOrder`), and when `Stop` returns the child is gone
  nevertheless (`StoppedMeansGone`), with -100 for its exit code.
* A crash or a full disk during a flush, which also happens at every start,
  leaves a file the program refuses from then on. Nothing else the program does
  locks the user out (`OwnFileIsGood`), and the refusal is what keeps the settings from
  being replaced by defaults (`GeometryComesBack` fails if `Load` takes a torn file).
* The parser of a frame is safe against damage with one exception: `tlv::get_size`
  adds the header to the length in 16 bits. A length of 65 532 gives 0, and
  `calc_tlv_count` never ends (`Endless`); 65 533 to 65 535 make it read a TLV from
  the middle of another (`Wraps`). No frame the builder makes has such a length.
* One entry of the file can keep the options dialog from opening: a link that is an
  object or a list, or one called like a node of the program (`Activity`, `Components`,
  `CurrentSet`, or nothing) makes its constructor throw (`ThrowsForNames`), and a set
  so called may. Otherwise such names only add a second copy of the program's nodes
  below themselves (`ExtrasBelowMainNames`).
* A message logged before the first `Get(pt)` has returned may meet a null pointer and end
  the process (`PushOnNull`); one that began before may have the lengths of the
  defaults. Behind it the client is always there, because the window joins its io
  thread before main's static objects go.
* A constructor of the log client that cannot connect does not throw to its caller: its
  thread is running, so the process terminates (`ConnectThrows`).
* A monitor whose write failed takes no key any more (`StuckForGood`).
* The console's text before the zone is safe against keys, pastes and drops, with
  the exceptions `Hole` names: the menu's Delete, Ctrl with Delete and a drag take a
  selection across the prompt with them; Ctrl with Backspace deletes a word that
  begins in the prompt; the prompt after an answer is printed wherever the user has
  put the cursor meanwhile. When lines are wrapped, a recalled command replaces
  only part of the old one, and in the first columns of every line but the first the
  keys that edit are ignored, as if the cursor were in the prompt. The text before the
  zone is safe there too, and what Return records from a later line is the whole
  command (`ShownIsMeant`).

## 4. Proofs

Each `_proofs` module proves an invariant `IInv` of its component inductive:
`Init => IInv` and `IInv /\ [Next]_vars => IInv'`, one step per action, and takes
the safety properties, the action properties and the refinement from it.
`Console_proofs` does so for two components, the widget and the process. The
assumptions are those stated with the constants (named `...Assumption`) in the
component's module; TLC evaluates them in every run.

* `LogClient`. `FirstInFirstOut` alone is not inductive: whether a delivery
  appends the right package depends on what `m_currentMessage` is, and that on
  who may write it. `MutexInv` ties the mutex to the labels; `WriterInv` says that
  `m_writeInProgress` is owned by exactly one of: a thread that encodes, the
  outstanding write, the handler; `ChannelInv` states that `accepted` is
  `received`, the package in flight, `queue`; `PartialInv` ties the server's
  unfinished frame to the progress of the write.
  Proved: `TypeOK`, `UnlockedReadsSafe`, `NoLostWakeup`, `FirstInFirstOut`,
  `FrameIntact`, `StopLosesAtMostOne`, `WedgedForGood`, `ImplementsChannel`.
* `LockQueue`. `MutualExclusion` and `StageInv` (labels, operations and results
  fit) carry `NoMissedNotification` and the refinement of `FifoQueue`.
* `Monitor`. `LockInv` (`m_isLocked` covers exactly a write and its handler) is
  the heart: with it, `WriteInv` and `CameraInv`, the key presses cannot reach the
  buffer of a write. Proved: all but the liveness property.
* `ExternalProcess`. `LifeInv` relates the labels of both threads to the child.
  `OutputInv` counts: what was read from the pipe is what was shown or posted, but
  for the line the thread holds, and the pipe has the rest. With it `ShownInOrder`
  is inductive; without it nothing says which line comes next. The child's output
  and its end are arbitrary in the proof. `StoppedMeansGone` does not rest on the
  thread's own `terminate`, which may have thrown: `Stop` returns only after its own.
  As a `LineStream` the object hands on what the child prints; an exception makes the
  stream fail, the delivery of its text is the notice, and `Stop` is the cut. That needs
  one thing more, `ThrownInv`: the exception's text is the last of what is shown or posted.
  Proved: `TypeOK`, `StoppedMeansGone`, `ShownInOrder`, `NothingNewAfterTerminate`,
  `ThrownInv`, `ImplementsStream`.
* `ConfigStore`. First lemmas about the trees, for any names and of any size: a
  search, an assignment and a whole property set leave a tree a tree; they take no
  room from the paths the program needs, because those have at most three names
  and what is written below stands deeper or beside them; none but the close
  touches the geometry. Then the invariant: `RoomInv` says that the tree and every
  tree on the stack of undo is one a start accepts, from the moment the window is
  there; `StartInv` that a start has the tree it found plus the nodes it must add;
  `GeometryInv` that the file, the tree and the stack agree on one geometry until
  the window closes. `CloseNeverThrows` needs the stack in it, `OwnFileIsGood` needs
  to know that the tree a start found is usable when the program wrote it.
  Proved: all five properties.
* `Oscar`. `SizeInv` says how the sums grow and that a later place is at least a
  header further on; `FrameInv` that the TLVs written so far stand at these places,
  which a further TLV and the FLAP header do not touch; `WalkInv` that the iterator
  of an undamaged frame is at the place of the TLV it has counted to, because
  `EndAfter` of a place is the next place and nothing else (lemma `Walk`). Lemmas
  about words, about bytes put into a storage and about joined sequences come
  first. For damaged frames `IteratorInv` is enough: where the iterator ends is
  what the bytes at its beginning say. `Byte`, the values and the damage are arbitrary.
  `CountingAdvances` is the safety half of `CountingEnds`: an iterator that stays where
  it is has met a sum of header and length that is exactly one word (lemma `WholeWord`),
  and the places of an undamaged frame grow, so that no such sum is in it (`WalksOn`).
  Proved: `TypeOK`, `StoresInside`, `GivesBack`, `CountsInside`, `CountingAdvances`.

* `Lifecycle`. `OneClient` is not inductive: the second test helps only because the
  thread that makes the client owns the mutex up to the store of the pointer. `LockInv`
  ties the mutex to the labels, `ClientInv` says where the client is when the pointer is
  still null, `ExitInv` that nobody is inside a call behind the join, `ReadyInv` that a
  returned `Get(pt)` fixes pointer and sizes; `HeldInv` and `MessageInv` carry that to
  the messages. Lemma `InsideBeforeExit` joins them: who is inside a call is before the
  destructor.
  Proved: `TypeOK`, `OneClient`, `PushFindsClient`, `SettingsApply`.

* `QConsole`. The type invariant is inductive as it stands: cursor and anchor are inside
  the text, the history index inside the history, and no recorded command has a break
  in it. What it takes are lemmas about the data: a set of numbers has a least and a
  greatest one, so the block around a place has a beginning, an end and a number
  (`SameBlock`, `LaterBlock`); splicing (`SplicedIs`, `MovedIs`) leaves what is before
  the place and moves what is behind it. `ProtectedText` rests on the *boundary*: while
  the prompt stands, no place before `ZoneStart` passes the tests of the code
  (`isInEditionZone`), however the lines are wrapped (`ZoneIs`, `BoundaryIs`): a line's
  start is never before its block's, so a column is never more than the place in the
  block. Places behind it may fail the tests, in the first columns of a later line; there
  the code does nothing, or acts at the end of the text. Every action is then shown to
  leave everything before any boundary as it was (`Spares`), or to be one of the
  exceptions `Hole` names. `ShownIsMeant` needs that in a zone of one block each place
  sees the same command (`OneBlockIs`), and that a recalled command, having no break,
  leaves the beginning of the zone where it was (`ZoneOfIs`, `RecallIs`).
  Proved: `QTypeOK`, `ProtectedText`, `ShownIsMeant`.
* `ConfigTree`. `CallInv` says that there is one call for each level of the tree,
  `LoopInv` that what should stand below an item is made or still to do; the two give
  `NothingMissing` when no call is left. `PlaceInv` says where an item stands and why,
  which is `ExtrasBelowMainNames` and, with the last item of a constructor that throws,
  `ThrowsForNames`. `RecursionIsBounded` is the hard one: a name
  like one of the program's brings items that no path of the file has, and an empty name
  drops out of the path that is asked for. `LeadInv` bounds how far that path is behind
  the levels, `DepthInv` what the longest path of the file leaves for them;
  below an array nothing can be asked for. Three levels for two names, and two and a half
  more, are reached. What `NodePath` and `SearchPath` give at an item of
  any depth is proved from the item above it, by the least item at which it would be wrong.
  Proved: `TypeOK`, `NothingMissing`, `ExtrasBelowMainNames`, `ThrowsForNames`,
  `RecursionIsBounded`.

`ImplementsStream` and `ThrownInv` of the external process and `CountingAdvances` are
proved and not in a run; TLC finds them true on the instances of these components too.
Every safety property of a run is proved. Only model-checked is liveness
(`AcceptedIsDelivered`, `StopSettles`, `SecondStopTerminates`, `PopTryReturns`,
`PopIsServed`, `EnterUnlocks`, `CountingEnds`, `ExitGoesOn`), which is beyond the
installed provers.

## 5. Plan

In the order of their weight:

1. A stronger abstract specification: `ConfigStore` as an implementation of a store
   whose saves are atomic except for a tear.
2. The safety half of more liveness properties, as `CountingAdvances` is that of
   `CountingEnds`: what each step of `ExitGoesOn` and `StopSettles` comes nearer to.
3. `Lifecycle` with `SshSession`, whose use counter starts and stops the ssh library,
   once some code makes a session; undo and redo of `QConsole` as a stack of texts.

## 6. Not modelled, and why

* The use of the console widget in the main window is commented out
  (TestExecutor.cpp:65-67); `QConsole` models the widget with any owner.
* Forms, resources, build files, file dialogs, colours, fonts, scroll bars, and the
  logger tab, which appends text: no state the rest depends on.
* The value editor works on the text of one line with one thread, and nothing opens it:
  the slots of the configuration dialog that would are empty.
* `SshSession` and `SshTypes` have no user; `timestamp.*` and the exceptions convert
  values and keep no state.
* Conversions without a caller (`GetValue` of other types), `GetByPath`, which only
  reads, and the JSON library, whose text form is taken as exact.
* Memory: calls on an object after its destruction, except where a model says
  otherwise, and exhaustion.
