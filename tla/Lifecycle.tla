------------------------------- MODULE Lifecycle -------------------------------
(***************************************************************************)
(* The one log client of the program from its making to the end of the     *)
(* process: CLogClient::Get(pt) and Get() (logclient/LogClient.cpp), the   *)
(* messages that look for it (utils/logbuilder.cpp), the main window with  *)
(* its io thread (src/TestExecutor.cpp) and main.  What happens inside the *)
(* client is the matter of LogClient.                                      *)
(***************************************************************************)
EXTENDS Naturals

CONSTANTS
  Main,           \* the thread of main and of the window
  Io,             \* the io thread of the window, which runs the handlers of the monitors
  Starters,       \* threads that may ask for the client with settings
  NoThread,
  Size,           \* lengths of tags and texts
  Settings,       \* [tag, message] sizes in the property trees for Get(pt)
  DefaultSizes,   \* G_TagSize and G_MaxMessageSize before
  NoClient, TheClient,
  MaxCalls        \* bound: calls of one thread

Thread == {Main, Io}
Sizes == [tag : Size, message : Size]

ASSUME ThreadAssumption ==
  /\ Main # Io /\ NoThread \notin Thread /\ Starters \subseteq Thread
  /\ NoClient # TheClient /\ MaxCalls \in Nat
ASSUME SizeAssumption ==
  Size \subseteq Nat /\ 0 \in Size /\ Settings \subseteq Sizes /\ DefaultSizes \in Sizes

VARIABLES
  stage,          \* of the program
  pc,             \* of each thread
  mtx,            \* the static mutex of Get(pt): its owner
  clientPtr,      \* s_logClientPtr
  client,         \* the object: "none", "making", "alive", "dead"
  sizes,          \* G_TagSize, G_MaxMessageSize
  stopped,        \* m_ioCtx was stopped
  message,        \* the message each thread builds: lengths of tag and text
  held,           \* the pointer NetSendToLogger has got for it
  calls,          \* calls each thread has made
  made,           \* history: clients made
  settings,       \* history: the settings of the last one
  ready,          \* history: a call of Get(pt) has returned
  late            \* history: the message was begun when the client was ready

vars == <<stage, pc, mtx, clientPtr, client, sizes, stopped, message, held, calls,
          made, settings, ready, late>>
program == <<stage, stopped>>
object == <<clientPtr, client, sizes, made, settings, ready>>
logging == <<message, held, late>>

-------------------------------------------------------------------------------
Init ==
  /\ stage = "run" /\ stopped = FALSE
  /\ pc = [t \in Thread |-> IF t = Io THEN "start" ELSE "idle"]
  /\ mtx = NoThread /\ clientPtr = NoClient /\ client = "none"
  /\ sizes = DefaultSizes
  /\ message = [t \in Thread |-> DefaultSizes] /\ held = [t \in Thread |-> NoClient]
  /\ calls = [t \in Thread |-> 0]
  /\ made = 0 /\ settings = DefaultSizes /\ ready = FALSE /\ late = [t \in Thread |-> FALSE]

Dead == {"crashed", "terminated"}
At(t, label) == pc[t] = label /\ stage \notin Dead
Goto(t, label) == pc' = [pc EXCEPT ![t] = label]

\* the window's thread runs slots until the end of ~TestExecutor begins, the io thread
\* a handler if its context is not stopped
Free(t) ==
  /\ At(t, "idle") /\ calls[t] < MaxCalls
  /\ IF t = Main THEN stage \in {"run", "closing"} ELSE ~stopped
Count(t) == calls' = [calls EXCEPT ![t] = @ + 1]

-------------------------------------------------------------------------------
(***************************************************************************)
(* CLogClient::Get(pt): test, lock, test again, make                       *)
(***************************************************************************)
CallGet(t) ==
  /\ Free(t) /\ t \in Starters /\ stage = "run"
  /\ Goto(t, "test") /\ Count(t)
  /\ UNCHANGED <<program, mtx, object, logging>>

\* the test without the lock
Test(t) ==
  /\ At(t, "test")
  /\ Goto(t, IF clientPtr = NoClient THEN "lock" ELSE "return")
  /\ UNCHANGED <<program, mtx, object, logging, calls>>

Lock(t) ==
  /\ At(t, "lock") /\ mtx = NoThread
  /\ mtx' = t /\ Goto(t, "retest")
  /\ UNCHANGED <<program, object, logging, calls>>

\* slip: one test is taken to be enough
RetestNot(t) ==
  /\ At(t, "retest")
  /\ Goto(t, "make")
  /\ UNCHANGED <<program, mtx, object, logging, calls>>
Retest(t) ==
  /\ At(t, "retest")
  /\ Goto(t, IF clientPtr = NoClient THEN "make" ELSE "unlock")
  /\ UNCHANGED <<program, mtx, object, logging, calls>>

\* the constructor of the client, up to its first try to connect
\* slip: the sizes stay what they were
MakeWithDefaults(t, pt) ==
  /\ At(t, "make")
  /\ client' = "making" /\ made' = made + 1 /\ settings' = pt
  /\ Goto(t, "connect")
  /\ UNCHANGED <<program, mtx, clientPtr, sizes, ready, logging, calls>>
Make(t, pt) ==
  /\ At(t, "make")
  /\ client' = "making" /\ made' = made + 1 /\ settings' = pt /\ sizes' = pt
  /\ Goto(t, "connect")
  /\ UNCHANGED <<program, mtx, clientPtr, ready, logging, calls>>

Connect(t) ==
  /\ At(t, "connect")
  /\ client' = "alive" /\ Goto(t, "publish")
  /\ UNCHANGED <<program, mtx, clientPtr, sizes, made, settings, ready, logging, calls>>

\* the constructor throws with its thread running
ConnectThrows(t) ==
  /\ At(t, "connect")
  /\ stage' = "terminated"
  /\ UNCHANGED <<pc, stopped, mtx, object, logging, calls>>

\* the store of unique_ptr::reset, when new has returned
Publish(t) ==
  /\ At(t, "publish")
  /\ clientPtr' = TheClient /\ Goto(t, "unlock")
  /\ UNCHANGED <<program, mtx, client, sizes, made, settings, ready, logging, calls>>

Unlock(t) ==
  /\ At(t, "unlock")
  /\ mtx' = NoThread /\ Goto(t, "return")
  /\ UNCHANGED <<program, object, logging, calls>>

Return(t) ==
  /\ At(t, "return")
  /\ ready' = TRUE /\ Goto(t, "idle")
  /\ UNCHANGED <<program, mtx, clientPtr, client, sizes, made, settings, logging, calls>>

-------------------------------------------------------------------------------
(***************************************************************************)
(* LOG_INFO << ...: a builder is made, takes the text, and sends what it   *)
(* has when it is destroyed                                                *)
(***************************************************************************)
AtMost(limit, length) == IF length > limit THEN limit ELSE length

Padded(limit, length) == IF length < limit THEN limit ELSE length

\* CLogMessageBuilder::Init cuts the tag or fills it up with blanks
TagLength(length) == Padded(sizes.tag, AtMost(sizes.tag, length))

BeginLog(t, tag) ==
  /\ Free(t)
  /\ message' = [message EXCEPT ![t] = [tag |-> TagLength(tag), message |-> 0]]
  /\ late' = [late EXCEPT ![t] = ready]
  /\ Goto(t, "build") /\ Count(t)
  /\ UNCHANGED <<program, mtx, object, held>>

\* ~CLogMessageBuilder, up to the sender
EndLog(t, text) ==
  /\ At(t, "build")
  /\ message' = [message EXCEPT ![t].message = AtMost(sizes.message, text)]
  /\ Goto(t, "send")
  /\ UNCHANGED <<program, mtx, object, held, late, calls>>

\* NetSendToLogger: Get() ...
NetSendToLogger(t) ==
  /\ At(t, "send")
  /\ held' = [held EXCEPT ![t] = clientPtr] /\ Goto(t, "push")
  /\ UNCHANGED <<program, mtx, object, message, late, calls>>

\* ... -> Push; the handlers of ~CLogMessageBuilder do not see a null pointer
Push(t) ==
  /\ At(t, "push") /\ held[t] # NoClient
  /\ held' = [held EXCEPT ![t] = NoClient] /\ Goto(t, "idle")
  /\ UNCHANGED <<program, mtx, object, message, late, calls>>

PushOnNull(t) ==
  /\ At(t, "push") /\ held[t] = NoClient
  /\ stage' = "crashed"
  /\ UNCHANGED <<pc, stopped, mtx, object, logging, calls>>

-------------------------------------------------------------------------------
(***************************************************************************)
(* The window's io thread                                                  *)
(***************************************************************************)
\* slip: the context is made ready to run, whatever was before
RunAfresh ==
  /\ At(Io, "start")
  /\ Goto(Io, "idle") /\ stopped' = FALSE
  /\ UNCHANGED <<stage, mtx, object, logging, calls>>
\* ThreadIO; run returns at once when the context was stopped before
RunIo ==
  /\ At(Io, "start")
  /\ Goto(Io, "idle")
  /\ UNCHANGED <<program, mtx, object, logging, calls>>

RunIoReturns ==
  /\ At(Io, "idle") /\ stopped
  /\ Goto(Io, "gone")
  /\ UNCHANGED <<program, mtx, object, logging, calls>>

-------------------------------------------------------------------------------
(***************************************************************************)
(* The end: main leaves the block of the window, then the process          *)
(***************************************************************************)
Advance(from, to) == At(Main, "idle") /\ stage = from /\ stage' = to

\* ~TestExecutor: the monitors shut down, and log it
Close ==
  /\ Advance("run", "closing")
  /\ UNCHANGED <<pc, stopped, mtx, object, logging, calls>>

StopIo ==
  /\ Advance("closing", "joining")
  /\ stopped' = TRUE
  /\ UNCHANGED <<pc, mtx, object, logging, calls>>

\* slip: the io thread is let go
Detach ==
  /\ Advance("joining", "static")
  /\ UNCHANGED <<pc, stopped, mtx, object, logging, calls>>
Join ==
  /\ Advance("joining", "static") /\ pc[Io] = "gone"
  /\ UNCHANGED <<pc, stopped, mtx, object, logging, calls>>

\* the destructor of s_logClientPtr: Stop (see LogClient) and the end of the object;
\* the pointer is null only after it
DestroyClient ==
  /\ Advance("static", "destroyed") /\ clientPtr = TheClient
  /\ client' = "dead"
  /\ UNCHANGED <<pc, stopped, mtx, clientPtr, sizes, made, settings, ready, logging, calls>>

EndProcess ==
  /\ \/ Advance("static", "ended") /\ clientPtr = NoClient
     \/ Advance("destroyed", "ended")
  /\ clientPtr' = NoClient
  /\ UNCHANGED <<pc, stopped, mtx, client, sizes, made, settings, ready, logging, calls>>

-------------------------------------------------------------------------------
Get(t) ==
  \/ Test(t) \/ Lock(t) \/ Retest(t) \/ (\E pt \in Settings : Make(t, pt)) \/ Connect(t)
  \/ ConnectThrows(t) \/ Publish(t) \/ Unlock(t) \/ Return(t)

Log(t) == (\E text \in Size : EndLog(t, text)) \/ NetSendToLogger(t) \/ Push(t) \/ PushOnNull(t)

Exit == StopIo \/ Join \/ DestroyClient \/ EndProcess

Next ==
  \/ \E t \in Thread : CallGet(t) \/ Get(t) \/ (\E tag \in Size : BeginLog(t, tag)) \/ Log(t)
  \/ RunIo \/ RunIoReturns \/ Close \/ Exit

Spec == Init /\ [][Next]_vars

\* the system runs the threads; nobody has to log, or to close the window
FairSpec ==
  /\ Spec /\ WF_vars(Exit) /\ WF_vars(RunIo) /\ WF_vars(RunIoReturns)
  /\ \A t \in Thread : WF_vars(Get(t)) /\ WF_vars(Log(t))

-------------------------------------------------------------------------------
Label == {"start", "idle", "gone", "test", "lock", "retest", "make", "connect", "publish",
          "unlock", "return", "build", "send", "push"}

\* Every variable has its type.
TypeOK ==
  /\ stage \in {"run", "closing", "joining", "static", "destroyed", "ended"} \cup Dead
  /\ pc \in [Thread -> Label] /\ mtx \in Thread \cup {NoThread}
  /\ clientPtr \in {NoClient, TheClient} /\ client \in {"none", "making", "alive", "dead"}
  /\ sizes \in Sizes /\ settings \in Sizes /\ stopped \in BOOLEAN
  /\ message \in [Thread -> Sizes] /\ held \in [Thread -> {NoClient, TheClient}]
  /\ calls \in [Thread -> 0..MaxCalls] /\ made \in Nat
  /\ ready \in BOOLEAN /\ late \in [Thread -> BOOLEAN]

\* Whoever asks first, and however the two tests of Get(pt) interleave
\* (LogClient.cpp:73-80), the process makes one client.
OneClient == made <= 1

\* A thread that pushes a message does it on an object that is complete and not yet
\* destroyed; only a message begun before the first Get(pt) returned may find none
\* (LogClient.cpp:243).  It is the join in ~TestExecutor that keeps the handlers off
\* the static destructors.
PushFindsClient ==
  \A t \in Thread : At(t, "push") =>
    /\ held[t] = TheClient => client = "alive"
    /\ late[t] => held[t] = TheClient

\* A message begun since then has a tag of the length its settings name and at most so
\* much text, although the sizes are plain globals (LogClient.cpp:35-36).
SettingsApply ==
  \A t \in Thread : At(t, "push") /\ late[t] =>
    message[t].tag = settings.tag /\ message[t].message <= settings.message

\* Once the window closes, the process gets as far as the destructor of the client,
\* also when the io thread had not begun to run before its context was stopped.
ExitGoesOn == stage = "closing" ~> stage \in {"destroyed", "ended"} \cup Dead

-------------------------------------------------------------------------------
(***************************************************************************)
(* The inductive invariant behind the safety properties (Lifecycle_proofs) *)
(***************************************************************************)
\* the owner of mtx is the thread between lock and unlock
LockInv ==
  \A t \in Thread :
    pc[t] \in {"retest", "make", "connect", "publish", "unlock"} <=> mtx = t

\* from its test under the lock to the store of the pointer the client belongs to
\* one thread
ClientInv ==
  /\ made <= 1 /\ (client = "none" <=> made = 0)
  /\ clientPtr = TheClient => client \in {"alive", "dead"}
  /\ made = 1 => \/ clientPtr = TheClient \/ client = "dead"
                 \/ \E t \in Thread : pc[t] \in {"connect", "publish"}
  /\ \A t \in Thread :
       /\ pc[t] = "make" => made = 0
       /\ pc[t] = "connect" => client = "making"
       /\ pc[t] = "publish" => client = "alive"
       /\ pc[t] \in {"unlock", "return"} => clientPtr = TheClient

\* behind the join there is one thread, and it has nothing to log
ExitInv ==
  /\ stage \in {"static", "destroyed", "ended"} => pc[Main] = "idle" /\ pc[Io] = "gone"
  /\ client = "dead" => stage \in {"destroyed", "ended"}
  /\ stage = "destroyed" => client = "dead"

\* once Get(pt) has returned, the pointer and the sizes stay what they are
ReadyInv ==
  /\ ready => made = 1 /\ (clientPtr = TheClient \/ client = "dead")
  /\ made = 1 => sizes = settings
  /\ \A t \in Thread : late[t] => ready

MessageInv ==
  \A t \in Thread : pc[t] \in {"build", "send", "push"} /\ late[t] =>
    message[t].tag = settings.tag /\ message[t].message <= settings.message

HeldInv ==
  \A t \in Thread : pc[t] = "push" =>
    /\ held[t] = TheClient => client = "alive"
    /\ late[t] => held[t] = TheClient

IInv ==
  TypeOK /\ LockInv /\ ClientInv /\ ExitInv /\ ReadyInv /\ MessageInv /\ HeldInv
===============================================================================
