------------------------------ MODULE ConfigStore ------------------------------
(***************************************************************************)
(* The settings of the program: CJsonConfig (utils/JsonConfig.cpp), its    *)
(* derived class CAppConfig (src/AppConfig.cpp) and the window that owns   *)
(* it (src/TestExecutor.cpp), from one start of the program to the next.   *)
(* A JSON value is a tree: a function from the paths of its nodes to what  *)
(* stands there; the members of arrays are left out.                       *)
(***************************************************************************)
EXTENDS Naturals, Sequences

CONSTANTS
  Name,                                 \* names of members
  Activity, Components, CurrentSet, Application, GeometryName,
  Component,                            \* sConnection, sSession, sMonitors, sLogger
  Definitions,                          \* sConnectionsArray and the others
  Scalar,                               \* strings, numbers and Booleans
  Geometry,                             \* those of them saveGeometry() returns
  Null, Object, Array,
  NoGeometry,                           \* no geometry was saved
  UserTrees,                            \* what a user may have put into the file
  Torn,                                 \* a file no parser accepts
  Props,                                \* structs for SetByPath, scalar members only
  MaxUndo,                              \* bound: saved property sets
  Faulty                                \* the file may fail to open or to be written

Path == Seq(Name)
Above(p) == {SubSeq(p, 1, i) : i \in 0..(Len(p) - 1)}
GeometryPath == <<Activity, Application, GeometryName>>

\* the nodes CheckRequiredNodes looks for
RequiredPath ==
       {<<Activity>>, <<Components>>, <<Activity, CurrentSet>>, <<Activity, Application>>}
  \cup {<<Activity, CurrentSet, n>> : n \in Component}
  \cup {<<Components, n>> : n \in Definitions}

\* the sets of properties a caller of SetByPath may name
SetPath == {<<Components, n, c>> : n \in Definitions, c \in Component}

\* only an object has members
IsTree(t) ==
  /\ t \in [DOMAIN t -> Scalar \cup {Null, Object, Array}]
  /\ DOMAIN t \subseteq Path /\ <<>> \in DOMAIN t
  /\ \A p \in DOMAIN t : \A q \in Above(p) : q \in DOMAIN t /\ t[q] = Object

\* there is no file, so not even a root
Absent == [p \in {} |-> Null]

ASSUME ValueAssumption ==
  /\ Null # Object /\ Object # Array /\ Array # Null
  /\ {Null, Object, Array} \cap Scalar = {}
  /\ Geometry \subseteq Scalar /\ NoGeometry \notin Scalar
ASSUME NameAssumption ==
  /\ {Activity, Components, CurrentSet, Application, GeometryName} \subseteq Name
  /\ Component \cup Definitions \subseteq Name
  /\ Activity # Components /\ CurrentSet # Application
ASSUME FileAssumption ==
  /\ \A t \in UserTrees : IsTree(t)
  /\ Torn \notin UserTrees /\ Torn # Absent
  /\ \A props \in Props : DOMAIN props \subseteq Name /\ props \in [DOMAIN props -> Scalar]
  /\ MaxUndo \in Nat /\ Faulty \in BOOLEAN

VARIABLES
  file,           \* the configuration file
  tree,           \* m_storage
  undo,           \* m_undo, its top at the end
  pc,             \* where the program is; "off" when it does not run
  after,          \* where it goes on after Flush
  window,         \* the geometry of the window
  lastGeometry,   \* history: what the last window closed, or the user, put into the file
  loaded,         \* history: the tree this start found
  ours            \* history: the file was written by a program that had started

vars == <<file, tree, undo, pc, after, window, lastGeometry, loaded, ours>>

-------------------------------------------------------------------------------
(***************************************************************************)
(* Trees (JsonCpp, external, as the code uses it)                          *)
(***************************************************************************)
Empty == [p \in {<<>>} |-> Null]

\* operator[] and isMember refuse a node that can have no members
Throws(t, p) == \E q \in Above(p) \cap DOMAIN t : t[q] \notin {Null, Object}

AboveAll(ps) == UNION {Above(p) : p \in ps}

\* slip: a node that is there is made anew
MakeAnew(t, ps) ==
  [p \in DOMAIN t \cup ps \cup AboveAll(ps) |->
     IF p \in AboveAll(ps) THEN Object ELSE IF p \in ps THEN Null ELSE t[p]]

\* FindJsonValue, not const: the nodes on the way come into being
FindAll(t, ps) ==
  [p \in DOMAIN t \cup ps \cup AboveAll(ps) |->
     IF p \in AboveAll(ps) THEN Object ELSE IF p \in DOMAIN t THEN t[p] ELSE Null]

\* the nodes strictly below p
Below(t, p) == {q \in DOMAIN t : p \in Above(q)}

\* slip: a node that has a value keeps it
AssignOnce(t, p, value) == IF t[p] = Null THEN [t EXCEPT ![p] = value] ELSE t
Assign(t, p, value) == [q \in DOMAIN t \ Below(t, p) |-> IF q = p THEN value ELSE t[q]]

AssignStruct(t, p, props) ==
  LET clean == Assign(t, p, Object)
      member == {Append(p, n) : n \in DOMAIN props}
  IN  [q \in DOMAIN clean \cup member |->
         IF q \in member THEN props[q[Len(q)]] ELSE clean[q]]

\* the const search finds a value, asString refuses it
NotAString(t, p) == p \in DOMAIN t /\ t[p] \in {Object, Array}

\* slips: an exception of the search, or of asString, is taken for "no value"
SearchNeverThrows(t) == NotAString(t, GeometryPath)
AnyValueIsText(t) == Throws(t, GeometryPath)
ReadThrows(t) == Throws(t, GeometryPath) \/ NotAString(t, GeometryPath)

\* a text that is no geometry is not restored
SavedGeometry(t) ==
  IF GeometryPath \in DOMAIN t /\ t[GeometryPath] \in Geometry
  THEN t[GeometryPath] ELSE NoGeometry

Refused(t) == \E p \in RequiredPath : Throws(t, p)

Whole(f) == f \notin {Absent, Torn}

\* slip: what no parser accepts is taken for an empty file
ParsesAnything(f) == TRUE
Parses(f) == f # Torn

-------------------------------------------------------------------------------
Init ==
  /\ file \in UserTrees \cup {Absent, Torn}
  /\ tree = Empty /\ undo = <<>> /\ pc = "off" /\ after = "off"
  /\ window \in Geometry
  /\ lastGeometry = IF Whole(file) THEN SavedGeometry(file) ELSE NoGeometry
  /\ loaded = Empty /\ ours = FALSE

\* between two runs the user may edit the file, damage it, remove it
UserEdits ==
  /\ pc = "off"
  /\ file' \in UserTrees \cup {Absent, Torn} /\ file' # file
  /\ lastGeometry' = IF Whole(file') THEN SavedGeometry(file') ELSE NoGeometry
  /\ ours' = FALSE
  /\ UNCHANGED <<tree, undo, pc, after, window, loaded>>

-------------------------------------------------------------------------------
(***************************************************************************)
(* The constructors                                                        *)
(***************************************************************************)
\* CJsonConfig::Init
Load ==
  /\ pc = "off" /\ Parses(file)
  /\ tree' = (IF Whole(file) THEN file ELSE Empty)
  /\ loaded' = tree' /\ undo' = <<>>
  /\ pc' = "check"
  /\ UNCHANGED <<file, after, window, lastGeometry, ours>>

LoadRefused ==
  /\ pc = "off" /\ ~Parses(file)
  /\ pc' = "refused"
  /\ UNCHANGED <<file, tree, undo, after, window, lastGeometry, loaded, ours>>

CheckRequiredNodes ==
  /\ pc = "check" /\ ~Refused(tree)
  /\ tree' = FindAll(tree, RequiredPath)
  /\ pc' = "truncate" /\ after' = "readSettings"
  /\ UNCHANGED <<file, undo, window, lastGeometry, loaded, ours>>

CheckRefused ==
  /\ pc = "check" /\ Refused(tree)
  /\ pc' = "refused"
  /\ UNCHANGED <<file, tree, undo, after, window, lastGeometry, loaded, ours>>

\* GetGeometry, and the size of a window whose geometry was never saved
ReadSettings ==
  /\ pc = "readSettings" /\ ~ReadThrows(tree)
  /\ window' \in (IF SavedGeometry(tree) = NoGeometry THEN Geometry ELSE {SavedGeometry(tree)})
  /\ pc' = "run"
  /\ UNCHANGED <<file, tree, undo, after, lastGeometry, loaded, ours>>

\* m_thread is joinable: the process ends before main can say why
ReadSettingsTerminates ==
  /\ pc = "readSettings" /\ ReadThrows(tree)
  /\ pc' = "off"
  /\ UNCHANGED <<file, tree, undo, after, window, lastGeometry, loaded, ours>>

\* main shows the message and returns
ShowError ==
  /\ pc = "refused"
  /\ pc' = "off"
  /\ UNCHANGED <<file, tree, undo, after, window, lastGeometry, loaded, ours>>

-------------------------------------------------------------------------------
(***************************************************************************)
(* Flush: open with trunc, write; nobody looks at the stream's state       *)
(***************************************************************************)
FlushThen(where) == pc' = "truncate" /\ after' = where

Truncate ==
  /\ pc = "truncate"
  /\ file' = Torn
  /\ pc' = "write"
  /\ UNCHANGED <<tree, undo, after, window, lastGeometry, loaded, ours>>

OpenFails ==
  /\ Faulty /\ pc = "truncate"
  /\ pc' = after
  /\ UNCHANGED <<file, tree, undo, after, window, lastGeometry, loaded, ours>>

Write ==
  /\ pc = "write"
  /\ file' = tree
  /\ lastGeometry' = IF after = "off" THEN window ELSE lastGeometry
  /\ ours' = (ours \/ after # "readSettings")
  /\ pc' = after
  /\ UNCHANGED <<tree, undo, after, window, loaded>>

WriteFails ==
  /\ Faulty /\ pc = "write"
  /\ pc' = after
  /\ UNCHANGED <<file, tree, undo, after, window, lastGeometry, loaded, ours>>

-------------------------------------------------------------------------------
(***************************************************************************)
(* While the window is there                                               *)
(***************************************************************************)
MoveWindow ==
  /\ pc = "run"
  /\ window' \in Geometry \ {window}
  /\ UNCHANGED <<file, tree, undo, pc, after, lastGeometry, loaded, ours>>

\* where Throws holds, the call throws and has changed nothing
SetByPath(p, props) ==
  /\ pc = "run" /\ ~Throws(tree, p)
  /\ tree' = AssignStruct(FindAll(tree, {p}), p, props)
  /\ FlushThen("run")
  /\ UNCHANGED <<file, undo, window, lastGeometry, loaded, ours>>

SaveCurrentPropertySet ==
  /\ pc = "run" /\ Len(undo) < MaxUndo
  /\ undo' = Append(undo, tree)
  /\ UNCHANGED <<file, tree, pc, after, window, lastGeometry, loaded, ours>>

\* its callers have to ask IsUndoAvailable
Undo ==
  /\ pc = "run" /\ undo # <<>>
  /\ tree' = undo[Len(undo)]
  /\ undo' = SubSeq(undo, 1, Len(undo) - 1)
  /\ FlushThen("run")
  /\ UNCHANGED <<file, window, lastGeometry, loaded, ours>>

ClearUndo ==
  /\ pc = "run"
  /\ undo' = <<>>
  /\ UNCHANGED <<file, tree, pc, after, window, lastGeometry, loaded, ours>>

\* closeEvent, SaveGeometry
Close ==
  /\ pc = "run" /\ ~Throws(tree, GeometryPath)
  /\ tree' = Assign(FindAll(tree, {GeometryPath}), GeometryPath, window)
  /\ FlushThen("off")
  /\ UNCHANGED <<file, undo, window, lastGeometry, loaded, ours>>

\* the process is killed, or the machine stops
Crash ==
  /\ pc # "off"
  /\ pc' = "off"
  /\ UNCHANGED <<file, tree, undo, after, window, lastGeometry, loaded, ours>>

-------------------------------------------------------------------------------
Flush == Truncate \/ OpenFails \/ Write \/ WriteFails

Next ==
  \/ UserEdits \/ Load \/ LoadRefused \/ CheckRequiredNodes \/ CheckRefused
  \/ ReadSettings \/ ReadSettingsTerminates \/ ShowError \/ Flush
  \/ MoveWindow \/ (\E p \in SetPath, props \in Props : SetByPath(p, props))
  \/ SaveCurrentPropertySet \/ Undo \/ ClearUndo \/ Close \/ Crash

Spec == Init /\ [][Next]_vars

-------------------------------------------------------------------------------
IsStack(s) ==
  /\ s \in Seq({s[i] : i \in DOMAIN s}) /\ Len(s) <= MaxUndo
  /\ \A i \in 1..Len(s) : IsTree(s[i])

\* Every variable has its type; in particular only objects have members.
TypeOK ==
  /\ Whole(file) => IsTree(file)
  /\ IsTree(tree) /\ IsTree(loaded)
  /\ IsStack(undo)
  /\ pc \in {"off", "check", "truncate", "write", "readSettings", "run", "refused"}
  /\ after \in {"off", "readSettings", "run"}
  /\ window \in Geometry /\ lastGeometry \in Geometry \cup {NoGeometry}
  /\ ours \in BOOLEAN

\* Whatever file the program started with and whatever was set and undone since,
\* the window can be closed: SaveGeometry finds room for its value
\* (TestExecutor.cpp:117-126; nobody would catch the exception of closeEvent).
CloseNeverThrows == pc = "run" => ~Throws(tree, GeometryPath)

\* The window comes back where the last one that was closed and saved stood,
\* across failed writes, crashes, undo and the flush of every start in between.  A
\* file that one of these has torn opens no window with other settings: the start
\* refuses it (JsonConfig.cpp:167-170), however often it is tried.
GeometryComesBack ==
  [][pc = "readSettings" /\ pc' = "run" /\ lastGeometry \in Geometry
       => window' = lastGeometry]_vars

\* Starting the program rewrites the file (AppConfig.cpp:204) but loses no value
\* in it, and adds only nodes without a value.
StartKeepsValues ==
  pc = "readSettings" /\ Whole(file) =>
    /\ \A p \in DOMAIN loaded :
         loaded[p] # Null => p \in DOMAIN file /\ file[p] = loaded[p]
    /\ \A p \in DOMAIN file :
         (p \in DOMAIN loaded /\ file[p] = loaded[p]) \/ file[p] \in {Null, Object}

\* A whole file that a started program wrote is one that a start accepts: no
\* sequence of settings locks the user out.  Only a torn file does.
Ready(t) == ~Refused(t) /\ ~Throws(t, GeometryPath) /\ ~NotAString(t, GeometryPath)
OwnFileIsGood == ours /\ Whole(file) => Ready(file)

-------------------------------------------------------------------------------
(***************************************************************************)
(* The inductive invariant behind these properties (ConfigStore_proofs)    *)
(***************************************************************************)
FlushTo(where) == pc \in {"truncate", "write"} /\ after = where
Starting == pc \in {"check", "readSettings"} \/ FlushTo("readSettings")
Running == pc = "run" \/ FlushTo("run")
Closing == FlushTo("off")

\* a start has the tree it loaded, with the nodes it must have added
StartInv ==
  /\ pc = "check" => tree = loaded
  /\ Starting => undo = <<>>
  /\ Starting /\ pc # "check" => ~Refused(loaded) /\ tree = FindAll(loaded, RequiredPath)
  /\ Starting /\ Whole(file) => file = loaded \/ (pc = "readSettings" /\ file = tree)
  /\ Starting /\ ours => Ready(loaded)
  /\ file = Absent => ~ours

\* once the window was there, every tree has room for what is put into it
RoomInv ==
  Running \/ Closing => Ready(tree) /\ \A i \in 1..Len(undo) : Ready(undo[i])

\* the tree, every tree it may return to, and the file agree on the geometry
GeometryInv ==
  /\ Whole(file) => SavedGeometry(file) = lastGeometry
  /\ file = Absent => lastGeometry = NoGeometry
  /\ Starting \/ Running => SavedGeometry(tree) = lastGeometry
  /\ Running => \A i \in 1..Len(undo) : SavedGeometry(undo[i]) = lastGeometry
  /\ Closing => SavedGeometry(tree) = window

IInv == TypeOK /\ StartInv /\ RoomInv /\ OwnFileIsGood /\ GeometryInv
===============================================================================
