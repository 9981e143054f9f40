------------------------------- MODULE ConfigTree -------------------------------
(***************************************************************************)
(* The tree of the configuration dialog (src/AppConfigDialog.cpp), filled  *)
(* from the settings by a recursion that asks CAppConfig for the children  *)
(* of each node (src/AppConfig.cpp): first by the name of the node alone,  *)
(* then, where sets may be appended, by its path.  The settings are those  *)
(* of a program that has started, so the nodes it needs are there.         *)
(***************************************************************************)
EXTENDS SequencesExt

CONSTANTS
  Name,                                 \* texts of tree items, names of members
  Activity, Components, CurrentSet, Application,
  NoName,                               \* the empty text
  Parts,                                \* the names SplitPath makes of one name
  Kind,                                 \* connection, session, console, logger, in this order
  Text, Null, Object, Array,            \* what stands at a node
  File                                  \* the settings the dialog may find

\* ENodeMask: a mask is the set of its bits
JO_COMPONENT_MASK == {0, 1, 2, 3}
JO_APPLICATION == {4}
JO_CURRENT_SESSION == {6}
JO_CONST == {8}
JO_APPEND == {9}
JO_LINKS == {10}

Path == Seq(Name)
Above(p) == {SubSeq(p, 1, i) : i \in 0..(Len(p) - 1)}
IsAny(mask, bits) == mask \cap bits # {}

SNodeProperty == [name : Name, type : {"object", "array", "link"}, mask : SUBSET (0..11)]
Node(name, type, mask) == [name |-> name, type |-> type, mask |-> mask]

listHighNodes ==
  << Node(Activity, "object", JO_CONST), Node(Components, "object", JO_CONST) >>
listActivityNodes ==
  << Node(CurrentSet, "object", JO_CONST \cup JO_CURRENT_SESSION),
     Node(Application, "object", JO_APPLICATION) >>
listComponents ==
  [k \in 1..Len(Kind) |->
     Node(Kind[k].component, "object", JO_APPEND \cup Kind[k].mask \cup JO_LINKS)]
listComponentDefinitions ==
  [k \in 1..Len(Kind) |-> Node(Kind[k].definitions, "array", JO_APPEND \cup Kind[k].mask)]

\* the names GetListMainNodes knows the children of
ParentName == {NoName, Activity, CurrentSet, Components}

MainPath ==
       {<<Activity>>, <<Components>>, <<Activity, CurrentSet>>, <<Activity, Application>>}
  \cup {<<Activity, CurrentSet, Kind[k].component>> : k \in 1..Len(Kind)}
  \cup {<<Components, Kind[k].definitions>> : k \in 1..Len(Kind)}

ASSUME NameAssumption ==
  /\ Cardinality(ParentName \cup {Application}) = 5
  /\ ParentName \cup {Application} \subseteq Name
  /\ Parts \in [Name -> Seq(Name)] /\ Parts[NoName] = <<>>
  /\ \A n \in Name : n \in ParentName \ {NoName} => Parts[n] = <<n>>
ASSUME KindAssumption ==
  /\ Kind # <<>>
  /\ Kind \in Seq([component : Name \ ParentName, definitions : Name \ ParentName,
                   mask : SUBSET (0..7)])
  /\ \A k \in 1..Len(Kind) : /\ Parts[Kind[k].component] = <<Kind[k].component>>
                             /\ Parts[Kind[k].definitions] = <<Kind[k].definitions>>
\* file.value says what stands at a path, file.links what is in an array
ASSUME FileAssumption ==
  /\ Cardinality({Text, Null, Object, Array}) = 4 /\ Object \notin Name
  /\ \A f \in File :
       /\ f.value \in [DOMAIN f.value -> {Text, Null, Object, Array}]
       /\ DOMAIN f.value \subseteq Path /\ IsFiniteSet(DOMAIN f.value)
       /\ MainPath \subseteq DOMAIN f.value
       /\ \A p \in DOMAIN f.value : \A q \in Above(p) : q \in DOMAIN f.value /\ f.value[q] = Object
       /\ \A p \in DOMAIN f.value : f.value[p] = Array => f.links[p] \in Seq(Name \cup {Object})

VARIABLES
  file,      \* the settings (m_storage)
  items,     \* the items of the tree, in the order of their making; 0 is above them
  calls,     \* the calls of FillTreeNode that have not returned, the last one at the end
  stage      \* the dialog: "closed", "filling", "open"; "thrown" by its constructor

vars == <<file, items, calls, stage>>

-------------------------------------------------------------------------------
(***************************************************************************)
(* What CAppConfig tells                                                   *)
(***************************************************************************)
\* slip: a name that is not known is none
MainNodesOfAny(name) ==
  CASE name = Activity   -> listActivityNodes
    [] name = CurrentSet -> listComponents
    [] name = Components -> listComponentDefinitions
    [] OTHER             -> listHighNodes
GetListMainNodes(name) ==
  CASE name = NoName     -> listHighNodes
    [] name = Activity   -> listActivityNodes
    [] name = CurrentSet -> listComponents
    [] name = Components -> listComponentDefinitions
    [] OTHER             -> <<>>

Members(p) == {n \in Name : Append(p, n) \in DOMAIN file.value}
Found(p) == p \in DOMAIN file.value

\* slip: what cannot have members has none
SearchNeverThrows(p) == FALSE
\* isMember refuses what is neither an object nor null
SearchThrows(p) == \E q \in Above(p) : Found(q) /\ file.value[q] \notin {Object, Null}

\* asString refuses an object or an array as a link
LinksThrow(p, mask) ==
  Found(p) /\ file.value[p] = Array /\ IsAny(mask, JO_LINKS) /\ Object \in Range(file.links[p])

\* slip: the children keep the whole mask
ChildNodeOfSameMask(mask, n) ==
  Node(n, IF IsAny(mask, JO_LINKS) THEN "link" ELSE "object", mask)
ChildNode(mask, n) ==
  IF IsAny(mask, JO_LINKS)
  THEN Node(n, "link", (mask \cap JO_COMPONENT_MASK) \cup JO_LINKS)
  ELSE Node(n, "object", mask \cap JO_COMPONENT_MASK)

\* slip: an array of links is taken for no node at all
NamesOfObject(p, mask) ==
  IF Found(p) /\ file.value[p] = Object THEN SetToSeq(Members(p)) ELSE <<>>
\* the names of a value's members come in the order of the texts, which plays no part
NamesAt(p, mask) ==
  IF ~Found(p) THEN <<>>
  ELSE CASE file.value[p] = Array /\ IsAny(mask, JO_LINKS) -> file.links[p]
         [] file.value[p] = Object -> SetToSeq(Members(p))
         [] OTHER -> <<>>

GetListPropertyNodes(p, mask) ==
  LET names == NamesAt(p, mask) IN [k \in DOMAIN names |-> ChildNode(mask, names[k])]

-------------------------------------------------------------------------------
(***************************************************************************)
(* The items                                                               *)
(***************************************************************************)
\* the names GetNodePath puts together
NodePath[i \in 0..Len(items)] ==
  IF i = 0 THEN <<>> ELSE Append(NodePath[items[i].parent], items[i].name)

\* and those SplitPath takes it apart into again
SearchPath(path) == FlattenSeq([k \in DOMAIN path |-> Parts[path[k]]])

\* the mask goes through the text of the item, as four hexadecimal digits
GetNodeFlags(item) == item.mask

Asks(name, mask) == GetListMainNodes(name) = <<>> /\ IsAny(mask, JO_APPEND)

CallThrows(name, path, mask) ==
  Asks(name, mask) /\ (SearchThrows(SearchPath(path)) \/ LinksThrow(SearchPath(path), mask))

NodesOf(name, path, mask) ==
  IF Asks(name, mask) THEN GetListPropertyNodes(SearchPath(path), mask)
  ELSE GetListMainNodes(name)

-------------------------------------------------------------------------------
Init == file \in File /\ items = <<>> /\ calls = <<>> /\ stage = "closed"

\* OptionsDialog makes the dialog; its constructor fills the tree
Open ==
  /\ stage = "closed"
  /\ stage' = "filling"
  /\ calls' = << [item |-> 0, todo |-> listHighNodes] >>
  /\ UNCHANGED <<file, items>>

Innermost == calls[Len(calls)]

\* one turn of the loop: an item, and the call for its children
AddItem ==
  /\ stage = "filling" /\ Innermost.todo # <<>>
  /\ LET node == Head(Innermost.todo)
         path == Append(NodePath[Innermost.item], node.name)
         item == [name |-> node.name, type |-> node.type, mask |-> node.mask,
                  parent |-> Innermost.item]
         rest == [calls EXCEPT ![Len(calls)].todo = Tail(Innermost.todo)]
     IN  /\ items' = Append(items, item)
         /\ IF CallThrows(node.name, path, GetNodeFlags(item))
            THEN stage' = "thrown" /\ calls' = <<>>
            ELSE /\ calls' = Append(rest, [item |-> Len(items) + 1,
                                           todo |-> NodesOf(node.name, path, GetNodeFlags(item))])
                 /\ UNCHANGED stage
  /\ UNCHANGED file

\* the outermost call puts the tree into the widget; InitDialog goes on
Return ==
  /\ stage = "filling" /\ Innermost.todo = <<>>
  /\ calls' = SubSeq(calls, 1, Len(calls) - 1)
  /\ stage' = IF Len(calls) = 1 THEN "open" ELSE "filling"
  /\ UNCHANGED <<file, items>>

\* nothing sets m_bDirty, so nothing is undone
Close ==
  /\ stage = "open"
  /\ stage' = "closed" /\ items' = <<>>
  /\ UNCHANGED <<file, calls>>

Next == Open \/ AddItem \/ Return \/ Close

Spec == Init /\ [][Next]_vars

-------------------------------------------------------------------------------
(***************************************************************************)
(* The tree that is meant: two high trees, the nodes every file has, the   *)
(* sets and the links the user has put below them                          *)
(***************************************************************************)
MeantLinks(p) ==
  IF file.value[p] = Array THEN Range(file.links[p])
  ELSE IF file.value[p] = Object THEN Members(p) ELSE {}
MeantSets(p) == IF file.value[p] = Object THEN Members(p) ELSE {}

UserPath ==
  UNION {    {<<Activity, CurrentSet, Kind[k].component, n>> :
                n \in MeantLinks(<<Activity, CurrentSet, Kind[k].component>>)}
        \cup {<<Components, Kind[k].definitions, n>> :
                n \in MeantSets(<<Components, Kind[k].definitions>>)} : k \in 1..Len(Kind)}

Shown == {NodePath[i] : i \in 1..Len(items)}

\* Every variable has its type, and every call belongs to an item that is there.
TypeOK ==
  /\ file \in File
  /\ items \in Seq([name : Name, type : {"object", "array", "link"},
                     mask : SUBSET (0..11), parent : 0..Len(items)])
  /\ \A i \in 1..Len(items) : items[i].parent < i
  /\ calls \in Seq([item : 0..Len(items), todo : Seq(SNodeProperty)])
  /\ stage \in {"closed", "filling", "open", "thrown"}

\* The open dialog shows all of the settings: the nodes of the program, every set
\* and every link, whatever else the names of the user lead the recursion to.
NothingMissing == stage = "open" => MainPath \cup UserPath \subseteq Shown

\* What is shown beyond that stands below a set or a link with the name of a node
\* of the program, or with none: the children of a node are looked up by its name
\* alone (AppConfigDialog.cpp:123), wherever it stands.
BelowMainName(p) == \E q \in Above(p) \cap UserPath : q[Len(q)] \in ParentName
ExtrasBelowMainNames == \A p \in Shown : p \notin MainPath \cup UserPath => BelowMainName(p)

\* The constructor of the dialog throws only for such a name, or for a link that is
\* an object or an array; any other file opens, nulls, texts and empty sets included.
\* A link with such a name in an array always makes it throw.
Misleading(p) == p[Len(p)] \in ParentName \cup {Object}
ThrowsForNames ==
  /\ stage = "thrown" => \E p \in UserPath : Misleading(p)
  /\ stage = "open" =>
       ~\E k \in 1..Len(Kind) : LET p == <<Activity, CurrentSet, Kind[k].component>> IN
           file.value[p] = Array /\ \E n \in Range(file.links[p]) : Misleading(<<n>>)

\* The recursion ends, although the names in the file steer it.  A level of calls
\* that adds no name to the path asked for is one for a nameless node, and two that
\* add one follow before the settings are asked again; where they have nothing, or
\* below an array, it ends.  No smaller number than five will do.
RecursionIsBounded == \E p \in DOMAIN file.value : 2 * Len(calls) <= 3 * Len(p) + 5

-------------------------------------------------------------------------------
(***************************************************************************)
(* The inductive invariant                                                 *)
(***************************************************************************)
NodeOf(item) == Node(item.name, item.type, item.mask)
NodesBelow(i) ==
  IF i = 0 THEN listHighNodes ELSE NodesOf(items[i].name, NodePath[i], items[i].mask)
Throws(i) == CallThrows(items[i].name, NodePath[i], items[i].mask)

\* There is one call for each level above the item it is about to make.
CallInv ==
  /\ stage = "filling" <=> calls # <<>>
  /\ stage = "closed" => items = <<>>
  /\ \A k \in 1..Len(calls) : Len(NodePath[calls[k].item]) = k - 1

\* Every node below an item is made or to do, and no other; every call returns
\* but the last of a constructor that throws.
LoopInv ==
  /\ \A k \in 1..Len(calls) : Range(calls[k].todo) \subseteq Range(NodesBelow(calls[k].item))
  /\ \A j \in 1..Len(items) : NodeOf(items[j]) \in Range(NodesBelow(items[j].parent))
  /\ stage \in {"filling", "open"} =>
       \A i \in 0..Len(items) : \A node \in Range(NodesBelow(i)) :
         \/ \E k \in 1..Len(calls) : calls[k].item = i /\ node \in Range(calls[k].todo)
         \/ \E j \in 1..Len(items) : items[j].parent = i /\ NodeOf(items[j]) = node
  /\ \A i \in 1..Len(items) : Throws(i) <=> stage = "thrown" /\ i = Len(items)
  /\ stage = "thrown" => items # <<>>

\* Where an item stands: the nodes of the program ask for what the user has put
\* below them, which asks no more but by a misleading name.
IsMain(path, node) ==
  \/ path = <<node.name>> /\ node \in Range(listHighNodes)
  \/ path = <<Activity, node.name>> /\ node \in Range(listActivityNodes)
  \/ path = <<Activity, CurrentSet, node.name>> /\ node \in Range(listComponents)
  \/ path = <<Components, node.name>> /\ node \in Range(listComponentDefinitions)
PlaceInv ==
  \A i \in 1..Len(items) :
    \/ IsMain(NodePath[i], NodeOf(items[i]))
    \/ NodePath[i] \in UserPath /\ ~IsAny(items[i].mask, JO_APPEND)
    \/ BelowMainName(NodePath[i])

\* How far the path asked for is ahead of two levels for three names, and how far
\* the levels are below what the settings have: more below an array of links, where
\* nothing can be asked for any more.
Lead(item) ==
  IF IsAny(item.mask, JO_APPEND) THEN IF IsAny(item.mask, JO_LINKS) THEN 3 ELSE 2
  ELSE IF item.name = NoName THEN 0
  ELSE IF item.name \in {Activity, Components} THEN 1 ELSE 2
LeadInv ==
  \A i \in 1..Len(items) :
    IsAny(items[i].mask, JO_APPEND) \/ items[i].name \in ParentName =>
      2 * Len(NodePath[i]) + Lead(items[i]) <= 3 * Len(SearchPath(NodePath[i]))
BelowArray(path) ==
  \E q \in Above(path) \cup {path} : Found(q) /\ file.value[q] = Array
DepthInv ==
  stage # "thrown" => \A i \in 1..Len(items) : \E p \in DOMAIN file.value :
    \/ 2 * Len(NodePath[i]) + 3 <= 3 * Len(p) + 2 * Lead(items[i])
    \/ /\ ~IsAny(items[i].mask, JO_APPEND) /\ BelowArray(SearchPath(NodePath[i]))
       /\ 2 * Len(NodePath[i]) + 1 <= 3 * Len(p) + 2 * Lead(items[i])

IInv == TypeOK /\ CallInv /\ LoopInv /\ PlaceInv /\ LeadInv /\ DepthInv
===============================================================================
