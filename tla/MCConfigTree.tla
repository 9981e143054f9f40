------------------------------ MODULE MCConfigTree ------------------------------
(***************************************************************************)
(* A connection and consoles, and files with every kind of value where the *)
(* links and the sets of the first stand, sets named like nodes of the     *)
(* program, with the nodes below them that this calls for, and others.     *)
(***************************************************************************)
EXTENDS ConfigTree, TLC

CONSTANTS activity, components, currentSet, application, connection, console,
          connections, consoles, plain, dotted, empty, text, null, object, array

MCName == {activity, components, currentSet, application, connection, console,
           connections, consoles, plain, dotted, empty}
MCParts == [n \in MCName |-> CASE n = empty -> <<>>
                               [] n = dotted -> <<plain, plain>>
                               [] OTHER -> <<n>>]
MCKind == << [component |-> connection, definitions |-> connections, mask |-> {1, 5}],
             [component |-> console, definitions |-> consoles, mask |-> {0, 1}] >>

Links == <<activity, currentSet, connection>>
Sets == <<components, connections>>

\* the nodes of every file, empty but for the objects above them
Nodes == [p \in MainPath \cup {<<>>} |-> IF \E q \in MainPath : p \in Above(q) THEN object ELSE null]

\* v stands at p, objects above it
Put(p, v) == [q \in Above(p) \cup {p} |-> IF q = p THEN v ELSE object]
Doc(values, links) ==
  LET all == values @@ Nodes
  IN  [value |-> all,
       links |-> [p \in {q \in DOMAIN all : all[q] = array} |-> IF p = Links THEN links ELSE <<>>]]

LinkLists == {<<>>} \cup {<<n>> : n \in {plain, dotted, activity, components, empty, object}}
             \cup {<<plain, currentSet>>, <<plain, plain>>}

\* what may stand below a set that is named like a node of the program
Below == {Put(<<activity>>, text), Put(<<activity>>, object),
          Put(<<activity, currentSet>>, array),
          Put(<<activity, currentSet, connection, components>>, text),
          Put(<<components>>, null), Put(<<components>>, array),
          Put(<<components, connections>>, text),
          Put(<<components, connections, plain>>, object),
          Put(<<components, connections, components>>, null),
          Put(<<components, connections, activity>>, object),
          Put(<<components, consoles, currentSet, connection>>, object),
          Put(<<currentSet>>, object),
          Put(<<currentSet, console, dotted>>, text),
          Put(<<empty>>, object),
          \* sets with and without properties
          Put(<<plain, plain>>, text) @@ Put(<<dotted>>, object)}
Shift(base, t) == [p \in {base \o q : q \in DOMAIN t} |-> t[SubSeq(p, Len(base) + 1, Len(p))]]
                  @@ Put(base, object)

MCFile ==
       {Doc(Put(Links, array), l) : l \in LinkLists}
  \cup {Doc(Shift(b, t), <<>>) : b \in {Links, Sets}, t \in Below}
  \cup {Doc(Shift(Sets, t) @@ Shift(Sets, u), <<>>) : t \in Below, u \in {Put(<<empty>>, object)}}
  \cup {Doc(Shift(Sets, t) @@ Put(Links, array), <<plain, dotted>>) : t \in Below}
  \cup {Doc(Put(p, v), <<>>) : p \in {Links, Sets}, v \in {text, object}}
  \cup {Doc(Put(Sets, array), <<>>)}
===============================================================================
