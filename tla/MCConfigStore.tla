----------------------------- MODULE MCConfigStore -----------------------------
(***************************************************************************)
(* One component with one set of definitions, two geometries, and files a  *)
(* user may have written: usable ones, and one for every node that has no  *)
(* room for what the program puts below it.                                *)
(***************************************************************************)
EXTENDS ConfigStore, TLC

CONSTANTS activity, components, currentSet, application, geometry, connection,
          definitions, host, g1, g2, text, null, object, array

MCName == {activity, components, currentSet, application, geometry, connection,
           definitions, host}
MCComponent == {connection}
MCDefinitions == {definitions}
MCScalar == {g1, g2, text}
MCGeometry == {g1, g2}

MCProps == {(host :> text), (host :> g1)}

Root == <<>> :> object
Leaf(p, v) == [q \in Above(p) \cup {p} |-> IF q = p THEN v ELSE object]
Saved == Leaf(<<activity, application, geometry>>, g1)
SetOf == <<components, definitions, connection>>

MCUserTrees == {
  Root,
  Saved @@ Leaf(Append(SetOf, host), text),
  \* a set whose member has a member of its own
  Saved @@ Leaf(SetOf \o <<host, host>>, text),
  \* no start gets on with these
  <<>> :> text,
  <<>> :> array,
  Leaf(<<activity>>, text),
  Leaf(<<components>>, array) @@ Saved,
  \* nor do these reach the window
  Leaf(<<activity, application>>, text),
  Leaf(<<activity, application, geometry>>, object),
  \* a text that is no geometry, definitions that are none
  Leaf(<<activity, application, geometry>>, text) @@ Leaf(<<components, definitions>>, text)
}
===============================================================================
