------------------------------- MODULE MCQConsole -------------------------------
(* A console with one letter, one break, and bounds of one or two of each. *)
EXTENDS QConsole

CONSTANTS a, blank, nl, gt

MCKey == {a}
MCSeparator == {gt}
MCPrompt == <<gt>>
MCWelcome == <<>>
MCForeign == {<<nl>>}
MCResult == {<<>>, <<nl>>}
\* the owner takes two commands, and would take one of two lines
MCIncomplete ==
  UNION {[1..n -> Character] : n \in 0..3} \ {<<a>>, <<a, blank>>, <<a, nl>>}
MCSuggestions == {{}, {<<a>>}, {<<a>>, <<a, blank>>}}

\* bound: the text a new prompt ends, so that two commands and their results fit
MCLength == 11

\* The run goes on only from steps that leave alone what stands before the zone,
\* from what the owner does with a locked console, and from prompts at the end of a
\* text that is not too long.
Continued ==
  /\ doc'.text # doc.text => PromptStands /\ Kept /\ (isLocked => Owner)
  /\ isLocked /\ ~isLocked' => ZoneText' = <<>> /\ Len(doc'.text) <= MCLength
===============================================================================
