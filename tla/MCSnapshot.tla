----------------------------- MODULE MCSnapshot -----------------------------
(* Instances of Snapshot for TLC. *)
EXTENDS Snapshot

TwoSectors == {1, 2}
\* One program, two states of its RAM; pages are executable in the second.
TwoImages ==
  {[rom |-> <<1, 0>>, ram |-> <<1, 0>>, exec |-> FALSE],
   [rom |-> <<1, 0>>, ram |-> <<2, 1>>, exec |-> TRUE]}
\* A line of text; two of them, the first ended by a form feed.
PlainPrompts ==
  {[lines |-> <<"TEXT">>, ends |-> "newline"],
   [lines |-> <<"TEXT", "TEXT">>, ends |-> "other"]}
\* A prompt one of whose lines reads <<<PENDINGPROMPT.
PromptWithMarker == {[lines |-> <<"TEXT", "PROMPT_CLOSE", "TEXT">>, ends |-> "newline"]}
=============================================================================
