---------------------------- MODULE MCExchange ----------------------------
(***************************************************************************)
(* Instances of Exchange: a handful of requests over every mode, flag and  *)
(* number of replicas, and answers that are empty, padded, of several      *)
(* lines, in every mode's alphabet or in none, and that contain markers.   *)
(***************************************************************************)
EXTENDS Exchange

Request(mode, replicas) ==
  [nonce |-> 2, attempt |-> 1, retries |-> 1, mode |-> mode, replicas |-> replicas,
   capacity |-> 2, strict |-> FALSE, no_trim |-> FALSE, allow_truncate |-> FALSE,
   device |-> 0]

ManyRequests ==
  { Request("TEXT", 1),
    [Request("TEXT", 1) EXCEPT !.strict = TRUE],
    [Request("TEXT", 1) EXCEPT !.no_trim = TRUE, !.allow_truncate = TRUE],
    [Request("BYTES", 1) EXCEPT !.device = 1],
    Request("TEXT", 2),
    [Request("TEXT", 3) EXCEPT !.retries = 0],
    [Request("NUM", 2) EXCEPT !.retries = 2] }

ManyAnswers ==
  << {<<>>, <<"7">>, <<" ", "A", "B", NL>>, <<"A", NL, "close">>, <<"end">>, <<"A", FF, "B">>,
      <<"close", NL, "open", NL, "A">>},
     {<<"7">>, <<"A", NL, "close">>},
     {<<"7">>, <<"8">>, <<"A", "B">>} >>

\* Two calls show what a call per replica can do, two attempts what is left in
\* a stream, and in both cases the histories multiply.
FewCalls ==
  /\ backend = "independent" => frame.replicas < 3 /\ frame.retries < 2
  /\ backend = "manual" => frame.retries < 2

PromptsWithMarkers ==
  {<<a>> : a \in Marker} \cup {<<"A", NL, a, NL, b>> : a, b \in Marker}
    \cup {<<" ", a>> : a \in Marker}
    \cup {<<"A", FF, "begin">>, <<"open", FF, "A">>, <<"begin", FF, "end">>, <<FF, " ", "begin">>}

=============================================================================
