-------------------------------- MODULE MCCli --------------------------------
(* Cli for TLC: every short argument list in a few surroundings, and a few    *)
(* argument lists in all of them.                                             *)
EXTENDS Cli, TLC

MCNumbers == ("99" :> 99) @@ ("250" :> 250) @@ ("30001" :> 30001)
MCThreadIds == {"thread"}
MCDashed ==
  ValueOptions \cup
    {"--help", "--version", "--json", "--no-update-notice", "--bogus", RefreshArg}

Tokens ==
  MCDashed \cup Commands \cup MCThreadIds \cup DOMAIN MCNumbers \cup {"other", ""}

ArgumentLists ==
  UNION {[1..n -> Tokens] : n \in 0..3} \cup
  {<<option, value, command, "thread">> :
     option \in MCDashed, value \in Tokens, command \in {"inspect", "unlock"}}

Plain ==
  [noticeOff |-> FALSE, ci |-> FALSE, stdoutTTY |-> TRUE, stderrTTY |-> TRUE,
   cacheRoot |-> "ours", cache |-> "stale", current |-> <<1, 2, 3>>,
   cached |-> <<1, 2, 3>>, published |-> <<1, 10, 0>>, manifest |-> TRUE]

\* What the advisory depends on.
Surroundings ==
  [noticeOff : BOOLEAN, ci : BOOLEAN, stdoutTTY : BOOLEAN, stderrTTY : BOOLEAN,
   cacheRoot : {"ours", "foreign"}, cache : {"fresh", "stale"},
   current : {<<1, 2, 3>>, <<>>}, cached : {<<1, 2, 2>>, <<1, 10, 0>>, <<0, 9, 9>>},
   published : {<<1, 10, 0>>}, manifest : BOOLEAN]

Advised ==
  {<<"inspect", "thread">>, <<"inspect", "thread", "--json">>, <<"unlock", "thread">>,
   <<"--bogus", "--json">>, <<"inspect", "thread", "--no-update-notice">>}

\* What an explicit check depends on.
UpdateSurroundings ==
  {[Plain EXCEPT !.cacheRoot = root, !.cache = cache, !.current = current,
                 !.manifest = manifest] :
     root \in {"ours", "foreign"}, cache \in {"fresh", "stale"},
     current \in {<<1, 2, 3>>, <<>>}, manifest \in BOOLEAN}

Updates == {<<"check-update">>, <<"--json", "check-update">>, <<RefreshArg>>, <<"--version">>}

MCLaunches ==
  [argv : ArgumentLists, ctx : {Plain}] \cup [argv : Advised, ctx : Surroundings] \cup
  [argv : Updates, ctx : UpdateSurroundings]
=============================================================================
