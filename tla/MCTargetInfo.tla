---------------------------- MODULE MCTargetInfo ----------------------------
(* An instance of TargetInfo for TLC: four types, two of one family.        *)
EXTENDS TargetInfo

CONSTANTS v1, v2

alb == <<"a", "l", "b">>
asb == <<"a", "s", "b">>
asd == <<"a", "s", "d">>
bsb == <<"b", "s", "b">>
stack == <<"S">>

SortedNames == <<alb, asb, asd, bsb>>
SpecialNames == {stack}

(* Names; patterns with and without a common prefix; a pattern that matches *)
(* one character; a special target.                                         *)
SomeTargets ==
  {{alb, asb}, {<<"*">>}, {<<"a", "s", "*">>, asb}, {<<"a", "s", "*">>, <<"b", "*">>},
   {<<"a", "?", "b">>, stack}, {<<"a", "s", "?">>}}

File(types) == [state |-> "valid", types |-> types @@ NoSchemas]
SomeInfoFiles ==
  {NoInfo, [NoInfo EXCEPT !.state = "broken"], File(asb :> v1), File(asb :> Bare @@ asd :> v2)}

Doc(at, types) == [at |-> at, broken |-> FALSE, types |-> types]
Schema(t, v) == [name |-> t, schema |-> v]
SomeFolders == {<<>>, <<Doc("file", <<Schema(asb, v1)>>)>>, <<Doc("file", <<Schema(asb, v2)>>)>>}
SomeArguments ==
  {<<>>, <<Doc("url", <<Schema(asd, v1), Schema(asb, v1)>>)>>,
   <<[Doc("file", <<>>) EXCEPT !.broken = TRUE]>>,
   <<Doc("file", <<Schema(alb, v1), Schema(alb, v2)>>)>>}

Is(status) == [status |-> status, schema |-> v1]
SomeRegistries ==
  {[t \in Names |-> Is("aws")],
   alb :> Is("inactive") @@ asb :> Is("private") @@ asd :> Is("activated") @@ bsb :> Is("absent"),
   alb :> Is("private") @@ asb :> Is("deprecated") @@ asd :> Is("aws") @@ bsb :> Is("activated")}
=============================================================================
