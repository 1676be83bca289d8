----------------------------- MODULE MCResolver -----------------------------
(* Every Dockerfile of up to three of these lines, with an empty cache; and   *)
(* five requests with every store and cache, four of them Compose files whose *)
(* services share layers, one of them listed twice in a manifest.             *)
EXTENDS Resolver

Hub == <<"docker.io">>
Nginx == <<"nginx">>
InHub == <<"docker.io", "/", "library", "/", "nginx">>
Tagged == <<"nginx", ":", "1">>
Ported == <<"reg", ":", "5000", "/", "app">>
Pinned == <<"reg.io", "/", "app", "@", "s2">>
PinnedPort == <<"reg", ":", "5000", "/", "app", "@", "s2">>
Amd == <<"amd64">>
MCTokens == STRING
MCVars == {"", "V", "B", "X"}
MCLowerCase == "Build" :> "build"

Word(w) == [form |-> "word", text |-> w, var |-> "", word |-> <<>>]
Var(w, v) == [form |-> "var", text |-> w, var |-> v, word |-> <<>>]
Alt(w, v, f, d) == [form |-> f, text |-> w, var |-> v, word |-> d]
Arg(v, d) == [op |-> "ARG", var |-> v, default |-> d]
From(r, a) == [op |-> "FROM", platform |-> NoText, ref |-> r, as |-> a]

MCLines ==
    {Arg("V", NoValue), Arg("V", <<"1">>), Arg("B", <<"build">>),
     From(Var(<<"nginx", ":">>, "V"), <<"Build">>),
     From(Alt(<<"reg", ":", "5000", "/">>, "V", ":-", <<"app">>), <<>>),
     From(Alt(InHub, "V", ":+", <<":", "2">>), <<"other">>),
     From(Var(<<>>, "B"), <<>>), From(Word(<<"build">>), <<>>),
     From(Word(<<"scratch">>), <<"build">>),
     [From(Word(PinnedPort), <<"build">>) EXCEPT !.platform = Var(<<>>, "V")]}
MCFiles == UNION {[1 .. n -> MCLines] : n \in 1 .. 3}
Given(w) == [NoArgs EXCEPT !["V"] = w]
MCArgs == {NoArgs, Given(<<"2">>), Given(<<>>)}

MCKeys == {<<Hub, <<"library", "/", "nginx">>, <<"1">>, Amd>>,
           <<<<"reg", ":", "5000">>, <<"app">>, <<"latest">>, Amd>>}
MCLayers == [m \in {"m1", "m2"} |->
    IF m = "m1" THEN <<"c1", "base">> ELSE <<"c2", "base", "base">>]
MCSourceOf == [m \in {"m1", "m2"} |-> IF m = "m1" THEN "s1" ELSE "s2"]

Image_(r) == [kind |-> "image", ref |-> r, file |-> <<>>]
Build(f) == [kind |-> "build", ref |-> <<>>, file |-> f]
None == [kind |-> "none", ref |-> <<>>, file |-> <<>>]
Both == <<From(Word(Tagged), <<>>), From(Word(Ported), <<>>)>>
Dockerfile(f, args) ==
    [compose |-> FALSE, local |-> TRUE, services |-> <<Build(f)>>, args |-> args]
Compose(services, local) ==
    [compose |-> TRUE, local |-> local, services |-> services, args |-> NoArgs]

Scenario(in, b, c, a) ==
    [input |-> in, blobs |-> b, cache |-> c,
     aged |-> {k \in a : c[k] # NotCached}]
Nothing == [k \in MCKeys |-> NotCached]
MCScenarios ==
    {Scenario(Dockerfile(f, args), {}, Nothing, {}) :
        f \in MCFiles, args \in MCArgs}
    \cup
    {Scenario(in, b, c, a) :
        in \in {Dockerfile(Both, NoArgs),
                Compose(<<Image_(Tagged), Build(Both), Image_(Tagged)>>, TRUE),
                Compose(<<Build(Both), None, Image_(Ported)>>, TRUE),
                Compose(<<Build(<<From(Var(<<>>, "X"), <<>>)>>),
                          Image_(Pinned), Build(Both)>>, TRUE),
                Compose(<<Build(Both), Image_(Tagged)>>, FALSE)},
        b \in SUBSET {"c1", "c2", "base"},
        c \in [MCKeys -> {"m1", "m2", NotCached}],
        a \in {{}, MCKeys}}
=============================================================================
