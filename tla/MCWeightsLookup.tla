--------------------------- MODULE MCWeightsLookup --------------------------
(* Instances of WeightsLookup for TLC. *)
EXTENDS WeightsLookup

Pattern(form, dir, kind) ==
    [form |-> form, dir |-> dir, kind |-> kind, dirs |-> {}, own |-> FALSE]
In(dir, kind) == Pattern("in", dir, kind)
Anywhere(kind) == Pattern("below", <<>>, kind)
Directory(name) == Pattern("dir", <<name>>, None)

\* '*.json', and a glob that takes the name of a directory as well.
Json == [In(<<>>, "config") EXCEPT !.own = TRUE]
Loose(kind) == [Anywhere(kind) EXCEPT !.dirs = {"d"}]

NoSpec == [repo |-> None, bundled |-> FALSE, allow |-> {}, any |-> {}, ns |-> FALSE,
           dir |-> <<>>, subdir |-> <<>>, rel |-> <<>>, cache |-> None]
From(repo) == [NoSpec EXCEPT !.repo = repo]
Shipped(rel) == [NoSpec EXCEPT !.bundled = TRUE, !.rel = rel]

Block(main, extras) == [dir |-> <<>>, main |-> main, extras |-> extras]
Publish(version, block, shipped) ==
    [version |-> version, name |-> "pi", variants |-> {},
     block |-> [x \in {Top} |-> block], shipped |-> shipped]

\* "robot" keeps weights and statistics together, or, in "nested", one directory
\* down; "vision" is an extra of several files.
MCHub == [r \in {"robot", "nested", "vision"} |->
    CASE r = "robot" -> {<<<<>>, "config">>, <<<<>>, "shard">>, <<<<>>, "stats">>}
      [] r = "nested" -> {<<<<"d">>, "model">>, <<<<"d">>, "stats">>, <<<<>>, "data">>}
      [] r = "vision" -> {<<<<>>, "model">>, <<<<"d">>, "data">>}]

Vision == [From("vision") EXCEPT !.allow = {In(<<>>, "model"), Anywhere("data")}]
Robot == [From("robot") EXCEPT !.ns = TRUE]
NoExtras == <<>>

MCPubs == {
    Publish(4, Block(Robot, [x \in {"eye"} |-> Vision]), {}),
    Publish(4, Block([Robot EXCEPT !.allow = {Json, Loose("shard")}, !.ns = FALSE], NoExtras), {}),
    Publish(4, Block([From("nested") EXCEPT !.allow = {Anywhere("model"), Anywhere("stats")}], NoExtras), {}),
    Publish(4, Block([From("nested") EXCEPT !.allow = {Directory("d")}], NoExtras), {}),
    Publish(4, Block(Robot, [x \in {"eye"} |-> Shipped(<<"assets">>)]),
            {<<<<"bundle", "assets">>, "config">>, <<<<"bundle", "assets">>, "shard">>}),
    Publish(3, Block(Robot, [x \in {"eye"} |-> [Vision EXCEPT !.cache = "eyes"]]), {}),
    Publish(4, Block(From("robot"), [x \in {"eye"} |-> Vision]), {<<<<"bundle", "assets">>, "model">>}),
    [version |-> 3, name |-> "pi", variants |-> {"a", "b"}, shipped |-> {<<<<"bundle", "checkpoint", "b">>, "model">>},
     block |-> [x \in {Top, "a", "b"} |->
        IF x = "a" THEN Block(Robot, [y \in {"eye"} |-> [Vision EXCEPT !.subdir = <<"eye">>]])
        ELSE Block(NoSpec, NoExtras)]]}
MCOther == {<<"home", "weights">>}
=============================================================================
