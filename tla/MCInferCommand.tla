---------------------------- MODULE MCInferCommand ----------------------------
(***************************************************************************)
(* Documents of both formats, built from small blocks, and the arguments   *)
(* of a command.                                                           *)
(***************************************************************************)
EXTENDS InferCommand, TLC

Opt(phase, default, help) == [flag |-> "a", phase |-> phase, default |-> default, help |-> help]
Flagged(option, flag) == [option EXCEPT !.flag = flag]

Empty == [p \in {} |-> "none"]
Module(c, m) == <<"entry", c, "module">> :> m
Mode(c, m) == <<"entry", c, "mode">> :> m
Kind(c, k) == <<"entry", c, "kind">> :> k
AllKind(k) == <<"entry", "kind">> :> k
Library(c) == <<"entry", c, "native", "library">> :> "yes"
Abi(n) == <<"runtime_abi_version">> :> n
Protocol(n) == <<"protocol_version">> :> n
Python == <<"python_dependencies">> :> "yes"
RunOptions(p, q) ==
    <<"run_options">> :> ("a" :> Opt(p, FALSE, TRUE) @@ "model" :> Flagged(Opt(q, TRUE, TRUE), "model"))
ServeOptions(p) == <<"serve_options">> :> ("a" :> Opt(p, TRUE, TRUE))
\* A flag of the parser of both, of run alone, of serve alone; one flag for two.
Clashing(flag) ==
    <<"run_options">> :> ("a" :> Flagged(Opt("load", TRUE, TRUE), flag))
    @@ <<"serve_options">> :> ("a" :> Flagged(Opt("warmup", TRUE, TRUE), flag))
Doubled == <<"run_options">> :> ("a" :> Opt("load", FALSE, TRUE) @@ "model" :> Opt("load", TRUE, TRUE))
Nameless == <<"run_options">> :> ("a" :> Opt("load", FALSE, FALSE))

RunM1 == Module("run", "m1")
ServeM2 == Module("serve", "m2")
NativeServe == Kind("serve", "native-abi") @@ Library("serve")

Doc3(top, variants) ==
    [version |-> "3", top |-> top, defaults |-> Empty, envs |-> Empty, variants |-> variants,
     files |-> {"m1", "m2"}]
Doc4(top, defaults, envs) ==
    [version |-> "4", top |-> top, defaults |-> defaults, envs |-> envs, variants |-> Empty,
     files |-> {"m1", "m2"}]

Common == Python @@ RunM1 @@ ServeM2 @@ RunOptions("load", "predict") @@ ServeOptions("warmup")

Tops3 ==
    {Common,
     Common @@ Mode("run", "script"),
     Common @@ Mode("serve", "script") @@ NativeServe,
     Common @@ Mode("run", "odd"),
     Common @@ NativeServe @@ Abi(1),
     Common @@ NativeServe @@ Abi(2),
     Common @@ AllKind("native-abi") @@ Kind("run", "blank") @@ Abi(1),
     Common @@ AllKind("odd"),
     Python @@ RunM1 @@ RunOptions("warmup", "load"),
     Python @@ RunM1 @@ Nameless,
     Python @@ RunM1 @@ ServeM2 @@ Clashing("quiet"),
     Python @@ RunM1 @@ ServeM2 @@ Clashing("warmup"),
     Python @@ RunM1 @@ ServeM2 @@ Mode("run", "script") @@ Clashing("host"),
     Python @@ RunM1 @@ Doubled,
     Python @@ ServeM2,
     RunM1 @@ RunOptions("load", "load"),
     Python @@ Module("run", "m3") @@ RunOptions("load", "load")}

Variants3 ==
    {"v" :> (RunOptions("load", "load") @@ ServeOptions("load")),
     "v" :> (RunOptions("predict", "warmup") @@ ServeOptions("warmup") @@ Module("run", "m2")),
     "v" :> (RunOptions("predict", "load") @@ ServeOptions("predict") @@ NativeServe)}

Docs3 ==
    {Doc3(Protocol(1) @@ t, Empty) : t \in Tops3}
    \cup {Doc3(Protocol(1) @@ Python @@ RunM1 @@ ServeM2 @@ t, v) :
             t \in {Empty, Abi(1), RunOptions("load", "load")}, v \in Variants3}
    \cup {Doc3(Protocol(2) @@ Common, Empty), [Doc3(Protocol(1) @@ Common, Empty) EXCEPT !.version = "5"]}

Defaults4 == {Common, Common @@ NativeServe, Common @@ Abi(1), Python @@ ServeM2, Empty}
Tops4 == {Empty, Module("run", "m2") @@ RunOptions("predict", "load"), Abi(1)}
Overlays4 ==
    {Kind("serve", "native-exec") @@ <<"exec_protocol_version">> :> 1,
     Empty, Module("run", "m2"), Mode("run", "script"), NativeServe @@ Abi(1),
     RunOptions("predict", "predict") @@ Protocol(2), RunM1 @@ RunOptions("load", "predict")}

Docs4 ==
    {Doc4(Protocol(1) @@ t, d, "e1" :> o) : t \in Tops4, d \in Defaults4, o \in Overlays4}
    \cup {Doc4(Protocol(1), Common, "e1" :> o @@ "e2" :> Module("run", "m2")) : o \in Overlays4}
    \cup {[Doc4(Protocol(1), Common, "e1" :> Empty) EXCEPT !.version = "text 4"],
          Doc4(Protocol(1), Common, "e2" :> Empty)}

Tails == {<<>>, <<"a">>, <<"model">>}
Long ==
    [1 .. 2 -> Flags \cup Range(Abbreviation) \cup {"A", "a", "warmup"}]
    \cup [1 .. 3 -> {"a", "--checkpoint", "--checkpoint=B", "--mtp-checkpoint", "A", "-q"}]
    \cup {<<"--checkpoint", "A", "--checkpoint", "A">>, <<"a", "model", "--checkpoint", "A">>,
          <<"--mtp-checkpoint", "A", "--checkpoint", "A">>, <<"--checkpoint=B", "--check", "A">>}

Script3 == Doc3(Protocol(1) @@ Common @@ Mode("run", "script"), Empty)
Engine4 == Doc4(Protocol(1), Common, "e1" :> Module("run", "m2") @@ "e2" :> Empty)

Path == [form |-> "path", namespace |-> "a", at |-> ""]
Short == [Path EXCEPT !.form = "short"]
Url == [Path EXCEPT !.form = "url"]
File(path, doc, md5) == [path |-> path, doc |-> doc, md5 |-> md5]
Only(doc) == <<File("top", doc, TRUE)>>

ServeOnly == Doc3(Protocol(1) @@ Python @@ ServeM2, Empty)
Begun(ref, tail, here, tree, index) ==
    [ref |-> ref, tail |-> tail, hub |-> index,
     disk |-> [here |-> here, tree |-> tree, root |-> "tree", index |-> NoIndex, file |-> NoTree]]

\* A directory, and a tree in the cache that FlashHub still has.
Usual ==
    {Begun(Path, i[2], i[1], NoTree, Only(i[1])) :
        i \in (Docs3 \cup Docs4) \X Tails \cup {Script3, Engine4} \X Long}
    \cup {Begun(Short, i[2], NoTree, i[1], Only(i[1])) :
        i \in (Docs3 \cup Docs4) \X {<<"a">>} \cup {Script3, Engine4} \X Tails}

\* No tree yet; a directory of the ref's name; a moved cache; an index and a
\* copy that an earlier command of the venv left; a file without MD5, and one in
\* a directory.
Unusual ==
    LET docs == {Script3, Engine4}
        plain == {Begun(r, <<"a">>, h, t, Only(d)) :
                    r \in {Short, Url}, h \in {NoTree, Script3}, t \in {NoTree, Engine4}, d \in docs}
    IN  plain
        \cup {[b EXCEPT !.disk.root = "elsewhere"] : b \in plain}
        \cup {[b EXCEPT !.disk.index = Only(ServeOnly)] : b \in plain}
        \cup {[b EXCEPT !.disk.file = Script3, !.hub = <<File("nested", ServeOnly, m), File("top", Engine4, m)>>] :
                  b \in plain, m \in BOOLEAN}

InputsDef == Usual \cup Unusual
OtherDef == Only(ServeOnly)
NamespacesDef == {"a", "b"}
UpstreamDef == {Only(Script3), Only(Engine4), <<File("nested", ServeOnly, FALSE)>>}
=============================================================================
