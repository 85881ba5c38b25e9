---------------------------- MODULE MCInferEntry ----------------------------
(* Instances of InferEntry for TLC. *)
EXTENDS InferEntry

CONSTANTS torch, app, http, dep, cublas, host, gr00t

MCNames == {torch, app, http, dep, cublas, host, gr00t}
MCVersions == 1..2
Ask(n, vs) == [name |-> n, accepts |-> vs]

\* The HTTP stack wants a newer dep than the bundle declares.
MCRequires == [n \in MCNames |->
    IF n = app THEN {Ask(torch, MCVersions)}
    ELSE IF n = host THEN {Ask(http, MCVersions)}
    ELSE IF n = http THEN {Ask(dep, {2})} ELSE {}]
MCPyPI == [n \in MCNames |-> IF n \in {http, cublas, host} THEN {1} ELSE MCVersions]
MCTorchIndex == [n \in MCNames |-> IF n = torch THEN {2} ELSE {}]

Declares(pip) ==
    [manifest |-> TRUE, envs |-> <<>>, defaults |-> None, txt |-> <<>>,
     block |-> [torch |-> [kind |-> "given", accepts |-> MCVersions], pip |-> pip]]
MCBundles == <<Declares(<<Ask(app, MCVersions)>>),
               Declares(<<Ask(app, {2}), Ask(dep, {1})>>)>>
MCNeeds == <<{app, gr00t}, {app}>>
MCUserland == {Ask(cublas, MCVersions)}
BothModes == [c \in Caps |-> IF c = "run" THEN "script" ELSE "engine"]
Empty == <<>>
=============================================================================
