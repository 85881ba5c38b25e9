--------------------------- MODULE MCDepsInstall ---------------------------
(* Instances of DepsInstall for TLC. *)
EXTENDS DepsInstall

CONSTANTS torch, audio, app, helper, misc, host, gr00t

MCNames == {torch, audio, app, helper, misc, host, gr00t}
MCVersions == 1..2
At(n, vs) == [name |-> n, accepts |-> vs]
Given(vs) == [kind |-> "given", accepts |-> vs]
Block(t, pip) == [torch |-> t, pip |-> pip]

\* app needs torch and helper, helper a recent torch, misc only helper.
MCRequires == [n \in MCNames |->
    IF n = app THEN {At(torch, MCVersions), At(helper, MCVersions)}
    ELSE IF n = helper THEN {At(torch, {2})}
    ELSE IF n = misc THEN {At(helper, MCVersions)}
    ELSE IF n = audio THEN {At(torch, MCVersions)} ELSE {}]
MCPyPI == [n \in MCNames |-> MCVersions]
MCTorchIndex == [n \in MCNames |-> IF n \in {torch, audio} THEN MCVersions ELSE {}]

Plain == [manifest |-> TRUE, block |-> None, defaults |-> None, envs |-> <<>>, txt |-> <<>>]

\* A bundle that declares nothing, and the FlashRT tree beside flashcli; the
\* block of an environment; a block at the top with a requirements file.
MCRepos == <<[pyproject |-> FALSE, flash_rt |-> TRUE, txt |-> <<>>, dependencies |-> <<>>],
             [pyproject |-> TRUE, flash_rt |-> TRUE,
              txt |-> <<At(audio, MCVersions)>>, dependencies |-> <<At(torch, {1})>>]>>
MCBundles == <<
    Plain,
    [Plain EXCEPT !.envs = [env \in {"env"} |-> Block(Given(MCVersions),
                                <<At(audio, MCVersions), At(app, MCVersions)>>)],
                  !.defaults = Block([kind |-> "skip"], <<>>)],
    [Plain EXCEPT !.block = Block(Given({2}), <<At(audio, {2}), At(misc, MCVersions)>>),
                  !.txt = <<At(gr00t, MCVersions), At(audio, {1})>>]>>
Empty == <<>>
=============================================================================
