--------------------------- MODULE MCRunPipeline ---------------------------
(***************************************************************************)
(* Small instances of RunPipeline.                                         *)
(***************************************************************************)
EXTENDS RunPipeline, TLC

CONSTANTS manifest, code, lib,  \* paths
          dir,                  \* a runtime directory
          envA, envB,           \* host environments
          wantA, wantB          \* fingerprints

\* envA has a runtime directory with a native library, envB has none.  The
\* second publication changes every file and drops envB; the index lists code
\* without an MD5.
AllPaths == {manifest, code, lib}
TwoEnvs == {envA, envB}
DirOfPath == manifest :> NoDir @@ code :> NoDir @@ lib :> dir
TwoIndexes == <<AllPaths, AllPaths>>
TwoBodies == <<[f \in AllPaths |-> 1], [f \in AllPaths |-> 2]>>
TwoSupports == <<TwoEnvs, {envA}>>
TwoRuntimes == [v \in 1..2 |-> envA :> dir @@ envB :> NoDir]
ByEnv == [v \in 1..2 |-> envA :> wantA @@ envB :> wantB]

\* One publication.
OneIndex == <<AllPaths>>
OneBody == <<[f \in AllPaths |-> 1]>>
OneSupports == <<TwoEnvs>>
OneRuntime == <<envA :> dir @@ envB :> NoDir>>
OneByEnv == <<envA :> wantA @@ envB :> wantB>>

OneAbi == wantA :> 1 @@ wantB :> 1
TwoStacks == wantA :> {"torch", "deps"} @@ wantB :> {"torch"}
=============================================================================
