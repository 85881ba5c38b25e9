---------------------------- MODULE MCNativeLoad ----------------------------
(* Instances of NativeLoad for TLC. *)
EXTENDS NativeLoad, TLC

MCSm == "sm89" :> 89 @@ "sm120" :> 120
MCCu == "cu124" :> 124 @@ "cu128" :> 128 @@ "cu130" :> 130
MCPy == "py310" :> 310 @@ "py312" :> 312
MCPySegment == 310 :> "py310" @@ 312 :> "py312"
MCRank ==
    LET order == <<"0.1", "0.2", "aarch64", "cu124", "cu128", "cu130", "dev", "f00d123", "fa2", "flash_rt_kernels",
                   "flash_rt_pi", "linux", "py310", "py312", "rc1", "shared", "sm120", "sm89", "spark", "x86_64">>
    IN  [s \in {order[i] : i \in 1..Len(order)} |-> CHOOSE i \in 1..Len(order) : order[i] = s]

Key(sm, cu, py) == <<sm, cu, "linux", "x86_64", py>>
Home == Key("sm120", "cu130", "py312")
Shared == <<"shared">>

OwnCell(key) == [key |-> key, dir |-> key, match |-> FALSE]
In(key, dir) == [key |-> key, dir |-> dir, match |-> FALSE]
Build(module, tag, key, need) ==
    [module |-> module, tag |-> tag, commit |-> "dev", key |-> key, py |-> MCPy[key[Len(key)]], need |-> need]
Kernels1(tag, key, need) == Build("flash_rt_kernels", tag, key, need)
Pi(tag, key) == Build("flash_rt_pi", tag, key, 1)
Dir(libs) == [lib |-> libs, sub |-> FALSE]
Pub(abi, cells, files, pkg) == [abi |-> abi, cells |-> cells, files |-> files, package |-> pkg]

\* Two versions of one environment; one directory that holds two builds; three
\* environments of which none is the host's; a shared directory; environments
\* without natives; libraries of another name.
One == Pub(312, <<OwnCell(Home)>>, Home :> Dir({Kernels1(<<"0.1">>, Home, 1), Pi(<<"0.1">>, Home)}), "eager")
Two == Pub(312, <<OwnCell(Home)>>, Home :> Dir({Kernels1(<<"0.2">>, Home, 1), Pi(<<"0.2">>, Home)}), "lazy")
Both == Pub(312, <<OwnCell(Home)>>,
    Home :> Dir({Kernels1(<<"0.1">>, Home, 2), Kernels1(<<"0.2">>, Home, 1), Pi(<<"0.1">>, Home)}), "eager")

Near == Key("sm89", "cu128", "py312")
Kin == Key("sm120", "cu124", "py312")
Far == Key("sm120", "cu128", "py310")
Matrix == Pub(312, <<OwnCell(Near), OwnCell(Kin)>>,
    Near :> Dir({Kernels1(<<>>, Near, 1)}) @@ Kin :> Dir({Kernels1(<<>>, Kin, 1)}), "broken")
Wrong == Pub(312, <<OwnCell(Far), OwnCell(Near)>>, Near :> Dir({Kernels1(<<>>, Near, 1)}) @@ Far :> Dir({}), "lazy")

Common == Pub(312, <<In(Home, Shared), In(Kin, Shared)>>,
    Shared :> Dir({Kernels1(<<"0.1">>, Home, 2), Pi(<<"0.1">>, Home), Pi(<<"0.2">>, Far)}), "eager")
Older == Pub(310, <<OwnCell(Far), [key |-> <<"spark">>, dir |-> None, match |-> TRUE],
                    In(Key("sm120", "cu130", "py310"), None)>>,
    Far :> Dir({Build("fa2", <<"0.1">>, Far, 1)}), "none")
Candidate == Pub(312, <<OwnCell(Home), [key |-> <<"spark">>, dir |-> Near, match |-> TRUE]>>,
    Home :> Dir({Kernels1(<<"0.1", "rc1">>, Home, 1), Pi(<<"0.1">>, Home)}) @@ Near :> [lib |-> {}, sub |-> TRUE], "lazy")

\* The old naming, and builds that are named after a commit.
Old == Pub(312, <<OwnCell(Home)>>,
    Home :> Dir({Kernels1(None, Home, 2), Build("flash_rt_pi", None, Home, 2)}), "eager")
OldKernels == Pub(312, <<OwnCell(Home)>>, Home :> Dir({Kernels1(None, Home, 1)}), "lazy")
Commit == Pub(312, <<OwnCell(Home)>>,
    Home :> Dir({[l EXCEPT !.commit = "f00d123"] : l \in {Kernels1(<<>>, Home, 1), Pi(<<>>, Home)}}), "eager")

Foreign == Pub(312, <<OwnCell(Far)>>, Far :> Dir({}), "none")

MCPubs == {One, Old, OldKernels, Commit, Foreign, Two, Both, Matrix, Wrong, Common, Older, Candidate}
MCGpus == {None, [sm |-> "sm120", cu |-> "cu130", os |-> "linux", arch |-> "x86_64"],
                 [sm |-> "sm120", cu |-> "cu128", os |-> "linux", arch |-> "x86_64"]}
MCOverrides == {None, Home, Near, <<"spark">>}
=============================================================================
