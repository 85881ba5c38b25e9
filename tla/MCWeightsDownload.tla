------------------------- MODULE MCWeightsDownload -------------------------
(***************************************************************************)
(* Small instances of WeightsDownload.                                     *)
(***************************************************************************)
EXTENDS WeightsDownload, TLC

CONSTANTS p1, p2, demo, other, shard, config, success

OneProc == {p1}
TwoProcs == {p1, p2}

\* One bundle: weights of two blocks and a zero-byte hub marker, both selected.
OneBundle == {demo}
SoloFiles == {shard, success}
SoloSelected == demo :> {shard, success}
SoloRequired == demo :> {{shard}}
SoloSize == shard :> 2 @@ success :> 0
SoloLegacy == {{}, {shard}, {shard, success}}

\* One bundle that is ready before it is complete: its zero-byte hub marker comes
\* with the weights, and no readiness rule asks for it.
PairFiles == {shard, success}
PairSelected == demo :> {shard, success}
PairRequired == demo :> {{shard}}
PairSize == shard :> 2 @@ success :> 0
PairLegacy == {{}, {shard}}

\* Two bundles of one repository with different allow_patterns.
TwoBundles == {demo, other}
SharedFiles == {shard, config}
SharedSelected == demo :> {shard} @@ other :> {shard, config}
SharedRequired == demo :> {{shard}} @@ other :> {{shard}, {config}}
SharedSize == shard :> 2 @@ config :> 1
NoLegacy == {{}}
=============================================================================
