---------------------------- MODULE MCServeGate ----------------------------
(* Small instances of ServeGate: see README.md, "Serve". *)
EXTENDS ServeGate

CONSTANTS r1, r2, r3

\* A stream, and two plain requests that want the same slot.
ThreeRequests == {r1, r2, r3}
OneStream == {r1}
=============================================================================
