----------------------------- MODULE BundleVenv -----------------------------
(***************************************************************************)
(* The Python environments of one bundle (go/internal/venv,                *)
(* go/internal/runtime) and the command that builds or reuses one          *)
(* (venv.Ensure).                                                          *)
(*                                                                         *)
(* A runtime directory holds venv/ and, beside it, .venv-fingerprint.  A   *)
(* package of the venv is absent or is what one fingerprint asks for; the  *)
(* protocol package flashcli-bundle is its cache schema.  There are two    *)
(* runtime directories: "repo", which the sync marker names, and "path",   *)
(* which is used when that marker cannot be read.                          *)
(***************************************************************************)
EXTENDS Naturals

CONSTANTS
  Wants,      \* the manifest fingerprints (abi, torch index, dependencies)
  NoWant,     \* none of them
  AbiOf,      \* [Wants -> Nat \ {0}]: the python_abi of a fingerprint
  Stack,      \* [Wants -> SUBSET {"torch", "deps"}]: what it installs
  MaxSchema   \* bound: cache schemas of the protocol package

Schemas == 1..MaxSchema

ASSUME VenvAssumption ==
  /\ NoWant \notin Wants
  /\ AbiOf \in [Wants -> Nat \ {0}]
  /\ Stack \in [Wants -> SUBSET {"torch", "deps"}]
  /\ MaxSchema \in Nat \ {0}

VARIABLES
  venv,     \* [Runtimes -> Venv]: what is installed
  fp,       \* [Runtimes -> fingerprint on file]
  build,    \* where Ensure is
  rt,       \* the runtime directory it works on
  want,     \* the fingerprint of the manifest it was given
  venvCut   \* history: [Runtimes -> a removal of the venv was begun since the
            \* fingerprint was last written]

venvDisk == <<venv, fp>>
venvRegs == <<build, rt, want>>
venvVars == <<venvDisk, venvRegs, venvCut>>

Runtimes == {"repo", "path"}
Pythons == {AbiOf[w] : w \in Wants}

\* python and protocol: 0 is absent.  cuda: the CUDA userland packages.
Venv == [python : Pythons \cup {0}, protocol : 0..MaxSchema,
         torch : Wants \cup {NoWant}, deps : Wants \cup {NoWant},
         cuda : BOOLEAN]
NoVenv == [python |-> 0, protocol |-> 0, torch |-> NoWant, deps |-> NoWant,
           cuda |-> FALSE]

BuildStages == {"off", "check", "remove", "create", "protocol", "torch", "deps",
                "fingerprint", "done"}

VenvTypeOK ==
  /\ venv \in [Runtimes -> Venv]
  /\ fp \in [Runtimes -> Wants \cup {NoWant}]
  /\ build \in BuildStages
  /\ rt \in Runtimes /\ want \in Wants \cup {NoWant}
  /\ (build # "off" => want \in Wants)
  /\ venvCut \in [Runtimes -> BOOLEAN]

VenvInit ==
  /\ venv = [r \in Runtimes |-> NoVenv]
  /\ fp = [r \in Runtimes |-> NoWant]
  /\ build = "off" /\ rt = "repo" /\ want = NoWant
  /\ venvCut = [r \in Runtimes |-> FALSE]

-----------------------------------------------------------------------------
(* venv.Ensure *)

\* The venv is reused: an interpreter, its version and the fingerprint match.
Reusable ==
  /\ venv[rt].python # 0
  /\ fp[rt] = want
  /\ venv[rt].python = AbiOf[want]

EnsureStart(r, w) ==
  /\ build = "off"
  /\ build' = "check" /\ rt' = r /\ want' = w
  /\ UNCHANGED <<venvDisk, venvCut>>

Check(force) ==
  /\ build = "check"
  /\ build' = IF ~force /\ Reusable THEN "done" ELSE "remove"
  /\ UNCHANGED <<venvDisk, rt, want, venvCut>>

\* (mutant: a venv is rebuilt in place)
KeepVenv ==
  /\ build = "remove"
  /\ build' = "create"
  /\ UNCHANGED <<venvDisk, rt, want, venvCut>>
\* RemoveAll(venv): the fingerprint is beside venv/ and is not removed.
RemoveVenv ==
  /\ build = "remove"
  /\ venv' = [venv EXCEPT ![rt] = NoVenv]
  /\ venvCut' = [venvCut EXCEPT ![rt] = TRUE]
  /\ build' = "create"
  /\ UNCHANGED <<fp, rt, want>>

\* CreateVenv from a base interpreter that was checked against the manifest.
CreateVenv ==
  /\ build = "create"
  /\ venv' = [venv EXCEPT ![rt].python = AbiOf[want]]
  /\ build' = "protocol"
  /\ UNCHANGED <<fp, rt, want, venvCut>>

\* installSpecs: flashcli-bundle, then torch, then the dependencies.  What the
\* source of flashcli-bundle offers is at least as new as the host is.
InstallProtocol(host) ==
  /\ build = "protocol"
  /\ \E s \in host..MaxSchema : venv' = [venv EXCEPT ![rt].protocol = s]
  /\ build' = "torch"
  /\ UNCHANGED <<fp, rt, want, venvCut>>

InstallTorch ==
  /\ build = "torch"
  /\ venv' = IF "torch" \in Stack[want] THEN [venv EXCEPT ![rt].torch = want] ELSE venv
  /\ build' = "deps"
  /\ UNCHANGED <<fp, rt, want, venvCut>>

InstallDeps ==
  /\ build = "deps"
  /\ venv' = IF "deps" \in Stack[want] THEN [venv EXCEPT ![rt].deps = want] ELSE venv
  /\ build' = "fingerprint"
  /\ UNCHANGED <<fp, rt, want, venvCut>>

WriteFingerprint ==
  /\ build = "fingerprint"
  /\ fp' = [fp EXCEPT ![rt] = want]
  /\ venvCut' = [venvCut EXCEPT ![rt] = FALSE]
  /\ build' = "done"
  /\ UNCHANGED <<venv, rt, want>>

BuildStep(force, host) ==
  \/ Check(force)
  \/ RemoveVenv
  \/ CreateVenv
  \/ InstallProtocol(host)
  \/ InstallTorch
  \/ InstallDeps
  \/ WriteFingerprint

EnsureReset == build' = "off" /\ rt' = "repo" /\ want' = NoWant

\* What a removal of venv v that was cut short may leave.
Remains(v) ==
  {u \in Venv :
     /\ u.python \in {v.python, 0}
     /\ u.protocol \in {v.protocol, 0}
     /\ u.torch \in {v.torch, NoWant}
     /\ u.deps \in {v.deps, NoWant}
     /\ u.cuda => v.cuda}

\* A step fails or the process is killed: a removal may have removed anything,
\* the fingerprint may be truncated, a package is installed or is not.
BuildAborts ==
  /\ build # "off"
  /\ IF build = "remove"
     THEN /\ \E u \in Remains(venv[rt]) : venv' = [venv EXCEPT ![rt] = u]
          /\ venvCut' = [venvCut EXCEPT ![rt] = TRUE]
     ELSE UNCHANGED <<venv, venvCut>>
  /\ fp' \in {fp} \cup (IF build = "fingerprint" THEN {[fp EXCEPT ![rt] = NoWant]} ELSE {})
  /\ EnsureReset

-----------------------------------------------------------------------------
(* What the fingerprint vouches for *)

\* Everything fingerprint w asks for is installed for w.  (The protocol package
\* has a check of its own, EnsureProtocolCacheSchema.)
Whole(r, w) ==
  /\ venv[r].python = AbiOf[w]
  /\ "torch" \in Stack[w] => venv[r].torch = w
  /\ "deps" \in Stack[w] => venv[r].deps = w

(* A venv that Ensure would reuse has everything its fingerprint asks for,   *)
(* whatever was interrupted, unless the removal that begins a rebuild (or a  *)
(* clean) was begun and no build has ended since (venv.go writes the         *)
(* fingerprint last and does not remove the old one first).                  *)
FingerprintVouchesForVenv ==
  \A r \in Runtimes, w \in Wants :
    /\ fp[r] = w /\ venv[r].python = AbiOf[w]
    /\ ~venvCut[r]
    => Whole(r, w)
=============================================================================
