-------------------------- MODULE WeightsDownload --------------------------
(***************************************************************************)
(* One weights destination directory of the Go host                        *)
(* (go/internal/weights) and the flashcli commands that prepare it.        *)
(*                                                                         *)
(* The directory is shared by every process that runs a bundle whose       *)
(* manifest names the same source, repository and revision, because the    *)
(* store key is made of those three only (StoreKeyFor).  Nothing locks it. *)
(* A process is one command: an explicit `pull` (it re-lists the remote)   *)
(* or a `run`/`serve` (local first).  The HuggingFace and the ModelScope   *)
(* downloaders have the same steps and are one model.                      *)
(*                                                                         *)
(* A file is its length and, for each offset, the upstream version that    *)
(* the block there is of: 0 stands for a block no upstream version has at  *)
(* that offset (a hole, or a block of another offset).  A download is a    *)
(* handle on an inode, so that one process can rename or remove the file   *)
(* another one is writing.                                                 *)
(***************************************************************************)
EXTENDS Integers

CONSTANTS
  Procs,        \* the commands that may run at the same time
  Bundles,      \* the bundles whose weights are this destination
  Files,        \* the paths of the hub repository
  Selected,     \* [Bundles -> SUBSET Files]: what allow_patterns select
  Required,     \* [Bundles -> SUBSET SUBSET Files]: one file of each group
  FirstSize,    \* [Files -> Nat]: the file sizes of the first upstream version
  LegacySets,   \* the sets of files a pre-manifest cache may hold
  MaxSize,      \* bound: the longest upstream file, in blocks
  MaxVersion,   \* bound: upstream versions of a file
  MaxAttempts,  \* endpoints times retries of one command
  MaxFaults     \* bound: network errors and crashes together

Offsets == 1..MaxSize
Versions == 1..MaxVersion

\* A length beyond MaxSize is "longer than any upstream file": MaxSize + 1.
TooLong == MaxSize + 1

ASSUME BoundsAssumption ==
  /\ MaxSize \in Nat \ {0} /\ MaxVersion \in Nat \ {0}
  /\ MaxAttempts \in Nat \ {0} /\ MaxFaults \in Nat

ASSUME BundlesAssumption ==
  /\ Files # {} /\ Bundles # {}
  /\ Selected \in [Bundles -> SUBSET Files]
  /\ Required \in [Bundles -> SUBSET SUBSET Files]
  /\ FirstSize \in [Files -> 0..MaxSize]
  /\ LegacySets \subseteq SUBSET Files

VARIABLES
  remote,    \* [Files -> [version, size]]: the hub repository
  disk,      \* [Files -> Content]: the finished files of the destination
  part,      \* [Files -> Content]: their ".incomplete" files
  manifest,  \* .flashcli_download.json
  marker,    \* .flashcli_download.incomplete exists
  pc,        \* where each command is
  cmd,       \* its bundle and whether it is a pull
  plan,      \* the manifest it read, then the expected set it works on
  todo,      \* the files of the expected set it has not handled yet
  handle,    \* the transfer it has open
  attempt,   \* the attempts it has used up
  outcome,   \* how its last command ended
  faults,    \* network errors and crashes so far
  begun,     \* history: some download has begun on this destination
  prepared   \* history: the bundles some command has prepared

local  == <<pc, cmd, plan, todo, handle, attempt, outcome>>
shared == <<remote, disk, part, manifest, marker>>
vars   == <<local, shared, faults, begun, prepared>>

-----------------------------------------------------------------------------
(* File contents *)

Content == [len : -1..TooLong, at : [Offsets -> 0..MaxVersion]]
NoFile  == [len |-> -1, at |-> [i \in Offsets |-> 0]]
Empty   == [NoFile EXCEPT !.len = 0]
Exists(c) == c.len >= 0

\* The bytes of version v of a file of s blocks.
Bytes(v, s) == [len |-> s, at |-> [i \in Offsets |-> IF i <= s THEN v ELSE 0]]

\* Write one block at offset pos: it is the block of version v at offset own.
Put(c, pos, own, v) ==
  IF pos > MaxSize
  THEN [c EXCEPT !.len = TooLong]
  ELSE [len |-> IF pos > c.len THEN pos ELSE c.len,
        at  |-> [c.at EXCEPT ![pos] = IF pos = own THEN v ELSE 0]]

-----------------------------------------------------------------------------
(* The download manifest and the two checks *)

Expected == [Files -> -1..MaxSize]          \* -1: not in the expected set
Manifest == [state : {"none", "bad", "ok"}, want : Expected]
NoManifest  == [state |-> "none", want |-> [f \in Files |-> -1]]

\* readDownloadManifest: absent, unparsable, empty and foreign are no manifest.
Readable(m) == m.state = "ok"
Listed(want) == {f \in Files : want[f] >= 0}

\* manifestMissing: absent, or of another size unless the recorded size is 0.
Missing(want) ==
  {f \in Listed(want) :
     \/ ~Exists(disk[f])
     \/ want[f] > 0 /\ disk[f].len # want[f]}

\* (mutant: the marker overrules a complete manifest, as it does in IsCached)
CompleteUnmarked(m) == Readable(m) /\ Missing(m.want) = {} /\ ~marker
\* A manifest nothing is missing of: the host's half of "usable offline".
Complete(m) == Readable(m) /\ Missing(m.want) = {}

\* bundleWeightsReady: a file of every group the bundle requires, of any size.
BundleReady(b) == \A group \in Required[b] : \E f \in group : Exists(disk[f])

\* (mutant: the zero-byte files are left out of the expected set)
FilteredNonEmpty(sizes, b) ==
  [f \in Files |-> IF f \in Selected[b] /\ sizes[f] > 0 THEN sizes[f] ELSE -1]
\* filterFiles, on the remote listing or on the recorded expected set.
Filtered(sizes, b) == [f \in Files |-> IF f \in Selected[b] THEN sizes[f] ELSE -1]

\* What downloadRemote accepts of this directory without the network.
RunsOffline(b) ==
  /\ BundleReady(b)
  /\ \/ Complete(manifest)
     \/ manifest.state = "none" /\ ~marker

-----------------------------------------------------------------------------
(* Commands *)

Places == {"closed", "part", "dest", "gone"}
Handles == [file : Files, at : Places, append : BOOLEAN,
            next : 1..TooLong, version : Versions, size : 0..MaxSize]
Idle == [file |-> CHOOSE f \in Files : TRUE, at |-> "closed", append |-> FALSE,
         next |-> 1, version |-> 1, size |-> 0]

Outcomes == {"none", "cached", "legacy", "ok", "unmet", "error"}
Steps == {"idle", "check", "look", "weigh", "mark", "list", "record", "file", "request",
          "body", "settle"}

End(p, result) ==
  /\ pc' = [pc EXCEPT ![p] = "idle"]
  /\ outcome' = [outcome EXCEPT ![p] = result]
  /\ prepared' = IF result \in {"ok", "cached"}
                 THEN prepared \cup {cmd[p].bundle} ELSE prepared

MayRetry(p) == attempt[p] + 1 < MaxAttempts

\* An error of one attempt: retry on this or the next endpoint, or give up.
FailAttempt(p) ==
  IF MayRetry(p)
  THEN /\ attempt' = [attempt EXCEPT ![p] = @ + 1]
       /\ pc' = [pc EXCEPT ![p] = "list"]
       /\ UNCHANGED <<outcome, prepared>>
  ELSE /\ End(p, "error")
       /\ UNCHANGED attempt

\* An error of the network, the hub or the disk.
Fault == faults < MaxFaults /\ faults' = faults + 1

Close(p) == handle' = [handle EXCEPT ![p].at = "closed"]

\* Rename of f's partial file onto f, as every open handle sees it.
Follow(h, f) ==
  IF h.file # f THEN h
  ELSE [h EXCEPT !.at = CASE @ = "part" -> "dest"
                          [] @ = "dest" -> "gone"
                          [] OTHER -> @]

\* Removal of f's partial file, as every open handle sees it.
Unlink(h, f) ==
  IF h.file = f /\ h.at = "part" THEN [h EXCEPT !.at = "gone"] ELSE h

-----------------------------------------------------------------------------
Init ==
  /\ remote = [f \in Files |-> [version |-> 1, size |-> FirstSize[f]]]
  /\ \E old \in LegacySets :
       disk = [f \in Files |-> IF f \in old THEN Bytes(1, FirstSize[f]) ELSE NoFile]
  /\ part = [f \in Files |-> NoFile]
  /\ manifest \in {NoManifest, [NoManifest EXCEPT !.state = "bad"]}
  /\ marker = FALSE
  /\ pc = [p \in Procs |-> "idle"]
  /\ cmd \in [Procs -> [bundle : Bundles, pull : {FALSE}]]
  /\ plan = [p \in Procs |-> NoManifest]
  /\ todo = [p \in Procs |-> {}]
  /\ handle = [p \in Procs |-> Idle]
  /\ attempt = [p \in Procs |-> 0]
  /\ outcome = [p \in Procs |-> "none"]
  /\ faults = 0
  /\ begun = FALSE
  /\ prepared = {}

\* A command starts: downloadRemote reads the manifest.
Begin(p, b, pull) ==
  /\ pc[p] = "idle"
  /\ pc' = [pc EXCEPT ![p] = "check"]
  /\ cmd' = [cmd EXCEPT ![p] = [bundle |-> b, pull |-> pull]]
  /\ plan' = [plan EXCEPT ![p] = manifest]
  /\ attempt' = [attempt EXCEPT ![p] = 0]
  /\ outcome' = [outcome EXCEPT ![p] = "none"]
  /\ UNCHANGED <<shared, todo, handle, faults, begun, prepared>>

\* The manifest read above lists nothing that is missing (run/serve only).
LocallyComplete(p) ==
  ~cmd[p].pull /\ Complete(plan[p])

\* A cache of before the manifests existed, for all one sees by now (run/serve
\* only): none was read above, and there is still none.
MaybeLegacy(p) ==
  ~cmd[p].pull /\ plan[p].state = "none" /\ manifest.state = "none"

AcceptComplete(p) ==
  /\ pc[p] = "check" /\ LocallyComplete(p)
  /\ IF BundleReady(cmd[p].bundle)
     THEN marker' = FALSE /\ End(p, "cached")
     ELSE UNCHANGED marker /\ End(p, "unmet")
  /\ UNCHANGED <<remote, disk, part, manifest, cmd, plan, todo, handle, attempt,
                 faults, begun>>

NeedDownload(p) ==
  /\ pc[p] = "check" /\ ~LocallyComplete(p) /\ ~MaybeLegacy(p)
  /\ pc' = [pc EXCEPT ![p] = "mark"]
  /\ UNCHANGED <<shared, cmd, plan, todo, handle, attempt, outcome, faults,
                 begun, prepared>>

\* The legacy path looks at the manifest, the marker and the files one after the
\* other, and nothing keeps another command from working in between.
SeemsLegacy(p) ==
  /\ pc[p] = "check" /\ ~LocallyComplete(p) /\ MaybeLegacy(p)
  /\ pc' = [pc EXCEPT ![p] = "look"]
  /\ UNCHANGED <<shared, cmd, plan, todo, handle, attempt, outcome, faults,
                 begun, prepared>>

\* (mutant: the legacy path does not look at the marker)
Unlooked == TRUE
\* No download is in progress or was interrupted.
Unmarked == ~marker

LookForMarker(p) ==
  /\ pc[p] = "look"
  /\ pc' = [pc EXCEPT ![p] = IF Unmarked THEN "weigh" ELSE "mark"]
  /\ UNCHANGED <<shared, cmd, plan, todo, handle, attempt, outcome, faults,
                 begun, prepared>>

\* Several files are looked at; none ever goes away, so that what is found is
\* there in the end, and what is missing was missing in the beginning.
WeighFiles(p) ==
  /\ pc[p] = "weigh"
  /\ IF BundleReady(cmd[p].bundle)
     THEN End(p, "legacy")
     ELSE pc' = [pc EXCEPT ![p] = "mark"] /\ UNCHANGED <<outcome, prepared>>
  /\ UNCHANGED <<shared, cmd, plan, todo, handle, attempt, faults, begun>>

\* (mutant: no marker before the download)
KeepMarker == marker' = marker
\* The incomplete marker is written before anything is downloaded.
SetMarker == marker' = TRUE

Mark(p) ==
  /\ pc[p] = "mark"
  /\ SetMarker
  /\ begun' = TRUE
  /\ pc' = [pc EXCEPT ![p] = "list"]
  /\ UNCHANGED <<remote, disk, part, manifest, cmd, plan, todo, handle, attempt,
                 outcome, faults, prepared>>

\* One attempt: resume the recorded expected set, or list the remote (a pull
\* always lists), and keep what the bundle's patterns select.
List(p) ==
  /\ pc[p] = "list"
  /\ LET sizes  == IF ~cmd[p].pull /\ Readable(manifest)
                   THEN manifest.want
                   ELSE [f \in Files |-> remote[f].size]
         wanted == Filtered(sizes, cmd[p].bundle)
     IN  IF Listed(wanted) = {}
         THEN FailAttempt(p) /\ UNCHANGED plan
         ELSE /\ plan' = [plan EXCEPT ![p] = [state |-> "ok", want |-> wanted]]
              /\ pc' = [pc EXCEPT ![p] = "record"]
              /\ UNCHANGED <<attempt, outcome, prepared>>
  /\ UNCHANGED <<shared, cmd, todo, handle, faults, begun>>

ListFault(p) ==
  /\ pc[p] = "list" /\ (cmd[p].pull \/ ~Readable(manifest))
  /\ Fault /\ FailAttempt(p)
  /\ UNCHANGED <<shared, cmd, plan, todo, handle, begun>>

\* writeDownloadManifest, an atomic rename, before the first transfer.
Record(p) ==
  /\ pc[p] = "record"
  /\ manifest' = plan[p]
  /\ IF Missing(plan[p].want) = {}
     THEN pc' = [pc EXCEPT ![p] = "settle"] /\ UNCHANGED todo
     ELSE /\ pc' = [pc EXCEPT ![p] = "file"]
          /\ todo' = [todo EXCEPT ![p] = Listed(plan[p].want)]
  /\ UNCHANGED <<remote, disk, part, marker, cmd, plan, handle, attempt, outcome,
                 faults, begun, prepared>>

-----------------------------------------------------------------------------
(* downloadFileWithResume, once per file of the expected set *)

\* (mutant: a file of any size is taken as downloaded)
PresentAlready(p, f) == Exists(disk[f])
\* Nothing to do: the file has its recorded size.
HasItsSize(p, f) == disk[f].len = plan[p].want[f]

SkipFile(p) ==
  /\ pc[p] = "file"
  /\ \E f \in todo[p] :
       /\ HasItsSize(p, f)
       /\ todo' = [todo EXCEPT ![p] = @ \ {f}]
  /\ UNCHANGED <<shared, pc, cmd, plan, handle, attempt, outcome, faults, begun,
                 prepared>>

\* A zero-byte file needs no network; its partial file is removed.
WriteEmpty(p) ==
  /\ pc[p] = "file"
  /\ \E f \in todo[p] :
       /\ plan[p].want[f] = 0 /\ ~HasItsSize(p, f)
       /\ disk' = [disk EXCEPT ![f] = Empty]
       /\ part' = [part EXCEPT ![f] = NoFile]
       /\ handle' = [q \in Procs |-> Unlink(handle[q], f)]
       /\ todo' = [todo EXCEPT ![p] = @ \ {f}]
  /\ UNCHANGED <<remote, manifest, marker, pc, cmd, plan, attempt, outcome, faults,
                 begun, prepared>>

\* A partial file of the recorded size is taken as the finished file.
PromotePart(p) ==
  /\ pc[p] = "file"
  /\ \E f \in todo[p] :
       /\ plan[p].want[f] > 0 /\ ~HasItsSize(p, f)
       /\ part[f].len = plan[p].want[f]
       /\ disk' = [disk EXCEPT ![f] = part[f]]
       /\ part' = [part EXCEPT ![f] = NoFile]
       /\ handle' = [q \in Procs |-> Follow(handle[q], f)]
       /\ todo' = [todo EXCEPT ![p] = @ \ {f}]
  /\ UNCHANGED <<remote, manifest, marker, pc, cmd, plan, attempt, outcome, faults,
                 begun, prepared>>

\* A GET from the end of the partial file; a longer one is removed first.
Request(p) ==
  /\ pc[p] = "file"
  /\ \E f \in todo[p] :
       /\ plan[p].want[f] > 0 /\ ~HasItsSize(p, f)
       /\ part[f].len # plan[p].want[f]
       /\ LET stale == part[f].len > plan[p].want[f]
              start == IF stale \/ ~Exists(part[f]) THEN 0 ELSE part[f].len
          IN  /\ part' = IF stale THEN [part EXCEPT ![f] = NoFile] ELSE part
              /\ handle' = [q \in Procs |->
                    IF q = p
                    THEN [Idle EXCEPT !.file = f, !.next = start + 1]
                    ELSE IF stale THEN Unlink(handle[q], f) ELSE handle[q]]
  /\ pc' = [pc EXCEPT ![p] = "request"]
  /\ UNCHANGED <<remote, disk, manifest, marker, cmd, plan, todo, attempt, outcome,
                 faults, begun, prepared>>

\* 200: the whole file, into the truncated partial file.
RespondWhole(p) ==
  /\ pc[p] = "request"
  /\ LET f == handle[p].file IN
       /\ part' = [part EXCEPT ![f] = Empty]
       /\ handle' = [handle EXCEPT ![p] =
            [file |-> f, at |-> "part", append |-> FALSE, next |-> 1,
             version |-> remote[f].version, size |-> remote[f].size]]
  /\ pc' = [pc EXCEPT ![p] = "body"]
  /\ UNCHANGED <<remote, disk, manifest, marker, cmd, plan, todo, attempt, outcome,
                 faults, begun, prepared>>

\* 206: the rest of the file, appended to whatever the partial file is now.
RespondPartial(p) ==
  /\ pc[p] = "request"
  /\ LET f == handle[p].file IN
       /\ handle[p].next > 1 /\ handle[p].next <= remote[f].size
       /\ part' = IF Exists(part[f]) THEN part ELSE [part EXCEPT ![f] = Empty]
       /\ handle' = [handle EXCEPT ![p] =
            [@ EXCEPT !.at = "part", !.append = TRUE,
                      !.version = remote[f].version, !.size = remote[f].size]]
  /\ pc' = [pc EXCEPT ![p] = "body"]
  /\ UNCHANGED <<remote, disk, manifest, marker, cmd, plan, todo, attempt, outcome,
                 faults, begun, prepared>>

\* 416: the remote file is no longer than the partial one, which is removed.
RespondUnsatisfiable(p) ==
  /\ pc[p] = "request"
  /\ LET f == handle[p].file IN
       /\ handle[p].next > 1 /\ handle[p].next > remote[f].size
       /\ part' = [part EXCEPT ![f] = NoFile]
       /\ handle' = [q \in Procs |-> Unlink(handle[q], f)]
  /\ FailAttempt(p)
  /\ UNCHANGED <<remote, disk, manifest, marker, cmd, plan, todo, faults, begun>>

\* The connection fails, or the hub answers another status.
RequestFault(p) ==
  /\ pc[p] = "request"
  /\ Fault /\ FailAttempt(p)
  /\ UNCHANGED <<shared, cmd, plan, todo, handle, begun>>

\* (mutant: the blocks of a body are written from the last to the first)
WriteBackwards(c, h) ==
  Put(c, IF h.append THEN c.len + 1 ELSE h.size + 1 - h.next,
      IF h.append THEN h.next ELSE h.size + 1 - h.next, h.version)
\* The content an open handle writes into, after its next block.
WriteTo(c, h) ==
  Put(c, IF h.append THEN c.len + 1 ELSE h.next, h.next, h.version)

WriteBlock(p) ==
  /\ pc[p] = "body" /\ handle[p].next <= handle[p].size
  /\ LET h == handle[p] IN
       /\ part' = IF h.at = "part" THEN [part EXCEPT ![h.file] = WriteTo(@, h)] ELSE part
       /\ disk' = IF h.at = "dest" THEN [disk EXCEPT ![h.file] = WriteTo(@, h)] ELSE disk
       /\ handle' = [handle EXCEPT ![p].next = @ + 1]
  /\ UNCHANGED <<remote, manifest, marker, pc, cmd, plan, todo, attempt, outcome,
                 faults, begun, prepared>>

\* The body breaks off: the partial file stays for the next attempt.
BodyFault(p) ==
  /\ pc[p] = "body"
  /\ Close(p) /\ Fault /\ FailAttempt(p)
  /\ UNCHANGED <<shared, cmd, plan, todo, begun>>

\* End of the body: whatever file has the partial name now is renamed.
EndOfBody(p) ==
  /\ pc[p] = "body" /\ handle[p].next > handle[p].size
  /\ LET f == handle[p].file IN
       IF Exists(part[f])
       THEN /\ disk' = [disk EXCEPT ![f] = part[f]]
            /\ part' = [part EXCEPT ![f] = NoFile]
            /\ handle' = [q \in Procs |->
                 IF q = p THEN [handle[q] EXCEPT !.at = "closed"]
                          ELSE Follow(handle[q], f)]
            /\ todo' = [todo EXCEPT ![p] = @ \ {f}]
            /\ pc' = [pc EXCEPT ![p] = "file"]
            /\ UNCHANGED <<attempt, outcome, prepared>>
       ELSE /\ Close(p) /\ FailAttempt(p)
            /\ UNCHANGED <<disk, part, todo>>
  /\ UNCHANGED <<remote, manifest, marker, cmd, plan, faults, begun>>

-----------------------------------------------------------------------------
(* The end of an attempt and of a command *)

\* (mutant: the attempt trusts its transfers)
Unverified(p) == TRUE
Verified(p) == Missing(plan[p].want) = {}

\* Every file handled: the expected set is compared with the disk again.
AllHandled(p) ==
  /\ pc[p] = "file" /\ todo[p] = {}
  /\ IF Verified(p)
     THEN pc' = [pc EXCEPT ![p] = "settle"] /\ UNCHANGED <<attempt, outcome, prepared>>
     ELSE FailAttempt(p)
  /\ UNCHANGED <<shared, cmd, plan, todo, handle, faults, begun>>

\* The download returned without error: readiness decides, and the marker is
\* removed unless the bundle is not ready and the directory is incomplete.
Settle(p) ==
  /\ pc[p] = "settle"
  /\ IF BundleReady(cmd[p].bundle)
     THEN marker' = FALSE /\ End(p, "ok")
     ELSE /\ marker' = (marker /\ ~Complete(manifest))
          /\ End(p, "unmet")
  /\ UNCHANGED <<remote, disk, part, manifest, cmd, plan, todo, handle, attempt,
                 faults, begun>>

\* A command is killed: its handle closes, what it wrote stays.
Crash(p) ==
  /\ pc[p] # "idle"
  /\ Fault
  /\ pc' = [pc EXCEPT ![p] = "idle"]
  /\ Close(p)
  /\ UNCHANGED <<shared, cmd, plan, todo, attempt, outcome, begun, prepared>>

\* The hub repository gets another version of a file, of any size.
Publish ==
  /\ \E f \in Files, s \in 0..MaxSize :
       /\ remote[f].version < MaxVersion
       /\ remote' = [remote EXCEPT ![f] = [version |-> @.version + 1, size |-> s]]
  /\ UNCHANGED <<local, disk, part, manifest, marker, faults, begun, prepared>>

Start(p) == \E b \in Bundles, pull \in BOOLEAN : Begin(p, b, pull)

\* The steps of a started command that need no fault.
Work(p) ==
  \/ AcceptComplete(p) \/ NeedDownload(p) \/ SeemsLegacy(p) \/ LookForMarker(p)
  \/ WeighFiles(p) \/ Mark(p)
  \/ List(p) \/ Record(p) \/ SkipFile(p) \/ WriteEmpty(p) \/ PromotePart(p)
  \/ Request(p) \/ RespondWhole(p) \/ RespondPartial(p) \/ RespondUnsatisfiable(p)
  \/ WriteBlock(p) \/ EndOfBody(p) \/ AllHandled(p) \/ Settle(p)

Fail(p) == ListFault(p) \/ RequestFault(p) \/ BodyFault(p) \/ Crash(p)

Next ==
  \/ \E p \in Procs : Start(p) \/ Work(p) \/ Fail(p)
  \/ Publish

Spec == Init /\ [][Next]_vars

\* A started command that is not killed goes on, and the operator pulls each
\* bundle again and again, whatever other commands are run in between.
FairSpec ==
  /\ Spec
  /\ \A p \in Procs :
       WF_vars(Work(p)) /\ \A b \in Bundles : SF_vars(Begin(p, b, TRUE))

-----------------------------------------------------------------------------
(* Properties *)

TypeOK ==
  /\ remote \in [Files -> [version : Versions, size : 0..MaxSize]]
  /\ disk \in [Files -> Content]
  /\ part \in [Files -> Content]
  /\ manifest \in Manifest
  /\ marker \in BOOLEAN
  /\ pc \in [Procs -> Steps]
  /\ cmd \in [Procs -> [bundle : Bundles, pull : BOOLEAN]]
  /\ plan \in [Procs -> Manifest]
  /\ todo \in [Procs -> SUBSET Files]
  /\ handle \in [Procs -> Handles]
  /\ attempt \in [Procs -> 0..(MaxAttempts - 1)]
  /\ outcome \in [Procs -> Outcomes]
  /\ faults \in 0..MaxFaults
  /\ begun \in BOOLEAN
  /\ prepared \subseteq Bundles

Quiet == \A p \in Procs : pc[p] = "idle"

\* "An interrupted attempt ... never looks like a legacy cache" (hfDownloadOnce):
\* once any download has begun, a command that starts finds the marker or a
\* manifest, whatever crashed in between and however many commands ran.
InterruptedNeverLooksLegacy == begun => marker \/ manifest.state # "none"

\* The marker says "in progress or interrupted" (downloadRemote): with one
\* command at a time it goes away only when the recorded set is complete.
MarkerUntilComplete ==
  begun /\ ~marker => Complete(manifest)

\* "A partial download is never complete" (manifestMissing): sizes alone decide
\* completeness, so every file of a complete set must be, block by block, one
\* upstream version of that file.
CompleteIsFaithful ==
  Complete(manifest) =>
    \A f \in Listed(manifest.want) :
      manifest.want[f] > 0 => \E v \in Versions : disk[f] = Bytes(v, manifest.want[f])

\* "A completed pull always runs offline" (Download): however later commands
\* ended or crashed, a run of the prepared bundle still needs no network.
CompletedPullRunsOffline == Quiet => \A b \in prepared : RunsOffline(b)

\* A bundle that was prepared has every file its allow_patterns select, not
\* only one file of each group its readiness rules ask for.
PreparedIsWhole ==
  \A b \in prepared : \A f \in Selected[b] : Exists(disk[f])

\* "An interrupted download leaves incompleteMarker, so it is never mistaken for a
\* legacy ready cache" (downloadRemote), as far as it holds of two commands: one that
\* read no manifest and then finds no marker, although a download has begun, finds
\* what that download completed; and where a download begins after this look, so
\* that its first files are taken for the old cache, the marker stands and sends
\* the next command on to complete it.
LegacyPathIsGuarded ==
  [][\A p \in Procs : begun =>
       /\ pc[p] = "look" /\ pc'[p] = "weigh" => Complete(manifest)
       /\ pc[p] = "weigh" /\ outcome'[p] = "legacy" => marker \/ Complete(manifest)]_vars

\* No partial file, manifest or marker that faults, crashes, republished files
\* and other bundles' pulls leave behind can stop a bundle's pulls from preparing
\* the destination for it, again and again.
PullsConverge == \A b \in Bundles : []<>RunsOffline(b)
=============================================================================
