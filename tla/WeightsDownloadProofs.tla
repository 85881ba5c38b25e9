----------------------- MODULE WeightsDownloadProofs -----------------------
(***************************************************************************)
(* Proofs about WeightsDownload, for any set of processes, any bundles     *)
(* over any files, and any bounds.                                         *)
(***************************************************************************)
EXTENDS WeightsDownload, TLAPS

-----------------------------------------------------------------------------
(* Contents and handles keep their types. *)

\* The contents the handlers write are contents.
LEMMA ContentTypes ==
  /\ NoFile \in Content
  /\ Empty \in Content
  /\ \A v \in Versions, s \in 0..MaxSize : Bytes(v, s) \in Content
BY BoundsAssumption DEF NoFile, Empty, Bytes, Content, TooLong, Offsets, Versions

\* One block written at any offset keeps a content a content.
LEMMA PutType ==
  ASSUME NEW c \in Content, NEW pos \in 0..(TooLong + 1), NEW own \in Int,
         NEW v \in Versions
  PROVE  Put(c, pos, own, v) \in Content
<1>1. CASE pos > MaxSize
  BY <1>1, BoundsAssumption DEF Put, Content, TooLong
<1>2. CASE ~(pos > MaxSize)
  <2> DEFINE len == IF pos > c.len THEN pos ELSE c.len
             at == [c.at EXCEPT ![pos] = IF pos = own THEN v ELSE 0]
  <2>1. len \in -1..TooLong
    BY <1>2, BoundsAssumption DEF Content, TooLong
  <2>2. at \in [Offsets -> 0..MaxVersion]
    <3> DEFINE block == IF pos = own THEN v ELSE 0
    <3>1. c.at \in [Offsets -> 0..MaxVersion]
      BY DEF Content
    <3>2. block \in 0..MaxVersion
      BY BoundsAssumption DEF Versions
    <3>3. at = [c.at EXCEPT ![pos] = block]
      OBVIOUS
    <3> HIDE DEF block
    <3> QED BY <3>1, <3>2, <3>3
  <2>3. Put(c, pos, own, v) = [len |-> len, at |-> at]
    BY <1>2 DEF Put
  <2> QED BY <2>1, <2>2, <2>3 DEF Content
<1> QED BY <1>1, <1>2

\* What a handle writes into a content is a content.
LEMMA WriteToType ==
  ASSUME NEW c \in Content, NEW h \in Handles
  PROVE  WriteTo(c, h) \in Content
<1> DEFINE pos == IF h.append THEN c.len + 1 ELSE h.next
<1>1. pos \in 0..(TooLong + 1) /\ h.next \in Int /\ h.version \in Versions
  BY BoundsAssumption DEF Content, Handles, TooLong
<1>2. Put(c, pos, h.next, h.version) \in Content
  BY <1>1, PutType
<1> QED BY <1>2 DEF WriteTo

\* Renaming or removing a partial file leaves every handle a handle.
LEMMA HandleTypes ==
  ASSUME NEW h \in Handles, NEW f \in Files
  PROVE  /\ Follow(h, f) \in Handles
         /\ Unlink(h, f) \in Handles
         /\ [h EXCEPT !.at = "closed"] \in Handles
BY DEF Follow, Unlink, Handles, Places

\* The closed handle of a command that transfers nothing.
LEMMA IdleType == Idle \in Handles
<1>1. (CHOOSE f \in Files : TRUE) \in Files
  BY BundlesAssumption
<1> QED BY <1>1, BoundsAssumption DEF Idle, Handles, Places, TooLong, Versions

LEMMA ManifestTypes ==
  /\ NoManifest \in Manifest
  /\ [NoManifest EXCEPT !.state = "bad"] \in Manifest
BY BoundsAssumption DEF NoManifest, Manifest, Expected

-----------------------------------------------------------------------------
(* TypeOK is an invariant. *)

\* However a command ends, its step, outcome and the prepared bundles are typed.
LEMMA EndType ==
  ASSUME TypeOK, NEW p \in Procs, NEW result \in Outcomes, End(p, result)
  PROVE  /\ pc' \in [Procs -> Steps]
         /\ outcome' \in [Procs -> Outcomes]
         /\ prepared' \subseteq Bundles
<1>1. cmd[p].bundle \in Bundles
  BY DEF TypeOK
<1> QED BY <1>1 DEF TypeOK, End, Steps

\* A failed attempt is retried within the bound on attempts, or ends the command.
LEMMA FailAttemptType ==
  ASSUME TypeOK, NEW p \in Procs, FailAttempt(p)
  PROVE  /\ pc' \in [Procs -> Steps]
         /\ attempt' \in [Procs -> 0..(MaxAttempts - 1)]
         /\ outcome' \in [Procs -> Outcomes]
         /\ prepared' \subseteq Bundles
<1>1. CASE attempt[p] + 1 < MaxAttempts
  <2>1. attempt[p] + 1 \in 0..(MaxAttempts - 1)
    BY <1>1, BoundsAssumption DEF TypeOK
  <2> QED BY <1>1, <2>1 DEF TypeOK, FailAttempt, MayRetry, Steps
<1>2. CASE ~(attempt[p] + 1 < MaxAttempts)
  <2>1. "error" \in Outcomes
    BY DEF Outcomes
  <2>2. End(p, "error") /\ UNCHANGED attempt
    BY <1>2 DEF FailAttempt, MayRetry
  <2> QED BY <2>1, <2>2, EndType DEF TypeOK
<1> QED BY <1>1, <1>2

LEMMA FaultType == ASSUME TypeOK, Fault PROVE faults' \in 0..MaxFaults
BY BoundsAssumption DEF TypeOK, Fault

LEMMA CloseType ==
  ASSUME TypeOK, NEW p \in Procs, Close(p) PROVE handle' \in [Procs -> Handles]
BY DEF TypeOK, Close, Handles, Places

\* The initial states are typed.
LEMMA InitType == Init => TypeOK
<1> SUFFICES ASSUME Init PROVE TypeOK
  OBVIOUS
<1>1. remote \in [Files -> [version : Versions, size : 0..MaxSize]]
  BY BoundsAssumption, BundlesAssumption DEF Init, Versions
<1>2. disk \in [Files -> Content]
  <2>1. PICK old \in LegacySets :
          disk = [f \in Files |-> IF f \in old THEN Bytes(1, FirstSize[f]) ELSE NoFile]
    BY DEF Init
  <2>2. \A f \in Files : Bytes(1, FirstSize[f]) \in Content /\ NoFile \in Content
    BY BoundsAssumption, BundlesAssumption, ContentTypes DEF Versions
  <2> QED BY <2>1, <2>2
<1>3. part \in [Files -> Content]
  BY ContentTypes DEF Init
<1>4. manifest \in Manifest /\ plan \in [Procs -> Manifest]
  BY ManifestTypes DEF Init
<1>5. handle \in [Procs -> Handles]
  BY IdleType DEF Init
<1>6. cmd \in [Procs -> [bundle : Bundles, pull : BOOLEAN]]
  BY DEF Init
<1>7. attempt \in [Procs -> 0..(MaxAttempts - 1)] /\ faults \in 0..MaxFaults
  BY BoundsAssumption DEF Init
<1> QED BY <1>1, <1>2, <1>3, <1>4, <1>5, <1>6, <1>7 DEF Init, TypeOK, Steps, Outcomes

\* Every step of every command, and every change of the hub, keeps the types.
LEMMA NextType == TypeOK /\ [Next]_vars => TypeOK'
<1> SUFFICES ASSUME TypeOK, [Next]_vars PROVE TypeOK'
  OBVIOUS
<1> USE DEF local, shared
<1>1. ASSUME NEW p \in Procs, Start(p) PROVE TypeOK'
  BY <1>1, BoundsAssumption DEF Start, Begin, TypeOK, Steps, Outcomes
<1>2. ASSUME NEW p \in Procs, AcceptComplete(p) PROVE TypeOK'
  <2>1. marker' \in BOOLEAN /\ (End(p, "cached") \/ End(p, "unmet"))
    BY <1>2 DEF AcceptComplete, TypeOK
  <2>2. {"cached", "unmet"} \subseteq Outcomes
    BY DEF Outcomes
  <2>3. /\ pc' \in [Procs -> Steps] /\ outcome' \in [Procs -> Outcomes]
        /\ prepared' \subseteq Bundles
    BY <2>1, <2>2, EndType
  <2> QED BY <1>2, <2>1, <2>3 DEF AcceptComplete, TypeOK
<1>3. ASSUME NEW p \in Procs, SeemsLegacy(p) \/ LookForMarker(p) \/ WeighFiles(p)
      PROVE  TypeOK'
  <2>1. CASE SeemsLegacy(p)
    BY <2>1 DEF SeemsLegacy, TypeOK, Steps
  <2>2. CASE LookForMarker(p)
    BY <2>2 DEF LookForMarker, TypeOK, Steps
  <2>3. CASE WeighFiles(p)
    <3>1. "legacy" \in Outcomes /\ "mark" \in Steps
      BY DEF Outcomes, Steps
    <3>2. CASE End(p, "legacy")
      <4>1. /\ pc' \in [Procs -> Steps] /\ outcome' \in [Procs -> Outcomes]
            /\ prepared' \subseteq Bundles
        BY <3>1, <3>2, EndType
      <4> QED BY <2>3, <4>1 DEF WeighFiles, TypeOK
    <3>3. CASE pc' = [pc EXCEPT ![p] = "mark"] /\ UNCHANGED <<outcome, prepared>>
      BY <2>3, <3>1, <3>3 DEF WeighFiles, TypeOK
    <3> QED BY <2>3, <3>2, <3>3 DEF WeighFiles
  <2> QED BY <1>3, <2>1, <2>2, <2>3
<1>4. ASSUME NEW p \in Procs, NeedDownload(p) PROVE TypeOK'
  BY <1>4 DEF NeedDownload, TypeOK, Steps
<1>5. ASSUME NEW p \in Procs, Mark(p) PROVE TypeOK'
  BY <1>5 DEF Mark, SetMarker, TypeOK, Steps
<1>6. ASSUME NEW p \in Procs, List(p) PROVE TypeOK'
  <2> DEFINE sizes == IF ~cmd[p].pull /\ Readable(manifest)
                      THEN manifest.want
                      ELSE [f \in Files |-> remote[f].size]
             wanted == Filtered(sizes, cmd[p].bundle)
             recorded == [state |-> "ok", want |-> wanted]
  <2>1. sizes \in Expected
    <3>1. manifest.want \in Expected
      BY DEF TypeOK, Manifest
    <3>2. [f \in Files |-> remote[f].size] \in Expected
      BY BoundsAssumption DEF TypeOK, Expected
    <3> QED BY <3>1, <3>2
  <2>2. recorded \in Manifest
    <3>1. wanted \in Expected
      BY <2>1, BoundsAssumption DEF Filtered, Expected
    <3> QED BY <3>1 DEF Manifest
  <2>3. CASE Listed(wanted) = {}
    <3>1. FailAttempt(p) /\ UNCHANGED <<shared, cmd, plan, todo, handle, faults, begun>>
      BY <1>6, <2>3 DEF List
    <3> QED BY <3>1, FailAttemptType DEF TypeOK
  <2>4. CASE ~(Listed(wanted) = {})
    <3>1. /\ plan' = [plan EXCEPT ![p] = recorded]
          /\ pc' = [pc EXCEPT ![p] = "record"]
          /\ UNCHANGED <<attempt, outcome, prepared, shared, cmd, todo, handle,
                         faults, begun>>
      BY <1>6, <2>4 DEF List
    <3>2. plan' \in [Procs -> Manifest]
      BY <2>2, <3>1 DEF TypeOK
    <3> QED BY <3>1, <3>2 DEF TypeOK, Steps
  <2> QED BY <2>3, <2>4
<1>7. ASSUME NEW p \in Procs, ListFault(p) PROVE TypeOK'
  BY <1>7, FailAttemptType, FaultType DEF ListFault, TypeOK
<1>8. ASSUME NEW p \in Procs, Record(p) PROVE TypeOK'
  <2>1. todo' \in [Procs -> SUBSET Files] /\ pc' \in [Procs -> Steps]
    <3>1. Listed(plan[p].want) \in SUBSET Files
      BY DEF Listed
    <3>2. todo' = todo \/ todo' = [todo EXCEPT ![p] = Listed(plan[p].want)]
      BY <1>8 DEF Record
    <3>3. pc' = [pc EXCEPT ![p] = "settle"] \/ pc' = [pc EXCEPT ![p] = "file"]
      BY <1>8 DEF Record
    <3> QED BY <3>1, <3>2, <3>3 DEF TypeOK, Steps
  <2> QED BY <1>8, <2>1 DEF Record, TypeOK
<1>9. ASSUME NEW p \in Procs, SkipFile(p) PROVE TypeOK'
  BY <1>9 DEF SkipFile, TypeOK
<1>10. ASSUME NEW p \in Procs, WriteEmpty(p) PROVE TypeOK'
  <2>1. PICK f \in todo[p] :
          /\ disk' = [disk EXCEPT ![f] = Empty]
          /\ part' = [part EXCEPT ![f] = NoFile]
          /\ handle' = [q \in Procs |-> Unlink(handle[q], f)]
          /\ todo' = [todo EXCEPT ![p] = @ \ {f}]
    BY <1>10 DEF WriteEmpty
  <2>2. f \in Files
    BY DEF TypeOK
  <2>3. disk' \in [Files -> Content] /\ part' \in [Files -> Content]
    BY <2>1, ContentTypes DEF TypeOK
  <2>4. handle' \in [Procs -> Handles]
    BY <2>1, <2>2, HandleTypes DEF TypeOK
  <2>5. todo' \in [Procs -> SUBSET Files]
    BY <2>1 DEF TypeOK
  <2> QED BY <1>10, <2>3, <2>4, <2>5 DEF WriteEmpty, TypeOK
<1>11. ASSUME NEW p \in Procs, PromotePart(p) PROVE TypeOK'
  <2>1. PICK f \in todo[p] :
          /\ disk' = [disk EXCEPT ![f] = part[f]]
          /\ part' = [part EXCEPT ![f] = NoFile]
          /\ handle' = [q \in Procs |-> Follow(handle[q], f)]
          /\ todo' = [todo EXCEPT ![p] = @ \ {f}]
    BY <1>11 DEF PromotePart
  <2>2. f \in Files
    BY DEF TypeOK
  <2>3. disk' \in [Files -> Content] /\ part' \in [Files -> Content]
    BY <2>1, <2>2, ContentTypes DEF TypeOK
  <2>4. handle' \in [Procs -> Handles]
    BY <2>1, <2>2, HandleTypes DEF TypeOK
  <2>5. todo' \in [Procs -> SUBSET Files]
    BY <2>1 DEF TypeOK
  <2> QED BY <1>11, <2>3, <2>4, <2>5 DEF PromotePart, TypeOK
<1>12. ASSUME NEW p \in Procs, Request(p) PROVE TypeOK'
  <2>1. PICK f \in todo[p] :
          /\ plan[p].want[f] > 0 /\ disk[f].len # plan[p].want[f]
          /\ part[f].len # plan[p].want[f]
          /\ LET stale == part[f].len > plan[p].want[f]
                 start == IF stale \/ ~Exists(part[f]) THEN 0 ELSE part[f].len
             IN  /\ part' = IF stale THEN [part EXCEPT ![f] = NoFile] ELSE part
                 /\ handle' = [q \in Procs |->
                       IF q = p
                       THEN [Idle EXCEPT !.file = f, !.next = start + 1]
                       ELSE IF stale THEN Unlink(handle[q], f) ELSE handle[q]]
    BY <1>12 DEF Request, HasItsSize
  <2> DEFINE stale == part[f].len > plan[p].want[f]
             start == IF stale \/ ~Exists(part[f]) THEN 0 ELSE part[f].len
  <2>2. f \in Files
    BY DEF TypeOK
  <2>3. start + 1 \in 1..TooLong
    <3>1. plan[p].want[f] \in -1..MaxSize /\ part[f].len \in -1..TooLong
      BY <2>2 DEF TypeOK, Manifest, Expected, Content
    <3> QED BY <2>1, <3>1, BoundsAssumption DEF Exists, TooLong
  <2>4. [Idle EXCEPT !.file = f, !.next = start + 1] \in Handles
    BY <2>2, <2>3, IdleType DEF Handles
  <2>5. part' \in [Files -> Content]
    BY <2>1, ContentTypes DEF TypeOK
  <2>6. handle' \in [Procs -> Handles]
    BY <2>1, <2>2, <2>4, HandleTypes DEF TypeOK
  <2> QED BY <1>12, <2>5, <2>6 DEF Request, TypeOK, Steps
<1>13. ASSUME NEW p \in Procs, RespondWhole(p) PROVE TypeOK'
  <2> DEFINE f == handle[p].file
  <2>1. f \in Files /\ remote[f].version \in Versions /\ remote[f].size \in 0..MaxSize
    BY DEF TypeOK, Handles
  <2>2. handle' \in [Procs -> Handles]
    BY <1>13, <2>1, BoundsAssumption DEF RespondWhole, TypeOK, Handles, Places, TooLong
  <2>3. part' \in [Files -> Content]
    BY <1>13, ContentTypes DEF RespondWhole, TypeOK
  <2> QED BY <1>13, <2>2, <2>3 DEF RespondWhole, TypeOK, Steps
<1>14. ASSUME NEW p \in Procs, RespondPartial(p) PROVE TypeOK'
  <2> DEFINE f == handle[p].file
  <2>1. f \in Files /\ remote[f].version \in Versions /\ remote[f].size \in 0..MaxSize
    BY DEF TypeOK, Handles
  <2>2. handle' \in [Procs -> Handles]
    BY <1>14, <2>1 DEF RespondPartial, TypeOK, Handles, Places
  <2>3. part' \in [Files -> Content]
    BY <1>14, ContentTypes DEF RespondPartial, TypeOK
  <2> QED BY <1>14, <2>2, <2>3 DEF RespondPartial, TypeOK, Steps
<1>15. ASSUME NEW p \in Procs, RespondUnsatisfiable(p) PROVE TypeOK'
  <2>1. handle[p].file \in Files
    BY DEF TypeOK, Handles
  <2>2. handle' \in [Procs -> Handles]
    BY <1>15, <2>1, HandleTypes DEF RespondUnsatisfiable, TypeOK
  <2>3. part' \in [Files -> Content]
    BY <1>15, ContentTypes DEF RespondUnsatisfiable, TypeOK
  <2> QED BY <1>15, <2>2, <2>3, FailAttemptType DEF RespondUnsatisfiable, TypeOK
<1>16. ASSUME NEW p \in Procs, RequestFault(p) PROVE TypeOK'
  BY <1>16, FailAttemptType, FaultType DEF RequestFault, TypeOK
<1>17. ASSUME NEW p \in Procs, WriteBlock(p) PROVE TypeOK'
  <2> DEFINE h == handle[p]
  <2>1. h \in Handles /\ h.file \in Files
    BY DEF TypeOK, Handles
  <2>2. /\ part' \in [Files -> Content]
        /\ disk' \in [Files -> Content]
    <3>1. /\ part[h.file] \in Content /\ disk[h.file] \in Content
      BY <2>1 DEF TypeOK
    <3>2. /\ WriteTo(part[h.file], h) \in Content
          /\ WriteTo(disk[h.file], h) \in Content
      BY <2>1, <3>1, WriteToType
    <3>3. /\ part' = part \/ part' = [part EXCEPT ![h.file] = WriteTo(part[h.file], h)]
          /\ disk' = disk \/ disk' = [disk EXCEPT ![h.file] = WriteTo(disk[h.file], h)]
      BY <1>17 DEF WriteBlock
    <3> QED BY <3>2, <3>3 DEF TypeOK
  <2>3. handle' \in [Procs -> Handles]
    <3>1. h.next + 1 \in 1..TooLong
      BY <1>17, <2>1, BoundsAssumption DEF WriteBlock, Handles, TooLong
    <3>2. [h EXCEPT !.next = h.next + 1] \in Handles
      BY <2>1, <3>1 DEF Handles
    <3>3. handle' = [handle EXCEPT ![p] = [h EXCEPT !.next = h.next + 1]]
      BY <1>17 DEF WriteBlock
    <3> QED BY <3>2, <3>3 DEF TypeOK
  <2> QED BY <1>17, <2>2, <2>3 DEF WriteBlock, TypeOK
<1>18. ASSUME NEW p \in Procs, BodyFault(p) PROVE TypeOK'
  BY <1>18, CloseType, FailAttemptType, FaultType DEF BodyFault, TypeOK
<1>19. ASSUME NEW p \in Procs, EndOfBody(p) PROVE TypeOK'
  <2> DEFINE f == handle[p].file
  <2>1. f \in Files
    BY DEF TypeOK, Handles
  <2>2. CASE Exists(part[f])
    <3>1. /\ disk' = [disk EXCEPT ![f] = part[f]]
          /\ part' = [part EXCEPT ![f] = NoFile]
          /\ handle' = [q \in Procs |->
               IF q = p THEN [handle[q] EXCEPT !.at = "closed"]
                        ELSE Follow(handle[q], f)]
          /\ todo' = [todo EXCEPT ![p] = @ \ {f}]
          /\ pc' = [pc EXCEPT ![p] = "file"]
          /\ UNCHANGED <<attempt, outcome, prepared, remote, manifest, marker, cmd,
                         plan, faults, begun>>
      BY <1>19, <2>2 DEF EndOfBody
    <3>2. disk' \in [Files -> Content] /\ part' \in [Files -> Content]
      BY <2>1, <3>1, ContentTypes DEF TypeOK
    <3>3. handle' \in [Procs -> Handles]
      BY <2>1, <3>1, HandleTypes DEF TypeOK
    <3>4. todo' \in [Procs -> SUBSET Files] /\ pc' \in [Procs -> Steps]
      BY <3>1 DEF TypeOK, Steps
    <3> QED BY <3>1, <3>2, <3>3, <3>4 DEF TypeOK
  <2>3. CASE ~Exists(part[f])
    <3>1. /\ Close(p) /\ FailAttempt(p)
          /\ UNCHANGED <<disk, part, todo, remote, manifest, marker, cmd, plan,
                         faults, begun>>
      BY <1>19, <2>3 DEF EndOfBody
    <3> QED BY <3>1, CloseType, FailAttemptType DEF TypeOK
  <2> QED BY <2>2, <2>3
<1>20. ASSUME NEW p \in Procs, AllHandled(p) PROVE TypeOK'
  <2>1. UNCHANGED <<shared, cmd, plan, todo, handle, faults, begun>>
    BY <1>20 DEF AllHandled
  <2>2. CASE Verified(p)
    BY <1>20, <2>1, <2>2 DEF AllHandled, TypeOK, Steps
  <2>3. CASE ~(Verified(p))
    <3>1. FailAttempt(p)
      BY <1>20, <2>3 DEF AllHandled
    <3> QED BY <2>1, <3>1, FailAttemptType DEF TypeOK
  <2> QED BY <2>2, <2>3
<1>21. ASSUME NEW p \in Procs, Settle(p) PROVE TypeOK'
  <2>1. marker' \in BOOLEAN /\ (End(p, "ok") \/ End(p, "unmet"))
    BY <1>21 DEF Settle, TypeOK
  <2>2. {"ok", "unmet"} \subseteq Outcomes
    BY DEF Outcomes
  <2>3. /\ pc' \in [Procs -> Steps] /\ outcome' \in [Procs -> Outcomes]
        /\ prepared' \subseteq Bundles
    BY <2>1, <2>2, EndType
  <2> QED BY <1>21, <2>1, <2>3 DEF Settle, TypeOK
<1>22. ASSUME NEW p \in Procs, Crash(p) PROVE TypeOK'
  BY <1>22, CloseType, FaultType DEF Crash, TypeOK, Steps
<1>23. ASSUME Publish PROVE TypeOK'
  <2>1. PICK f \in Files, s \in 0..MaxSize :
          /\ remote[f].version < MaxVersion
          /\ remote' = [remote EXCEPT ![f] = [version |-> @.version + 1, size |-> s]]
    BY <1>23 DEF Publish
  <2>2. remote' \in [Files -> [version : Versions, size : 0..MaxSize]]
    BY <2>1, BoundsAssumption DEF TypeOK, Versions
  <2> QED BY <1>23, <2>2 DEF Publish, TypeOK
<1>24. CASE UNCHANGED vars
  BY <1>24 DEF vars, TypeOK
<1> QED
  BY <1>1, <1>2, <1>3, <1>4, <1>5, <1>6, <1>7, <1>8, <1>9, <1>10, <1>11, <1>12,
     <1>13, <1>14, <1>15, <1>16, <1>17, <1>18, <1>19, <1>20, <1>21, <1>22, <1>23,
     <1>24 DEF Next, Work, Fail

\* The types of every variable hold in every state of every behaviour.
THEOREM TypeCorrect == Spec => []TypeOK
BY InitType, NextType, PTL DEF Spec

-----------------------------------------------------------------------------
(* An interrupted download never looks like a legacy cache. *)

\* What each command knows about the manifest: the one it read as readable, and
\* the one it recorded, are still there, because nothing removes a manifest.
ManifestKept ==
  \A p \in Procs :
    /\ pc[p] = "check" /\ Readable(plan[p]) => manifest.state # "none"
    /\ pc[p] = "record" => Readable(plan[p])
    /\ pc[p] \in {"file", "request", "body", "settle"} => manifest.state # "none"

NeverLegacyInv == InterruptedNeverLooksLegacy /\ ManifestKept

\* After a failed attempt the command lists again or has ended.
LEMMA FailAttemptStep ==
  ASSUME TypeOK, NEW p \in Procs, FailAttempt(p)
  PROVE  pc' = [pc EXCEPT ![p] = "list"] \/ pc' = [pc EXCEPT ![p] = "idle"]
BY DEF FailAttempt, End

\* A step of p that moves it to a step that promises nothing about the manifest
\* and leaves plan, manifest, marker and begun alone keeps the invariant.
LEMMA QuietStep ==
  ASSUME TypeOK, NeverLegacyInv, NEW p \in Procs, NEW s \in {"list", "idle", "mark", "look", "weigh"},
         pc' = [pc EXCEPT ![p] = s], UNCHANGED <<plan, manifest, marker, begun>>
  PROVE  NeverLegacyInv'
BY DEF TypeOK, NeverLegacyInv, InterruptedNeverLooksLegacy, ManifestKept, Readable

LEMMA NeverLegacyNext == TypeOK /\ NeverLegacyInv /\ [Next]_vars => NeverLegacyInv'
<1> SUFFICES ASSUME TypeOK, NeverLegacyInv, [Next]_vars PROVE NeverLegacyInv'
  OBVIOUS
<1> USE DEF local, shared
<1>1. ASSUME NEW p \in Procs, Start(p) PROVE NeverLegacyInv'
  BY <1>1 DEF Start, Begin, TypeOK, NeverLegacyInv, InterruptedNeverLooksLegacy,
              ManifestKept, Readable
<1>2. ASSUME NEW p \in Procs, AcceptComplete(p) PROVE NeverLegacyInv'
  <2>1. pc' = [pc EXCEPT ![p] = "idle"] /\ UNCHANGED <<plan, manifest, begun>>
    BY <1>2 DEF AcceptComplete, End
  <2>2. manifest.state # "none"
    BY <1>2 DEF AcceptComplete, LocallyComplete, Complete, NeverLegacyInv, ManifestKept
  <2> QED BY <2>1, <2>2 DEF TypeOK, NeverLegacyInv, InterruptedNeverLooksLegacy,
                            ManifestKept
<1>3. ASSUME NEW p \in Procs, SeemsLegacy(p) \/ LookForMarker(p) \/ WeighFiles(p)
      PROVE  NeverLegacyInv'
  BY <1>3, QuietStep DEF SeemsLegacy, LookForMarker, WeighFiles, End
<1>4. ASSUME NEW p \in Procs, NeedDownload(p) PROVE NeverLegacyInv'
  BY <1>4, QuietStep DEF NeedDownload
<1>5. ASSUME NEW p \in Procs, Mark(p) PROVE NeverLegacyInv'
  BY <1>5 DEF Mark, SetMarker, TypeOK, NeverLegacyInv, InterruptedNeverLooksLegacy, ManifestKept
<1>6. ASSUME NEW p \in Procs, List(p) PROVE NeverLegacyInv'
  <2>1. CASE FailAttempt(p) /\ UNCHANGED plan
    BY <1>6, <2>1, FailAttemptStep, QuietStep DEF List
  <2>2. CASE \E w : /\ plan' = [plan EXCEPT ![p] = [state |-> "ok", want |-> w]]
                    /\ pc' = [pc EXCEPT ![p] = "record"]
    BY <1>6, <2>2 DEF List, TypeOK, NeverLegacyInv, InterruptedNeverLooksLegacy,
                      ManifestKept, Readable
  <2> QED BY <1>6, <2>1, <2>2 DEF List
<1>7. ASSUME NEW p \in Procs, ListFault(p) PROVE NeverLegacyInv'
  BY <1>7, FailAttemptStep, QuietStep DEF ListFault
<1>8. ASSUME NEW p \in Procs, Record(p) PROVE NeverLegacyInv'
  <2>1. /\ manifest' = plan[p] /\ UNCHANGED <<plan, marker, begun>>
        /\ pc' = [pc EXCEPT ![p] = "settle"] \/ pc' = [pc EXCEPT ![p] = "file"]
    BY <1>8 DEF Record
  <2>2. manifest'.state # "none"
    BY <1>8, <2>1 DEF Record, NeverLegacyInv, ManifestKept, Readable
  <2> QED BY <2>1, <2>2 DEF TypeOK, NeverLegacyInv, InterruptedNeverLooksLegacy,
                            ManifestKept
<1>9. ASSUME NEW p \in Procs, SkipFile(p) \/ WriteEmpty(p) \/ PromotePart(p) \/ WriteBlock(p)
      PROVE  NeverLegacyInv'
  BY <1>9 DEF SkipFile, WriteEmpty, PromotePart, WriteBlock, NeverLegacyInv,
              InterruptedNeverLooksLegacy, ManifestKept
<1>10. ASSUME NEW p \in Procs, Request(p) PROVE NeverLegacyInv'
  BY <1>10 DEF Request, TypeOK, NeverLegacyInv, InterruptedNeverLooksLegacy, ManifestKept
<1>11. ASSUME NEW p \in Procs, RespondWhole(p) \/ RespondPartial(p) PROVE NeverLegacyInv'
  BY <1>11 DEF RespondWhole, RespondPartial, TypeOK, NeverLegacyInv,
               InterruptedNeverLooksLegacy, ManifestKept
<1>12. ASSUME NEW p \in Procs, RespondUnsatisfiable(p) \/ RequestFault(p) \/ BodyFault(p)
       PROVE  NeverLegacyInv'
  BY <1>12, FailAttemptStep, QuietStep DEF RespondUnsatisfiable, RequestFault, BodyFault
<1>13. ASSUME NEW p \in Procs, EndOfBody(p) PROVE NeverLegacyInv'
  <2>1. UNCHANGED <<plan, manifest, marker, begun>> /\ pc[p] = "body"
    BY <1>13 DEF EndOfBody
  <2>2. pc' = [pc EXCEPT ![p] = "file"] \/ FailAttempt(p)
    BY <1>13 DEF EndOfBody
  <2>3. CASE FailAttempt(p)
    BY <2>1, <2>3, FailAttemptStep, QuietStep
  <2>4. CASE pc' = [pc EXCEPT ![p] = "file"]
    BY <2>1, <2>4 DEF TypeOK, NeverLegacyInv, InterruptedNeverLooksLegacy, ManifestKept
  <2> QED BY <2>2, <2>3, <2>4
<1>14. ASSUME NEW p \in Procs, AllHandled(p) PROVE NeverLegacyInv'
  <2>1. UNCHANGED <<plan, manifest, marker, begun>> /\ pc[p] = "file"
    BY <1>14 DEF AllHandled
  <2>2. pc' = [pc EXCEPT ![p] = "settle"] \/ FailAttempt(p)
    BY <1>14 DEF AllHandled
  <2>3. CASE FailAttempt(p)
    BY <2>1, <2>3, FailAttemptStep, QuietStep
  <2>4. CASE pc' = [pc EXCEPT ![p] = "settle"]
    BY <2>1, <2>4 DEF TypeOK, NeverLegacyInv, InterruptedNeverLooksLegacy, ManifestKept
  <2> QED BY <2>2, <2>3, <2>4
<1>15. ASSUME NEW p \in Procs, Settle(p) PROVE NeverLegacyInv'
  <2>1. pc' = [pc EXCEPT ![p] = "idle"] /\ UNCHANGED <<plan, manifest, begun>>
    BY <1>15 DEF Settle, End
  <2>2. manifest.state # "none"
    BY <1>15 DEF Settle, NeverLegacyInv, ManifestKept
  <2> QED BY <2>1, <2>2 DEF TypeOK, NeverLegacyInv, InterruptedNeverLooksLegacy,
                            ManifestKept
<1>16. ASSUME NEW p \in Procs, Crash(p) PROVE NeverLegacyInv'
  BY <1>16, QuietStep DEF Crash
<1>17. CASE Publish \/ UNCHANGED vars
  BY <1>17 DEF Publish, vars, NeverLegacyInv, InterruptedNeverLooksLegacy, ManifestKept
<1> QED
  BY <1>1, <1>2, <1>3, <1>4, <1>5, <1>6, <1>7, <1>8, <1>9, <1>10, <1>11, <1>12,
     <1>13, <1>14, <1>15, <1>16, <1>17 DEF Next, Work, Fail

\* Once a download has begun, whatever crashes, retries and concurrent commands
\* follow, a directory without the marker has a manifest: the legacy path of
\* downloadRemote is closed for good.
THEOREM NeverLooksLegacy == Spec => []InterruptedNeverLooksLegacy
<1>1. Init => NeverLegacyInv
  BY DEF Init, NeverLegacyInv, InterruptedNeverLooksLegacy, ManifestKept
<1>2. NeverLegacyInv => InterruptedNeverLooksLegacy
  BY DEF NeverLegacyInv
<1> QED BY <1>1, <1>2, TypeCorrect, NeverLegacyNext, PTL DEF Spec

-----------------------------------------------------------------------------
(* With one command at a time the marker outlives every incomplete state. *)

\* The steps between writing the marker and the end of the command.
Downloading == {"list", "record", "file", "request", "body", "settle"}
Transferring == {"file", "request", "body"}

\* The only command p: the marker is there while it downloads, the manifest is
\* the expected set it works on, and that set is complete when it settles.
SoloMarkerInv(p) ==
  /\ MarkerUntilComplete
  /\ pc[p] \in Downloading => marker
  /\ pc[p] = "check" /\ Readable(plan[p]) => manifest = plan[p]
  /\ pc[p] = "record" => Readable(plan[p])
  /\ pc[p] \in Transferring \cup {"settle"} => manifest = plan[p] /\ Readable(plan[p])
  /\ pc[p] = "settle" => Verified(p)

\* While it downloads, a step that leaves the marker, the manifest and the plan
\* alone and goes on transferring or gives up keeps the invariant, whatever it
\* writes to the disk.
LEMMA DownloadingStep ==
  ASSUME TypeOK, NEW p \in Procs, SoloMarkerInv(p), pc[p] \in Downloading,
         NEW s \in Transferring \cup {"list", "idle"}, pc' = [pc EXCEPT ![p] = s],
         s \in Transferring => pc[p] \in Transferring,
         UNCHANGED <<marker, manifest, plan, begun>>
  PROVE  SoloMarkerInv(p)'
BY DEF TypeOK, SoloMarkerInv, MarkerUntilComplete, Downloading, Transferring, Readable

LEMMA GiveUpStep ==
  ASSUME TypeOK, NEW p \in Procs, SoloMarkerInv(p), pc[p] \in Downloading,
         FailAttempt(p), UNCHANGED <<marker, manifest, plan, begun>>
  PROVE  SoloMarkerInv(p)'
<1>1. CASE pc' = [pc EXCEPT ![p] = "list"]
  BY <1>1, DownloadingStep DEF Transferring
<1>2. CASE pc' = [pc EXCEPT ![p] = "idle"]
  BY <1>2, DownloadingStep DEF Transferring
<1> QED BY <1>1, <1>2, FailAttemptStep

\* A step of p itself, whatever other commands there are, or of the hub.
LEMMA SoloMarkerStep ==
  ASSUME TypeOK, NEW p \in Procs, SoloMarkerInv(p),
         Start(p) \/ Work(p) \/ Fail(p) \/ Publish \/ UNCHANGED vars
  PROVE  SoloMarkerInv(p)'
<1> USE DEF local, shared
<1>p. p \in Procs
  OBVIOUS
<1>1. ASSUME Start(p) PROVE SoloMarkerInv(p)'
  BY <1>1, <1>p DEF Start, Begin, TypeOK, SoloMarkerInv, MarkerUntilComplete, Readable, Complete, Verified,
                    Missing, Listed, Exists, Downloading, Transferring
<1>2. ASSUME AcceptComplete(p) PROVE SoloMarkerInv(p)'
  <2>1. pc' = [pc EXCEPT ![p] = "idle"] /\ UNCHANGED <<plan, manifest, begun, disk>>
    BY <1>2 DEF AcceptComplete, End
  <2>2. Readable(manifest) /\ Missing(manifest.want) = {}
    BY <1>2 DEF AcceptComplete, LocallyComplete, Complete, SoloMarkerInv
  <2>3. MarkerUntilComplete'
    BY <2>1, <2>2 DEF MarkerUntilComplete, Readable, Complete, Verified, Missing, Listed, Exists
  <2> QED BY <1>p, <2>1, <2>3 DEF TypeOK, SoloMarkerInv, Downloading, Transferring
<1>3. ASSUME NeedDownload(p) \/ SeemsLegacy(p) \/ LookForMarker(p) \/ WeighFiles(p)
      PROVE  SoloMarkerInv(p)'
  <2>1. UNCHANGED <<plan, manifest, begun, disk, marker>>
    BY <1>3 DEF NeedDownload, SeemsLegacy, LookForMarker, WeighFiles
  <2>2. \E s \in {"idle", "mark", "look", "weigh"} : pc' = [pc EXCEPT ![p] = s]
    BY <1>3 DEF NeedDownload, SeemsLegacy, LookForMarker, WeighFiles, End
  <2>3. MarkerUntilComplete'
    BY <2>1 DEF SoloMarkerInv, MarkerUntilComplete, Readable, Complete, Verified, Missing, Listed, Exists
  <2> QED BY <1>p, <2>2, <2>3 DEF TypeOK, SoloMarkerInv, Downloading, Transferring
<1>4. ASSUME Mark(p) PROVE SoloMarkerInv(p)'
  BY <1>4, <1>p DEF Mark, SetMarker, TypeOK, SoloMarkerInv, MarkerUntilComplete, Downloading,
                    Transferring
<1>5. ASSUME List(p) PROVE SoloMarkerInv(p)'
  <2>1. CASE FailAttempt(p) /\ UNCHANGED plan
    BY <1>5, <1>p, <2>1, GiveUpStep DEF List, Downloading
  <2>2. CASE \E w : /\ plan' = [plan EXCEPT ![p] = [state |-> "ok", want |-> w]]
                    /\ pc' = [pc EXCEPT ![p] = "record"]
    BY <1>5, <1>p, <2>2 DEF List, TypeOK, SoloMarkerInv, MarkerUntilComplete, Readable,
                            Downloading, Transferring
  <2> QED BY <1>5, <2>1, <2>2 DEF List
<1>6. ASSUME ListFault(p) \/ RespondUnsatisfiable(p) \/ RequestFault(p) \/ BodyFault(p)
      PROVE  SoloMarkerInv(p)'
  BY <1>6, <1>p, GiveUpStep
     DEF ListFault, RespondUnsatisfiable, RequestFault, BodyFault, Downloading
<1>7. ASSUME Record(p) PROVE SoloMarkerInv(p)'
  <2>1. /\ manifest' = plan[p] /\ UNCHANGED <<plan, marker, begun, disk>>
        /\ Readable(plan[p]) /\ marker
    BY <1>7 DEF Record, SoloMarkerInv, Downloading
  <2>2. CASE pc' = [pc EXCEPT ![p] = "file"]
    BY <1>p, <2>1, <2>2 DEF TypeOK, SoloMarkerInv, MarkerUntilComplete, Downloading,
                            Transferring, Readable
  <2>3. CASE pc' = [pc EXCEPT ![p] = "settle"] /\ Verified(p)
    BY <1>p, <2>1, <2>3 DEF TypeOK, SoloMarkerInv, MarkerUntilComplete, Downloading,
                            Transferring, Readable, Complete, Verified, Missing, Listed, Exists
  <2> QED BY <1>7, <2>2, <2>3 DEF Record, Verified
<1>8. ASSUME SkipFile(p) \/ WriteEmpty(p) \/ PromotePart(p) \/ WriteBlock(p)
      PROVE  SoloMarkerInv(p)'
  BY <1>8, <1>p DEF SkipFile, WriteEmpty, PromotePart, WriteBlock, SoloMarkerInv,
                    MarkerUntilComplete, Downloading, Transferring, Readable
<1>9. ASSUME Request(p) \/ RespondWhole(p) \/ RespondPartial(p) PROVE SoloMarkerInv(p)'
  BY <1>9, <1>p, DownloadingStep DEF Request, RespondWhole, RespondPartial, Downloading,
                                     Transferring
<1>10. ASSUME EndOfBody(p) PROVE SoloMarkerInv(p)'
  <2>1. pc' = [pc EXCEPT ![p] = "file"] \/ FailAttempt(p)
    BY <1>10 DEF EndOfBody
  <2> QED BY <1>10, <1>p, <2>1, FailAttemptStep, DownloadingStep DEF EndOfBody, Downloading,
                                                                  Transferring
<1>11. ASSUME AllHandled(p) PROVE SoloMarkerInv(p)'
  <2>1. CASE FailAttempt(p)
    BY <1>11, <1>p, <2>1, GiveUpStep DEF AllHandled, Downloading
  <2>2. CASE pc' = [pc EXCEPT ![p] = "settle"] /\ Verified(p)
    BY <1>11, <1>p, <2>2 DEF AllHandled, TypeOK, SoloMarkerInv, MarkerUntilComplete,
                             Downloading, Transferring, Readable, Complete, Verified, Missing, Listed, Exists
  <2> QED BY <1>11, <2>1, <2>2 DEF AllHandled
<1>12. ASSUME Settle(p) PROVE SoloMarkerInv(p)'
  <2>1. pc' = [pc EXCEPT ![p] = "idle"] /\ UNCHANGED <<plan, manifest, begun, disk>>
    BY <1>12 DEF Settle, End
  <2>2. Readable(manifest) /\ Missing(manifest.want) = {}
    BY <1>12 DEF Settle, Verified, SoloMarkerInv
  <2>3. MarkerUntilComplete'
    BY <2>1, <2>2 DEF MarkerUntilComplete, Readable, Complete, Verified, Missing, Listed, Exists
  <2> QED BY <1>p, <2>1, <2>3 DEF TypeOK, SoloMarkerInv, Downloading, Transferring
<1>13. ASSUME Crash(p) PROVE SoloMarkerInv(p)'
  <2>1. MarkerUntilComplete'
    BY <1>13 DEF Crash, SoloMarkerInv, MarkerUntilComplete, Readable, Complete, Verified, Missing, Listed, Exists
  <2> QED BY <1>13, <1>p, <2>1 DEF Crash, TypeOK, SoloMarkerInv, Downloading, Transferring
<1>14. CASE Publish \/ UNCHANGED vars
  BY <1>14 DEF Publish, vars, SoloMarkerInv, MarkerUntilComplete, Readable, Complete, Verified, Missing,
               Listed, Exists
<1> QED
  BY <1>1, <1>2, <1>3, <1>4, <1>5, <1>6, <1>7, <1>8, <1>9, <1>10, <1>11, <1>12, <1>13,
     <1>14 DEF Work, Fail

LEMMA SoloMarkerNext ==
  ASSUME NEW p, Procs = {p}
  PROVE  TypeOK /\ SoloMarkerInv(p) /\ [Next]_vars => SoloMarkerInv(p)'
BY SoloMarkerStep DEF Next

\* One command at a time, any number of bundles, faults, crashes and republished
\* files: without the marker the recorded expected set is complete on disk.
THEOREM SoloMarkerUntilComplete ==
  ASSUME NEW p, Procs = {p}
  PROVE  Spec => []MarkerUntilComplete
<1>1. Init => SoloMarkerInv(p)
  BY DEF Init, SoloMarkerInv, MarkerUntilComplete, Downloading, Transferring
<1>2. SoloMarkerInv(p) => MarkerUntilComplete
  BY DEF SoloMarkerInv
<1>3. TypeOK /\ SoloMarkerInv(p) /\ [Next]_vars => SoloMarkerInv(p)'
  BY SoloMarkerNext
<1> QED BY <1>1, <1>2, <1>3, TypeCorrect, PTL DEF Spec

-----------------------------------------------------------------------------
(* A bundle that was prepared has every file it selects. *)

Whole(b) == \A f \in Selected[b] : Exists(disk[f])

\* The only bundle b: every manifest, on disk or in a command, lists what b
\* selects, so that a settled or accepted one stands for the whole selection.
WholeInv(b) ==
  /\ Readable(manifest) => Listed(manifest.want) = Selected[b]
  /\ \A p \in Procs :
       /\ Readable(plan[p]) => Listed(plan[p].want) = Selected[b]
       /\ pc[p] \in {"record", "file", "request", "body", "settle"} => Readable(plan[p])
       /\ pc[p] = "settle" => Whole(b)
  /\ prepared # {} => Whole(b)

\* No step of any command removes a finished file.
LEMMA DiskKept ==
  ASSUME TypeOK, [Next]_vars, NEW f \in Files, Exists(disk[f])
  PROVE  Exists(disk'[f])
<1> USE DEF local, shared
<1>1. ASSUME NEW p \in Procs, WriteEmpty(p) PROVE Exists(disk'[f])
  BY <1>1 DEF WriteEmpty, TypeOK, Exists, Empty, NoFile
<1>2. ASSUME NEW p \in Procs, PromotePart(p) PROVE Exists(disk'[f])
  BY <1>2 DEF PromotePart, TypeOK, Exists, Manifest, Expected
<1>3. ASSUME NEW p \in Procs, WriteBlock(p) PROVE Exists(disk'[f])
  <2>1. CASE handle[p].at = "dest" /\ handle[p].file = f
    <3>1. disk'[f] = WriteTo(disk[f], handle[p])
      BY <1>3, <2>1 DEF WriteBlock, TypeOK
    <3>2. handle[p].next \in 1..TooLong /\ disk[f].len \in -1..TooLong
      BY DEF TypeOK, Handles, Content
    <3>3. disk'[f].len >= 0
      BY <3>1, <3>2, BoundsAssumption DEF WriteTo, Put, TooLong, Exists
    <3> QED BY <3>3 DEF Exists
  <2>2. CASE ~(handle[p].at = "dest" /\ handle[p].file = f)
    <3>1. disk'[f] = disk[f]
      BY <1>3, <2>2 DEF WriteBlock, TypeOK
    <3> QED BY <3>1
  <2> QED BY <2>1, <2>2
<1>4. ASSUME NEW p \in Procs, EndOfBody(p) PROVE Exists(disk'[f])
  BY <1>4 DEF EndOfBody, TypeOK, Exists
<1>5. ASSUME disk' = disk PROVE Exists(disk'[f])
  BY <1>5
<1>6. ASSUME NEW p \in Procs,
             \/ Start(p) \/ Fail(p) \/ AcceptComplete(p) \/ SeemsLegacy(p)
             \/ LookForMarker(p) \/ WeighFiles(p)
             \/ NeedDownload(p) \/ Mark(p) \/ List(p) \/ Record(p) \/ SkipFile(p)
             \/ Request(p) \/ RespondWhole(p) \/ RespondPartial(p)
             \/ RespondUnsatisfiable(p) \/ AllHandled(p) \/ Settle(p)
      PROVE  disk' = disk
  BY <1>6 DEF Start, Begin, Fail, ListFault, RequestFault, BodyFault, Crash,
              AcceptComplete, SeemsLegacy, LookForMarker, WeighFiles, NeedDownload,
              Mark, List, Record, SkipFile,
              Request, RespondWhole, RespondPartial, RespondUnsatisfiable, AllHandled,
              Settle
<1>7. CASE Publish \/ UNCHANGED vars
  BY <1>7 DEF Publish, vars
<1> QED
  BY <1>1, <1>2, <1>3, <1>4, <1>5, <1>6, <1>7 DEF Next, Work

\* An attempt of b lists what b selects, from the hub or from such a manifest.
LEMMA ListsSelection ==
  ASSUME TypeOK, NEW b \in Bundles, WholeInv(b), NEW sizes \in Expected,
         \/ \A f \in Files : sizes[f] >= 0
         \/ Listed(sizes) = Selected[b]
  PROVE  Listed(Filtered(sizes, b)) = Selected[b]
BY BundlesAssumption DEF Listed, Filtered, Expected

LEMMA NothingMissingIsWhole ==
  ASSUME NEW b \in Bundles, NEW want, Listed(want) = Selected[b], Missing(want) = {}
  PROVE  Whole(b)
BY DEF Missing, Whole

LEMMA WholeNext ==
  ASSUME NEW b, Bundles = {b}
  PROVE  TypeOK /\ WholeInv(b) /\ [Next]_vars => WholeInv(b)'
<1> SUFFICES ASSUME TypeOK, WholeInv(b), [Next]_vars PROVE WholeInv(b)'
  OBVIOUS
<1> USE DEF local, shared
<1>b. b \in Bundles /\ \A c \in Bundles : c = b
  OBVIOUS
<1>w. Whole(b) => Whole(b)'
  BY DiskKept, BundlesAssumption, <1>b DEF Whole
\* The steps that neither settle nor prepare anything nor touch a manifest.
<1>q. ASSUME NEW p \in Procs, UNCHANGED <<manifest, plan, prepared>>,
             \/ pc' = pc
             \/ \E s \in Steps \ {"record", "settle"} :
                  /\ pc' = [pc EXCEPT ![p] = s]
                  /\ s \in {"file", "request", "body"} =>
                       pc[p] \in {"record", "file", "request", "body"}
      PROVE  WholeInv(b)'
  BY <1>w, <1>q DEF WholeInv, TypeOK, Steps, Readable, Listed
<1>f. ASSUME NEW p \in Procs, FailAttempt(p), UNCHANGED <<manifest, plan>>
      PROVE  WholeInv(b)'
  BY <1>f, <1>q DEF FailAttempt, End, Steps
<1>1. ASSUME NEW p \in Procs, Start(p) PROVE WholeInv(b)'
  BY <1>1, <1>w DEF Start, Begin, WholeInv, TypeOK, Readable, Listed
<1>2. ASSUME NEW p \in Procs, AcceptComplete(p) PROVE WholeInv(b)'
  <2>1. Whole(b)
    BY <1>2, <1>b, NothingMissingIsWhole
       DEF AcceptComplete, LocallyComplete, Complete, WholeInv
  <2>2. /\ UNCHANGED <<manifest, plan>> /\ pc' = [pc EXCEPT ![p] = "idle"]
    BY <1>2 DEF AcceptComplete, End
  <2> QED BY <2>1, <2>2, <1>w DEF WholeInv, TypeOK, Readable, Listed
<1>3. ASSUME NEW p \in Procs,
             \/ SeemsLegacy(p) \/ LookForMarker(p) \/ WeighFiles(p)
             \/ NeedDownload(p) \/ Mark(p) \/ SkipFile(p)
             \/ WriteEmpty(p) \/ PromotePart(p) \/ Request(p) \/ RespondWhole(p)
             \/ RespondPartial(p) \/ WriteBlock(p) \/ Crash(p)
      PROVE  WholeInv(b)'
  BY <1>3, <1>q DEF SeemsLegacy, LookForMarker, WeighFiles, NeedDownload, Mark,
       SkipFile, WriteEmpty, PromotePart,
       Request, RespondWhole, RespondPartial, WriteBlock, Crash, End, Steps
<1>4. ASSUME NEW p \in Procs,
             \/ ListFault(p) \/ RequestFault(p) \/ BodyFault(p) \/ RespondUnsatisfiable(p)
      PROVE  WholeInv(b)'
  BY <1>4, <1>f DEF ListFault, RequestFault, BodyFault, RespondUnsatisfiable
<1>5. ASSUME NEW p \in Procs, List(p) PROVE WholeInv(b)'
  <2> DEFINE sizes == IF ~cmd[p].pull /\ Readable(manifest)
                      THEN manifest.want ELSE [f \in Files |-> remote[f].size]
  <2>1. cmd[p].bundle = b
    BY <1>b DEF TypeOK
  <2>2. sizes \in Expected
    BY BoundsAssumption DEF TypeOK, Manifest, Expected
  <2>3. \/ \A f \in Files : sizes[f] >= 0
        \/ Listed(sizes) = Selected[b]
    BY BoundsAssumption DEF TypeOK, WholeInv
  <2>4. Listed(Filtered(sizes, b)) = Selected[b]
    BY <2>2, <2>3, <1>b, ListsSelection
  <2> HIDE DEF sizes
  <2>5. CASE FailAttempt(p) /\ UNCHANGED plan
    BY <1>5, <2>5, <1>f DEF List
  <2>6. CASE /\ plan' = [plan EXCEPT ![p] = [state |-> "ok", want |-> Filtered(sizes, b)]]
             /\ pc' = [pc EXCEPT ![p] = "record"]
             /\ UNCHANGED <<manifest, prepared>>
    BY <2>4, <2>6, <1>w DEF WholeInv, TypeOK, Readable, Listed
  <2> QED BY <1>5, <2>1, <2>5, <2>6 DEF List, sizes
<1>6. ASSUME NEW p \in Procs, Record(p) PROVE WholeInv(b)'
  <2>1. /\ manifest' = plan[p] /\ UNCHANGED <<plan, prepared>>
        /\ Readable(plan[p]) /\ Listed(plan[p].want) = Selected[b]
    BY <1>6 DEF Record, WholeInv
  <2>2. CASE pc' = [pc EXCEPT ![p] = "file"]
    BY <2>1, <2>2, <1>w DEF WholeInv, TypeOK, Readable, Listed
  <2>3. CASE pc' = [pc EXCEPT ![p] = "settle"] /\ Missing(plan[p].want) = {}
    <3>1. Whole(b)
      BY <2>1, <2>3, <1>b, NothingMissingIsWhole
    <3> QED BY <2>1, <2>3, <3>1, <1>w DEF WholeInv, TypeOK, Readable, Listed
  <2> QED BY <1>6, <2>2, <2>3 DEF Record
<1>7. ASSUME NEW p \in Procs, EndOfBody(p) PROVE WholeInv(b)'
  <2>1. CASE FailAttempt(p)
    BY <1>7, <2>1, <1>f DEF EndOfBody
  <2>2. CASE pc' = [pc EXCEPT ![p] = "file"] /\ UNCHANGED prepared
    BY <1>7, <2>2, <1>q DEF EndOfBody, Steps
  <2> QED BY <1>7, <2>1, <2>2 DEF EndOfBody
<1>8. ASSUME NEW p \in Procs, AllHandled(p) PROVE WholeInv(b)'
  <2>1. CASE FailAttempt(p)
    BY <1>8, <2>1, <1>f DEF AllHandled
  <2>2. CASE /\ pc' = [pc EXCEPT ![p] = "settle"] /\ UNCHANGED prepared
             /\ Missing(plan[p].want) = {}
    <3>1. Readable(plan[p]) /\ Listed(plan[p].want) = Selected[b]
      BY <1>8 DEF AllHandled, WholeInv
    <3>2. Whole(b)
      BY <2>2, <3>1, <1>b, NothingMissingIsWhole
    <3> QED BY <1>8, <2>2, <3>1, <3>2, <1>w DEF AllHandled, WholeInv, TypeOK, Readable, Listed
  <2> QED BY <1>8, <2>1, <2>2 DEF AllHandled, Verified
<1>9. ASSUME NEW p \in Procs, Settle(p) PROVE WholeInv(b)'
  <2>1. /\ Whole(b) /\ UNCHANGED <<manifest, plan>>
        /\ pc' = [pc EXCEPT ![p] = "idle"]
    BY <1>9 DEF Settle, End, WholeInv
  <2> QED BY <2>1, <1>w DEF WholeInv, TypeOK, Readable, Listed
<1>10. CASE Publish \/ UNCHANGED vars
  BY <1>10, <1>w DEF Publish, vars, WholeInv, Readable, Listed
<1> QED
  BY <1>1, <1>2, <1>3, <1>4, <1>5, <1>6, <1>7, <1>8, <1>9, <1>10 DEF Next, Work, Fail

\* One bundle, any number of commands, faults, crashes and republished files:
\* a bundle that Download or the offline check accepted has every file its
\* allow_patterns select, whichever command brought each of them.
THEOREM PreparedIsWholeHolds ==
  ASSUME NEW b, Bundles = {b}
  PROVE  Spec => []PreparedIsWhole
<1>1. Init => WholeInv(b)
  BY DEF Init, WholeInv, Readable, NoManifest
<1>2. TypeOK /\ WholeInv(b) => PreparedIsWhole
  BY DEF WholeInv, PreparedIsWhole, Whole, TypeOK
<1>3. TypeOK /\ WholeInv(b) /\ [Next]_vars => WholeInv(b)'
  BY WholeNext
<1> QED BY <1>1, <1>2, <1>3, TypeCorrect, PTL DEF Spec

-----------------------------------------------------------------------------
(* One command at a time, and a hub repository that stays as it is: what is on
   disk is what the hub has. *)

\* The bytes the hub has, up to the length of c.
Prefix(c) == c = Bytes(1, c.len)

\* Every file, finished or partial, is the beginning of the hub's, and an open
\* transfer goes on exactly where its partial file ends.
PrefixInv(p) ==
  /\ \A f \in Files : Prefix(disk[f]) /\ Prefix(part[f])
  /\ \A f \in Files : part[f].len <= remote[f].size
  /\ pc[p] = "request" =>
       /\ handle[p].next > 1 => Exists(part[handle[p].file])
       /\ Exists(part[handle[p].file]) =>
            handle[p].next = part[handle[p].file].len + 1
  /\ pc[p] = "body" =>
       /\ handle[p].at = "part" /\ handle[p].size = remote[handle[p].file].size
       /\ handle[p].next = part[handle[p].file].len + 1

LEMMA NothingIsPrefix ==
  /\ Prefix(NoFile) /\ NoFile.len = -1
  /\ Prefix(Empty) /\ Empty.len = 0
<1>1. \A i \in Offsets : ~(i <= -1) /\ ~(i <= 0)
  BY BoundsAssumption DEF Offsets
<1>2. [i \in Offsets |-> 0] = [i \in Offsets |-> IF i <= -1 THEN 1 ELSE 0]
  BY <1>1
<1>3. [i \in Offsets |-> 0] = [i \in Offsets |-> IF i <= 0 THEN 1 ELSE 0]
  BY <1>1
<1>4. /\ NoFile.len = -1 /\ NoFile = Bytes(1, -1)
      /\ Empty.len = 0 /\ Empty = Bytes(1, 0)
  BY <1>2, <1>3 DEF NoFile, Empty, Bytes
<1> QED BY <1>4 DEF Prefix

LEMMA PutPrefix ==
  ASSUME NEW n \in 1..MaxSize
  PROVE  Put(Bytes(1, n - 1), n, n, 1) = Bytes(1, n)
<1> DEFINE before == [i \in Offsets |-> IF i <= n - 1 THEN 1 ELSE 0]
           after  == [i \in Offsets |-> IF i <= n THEN 1 ELSE 0]
<1>1. n \in Int /\ MaxSize \in Int /\ n \in Offsets /\ \A i \in Offsets : i \in Int
  BY BoundsAssumption DEF Offsets
<1>2. \A i \in Offsets : [before EXCEPT ![n] = 1][i] = after[i]
  BY <1>1
<1>3. [before EXCEPT ![n] = 1] = after
  BY <1>2
<1> HIDE DEF before, after
<1>4. ~(n > MaxSize) /\ n > n - 1
  BY <1>1 DEF Offsets
<1>5. Bytes(1, n - 1) = [len |-> n - 1, at |-> before] /\ Bytes(1, n) = [len |-> n, at |-> after]
  BY DEF Bytes, before, after
<1>6. Put(Bytes(1, n - 1), n, n, 1) = [len |-> n, at |-> [before EXCEPT ![n] = 1]]
  BY <1>4, <1>5 DEF Put
<1> QED BY <1>3, <1>5, <1>6

LEMMA PrefixNext ==
  ASSUME NEW p, Procs = {p}, MaxVersion = 1
  PROVE  TypeOK /\ PrefixInv(p) /\ [Next]_vars => PrefixInv(p)'
<1> SUFFICES ASSUME TypeOK, PrefixInv(p), [Next]_vars PROVE PrefixInv(p)'
  OBVIOUS
<1> USE DEF local, shared
<1>p. p \in Procs /\ \A q \in Procs : q = p
  OBVIOUS
\* The steps that touch no file and open no transfer.
<1>q. ASSUME UNCHANGED <<remote, disk, part>>, pc'[p] \notin {"request", "body"}
      PROVE  PrefixInv(p)'
  BY <1>q DEF PrefixInv, Prefix
<1>f. ASSUME FailAttempt(p) PROVE pc'[p] \in {"list", "idle"}
  BY <1>f, <1>p DEF FailAttempt, End, TypeOK
<1>1. ASSUME \/ Start(p) \/ AcceptComplete(p) \/ SeemsLegacy(p)
             \/ LookForMarker(p) \/ WeighFiles(p) \/ NeedDownload(p)
             \/ Mark(p) \/ Record(p) \/ SkipFile(p) \/ Settle(p) \/ Crash(p)
      PROVE  PrefixInv(p)'
  <2>1. UNCHANGED <<remote, disk, part>> /\ pc'[p] \notin {"request", "body"}
    BY <1>1, <1>p DEF Start, Begin, AcceptComplete, SeemsLegacy, LookForMarker,
         WeighFiles, NeedDownload, Mark,
         Record, SkipFile, Settle, Crash, End, TypeOK
  <2> QED BY <2>1, <1>q
<1>2. ASSUME \/ List(p) \/ ListFault(p) \/ RequestFault(p) \/ BodyFault(p)
             \/ AllHandled(p)
      PROVE  PrefixInv(p)'
  <2>1. UNCHANGED <<remote, disk, part>> /\ pc'[p] \notin {"request", "body"}
    BY <1>2, <1>f, <1>p DEF List, ListFault, RequestFault, BodyFault, AllHandled, TypeOK
  <2> QED BY <2>1, <1>q
<1>3. ASSUME WriteEmpty(p) PROVE PrefixInv(p)'
  <2>1. Prefix(Empty) /\ Prefix(NoFile) /\ NoFile.len = -1
    BY NothingIsPrefix
  <2> QED BY <1>3, <2>1, <1>p DEF WriteEmpty, PrefixInv, TypeOK
<1>4. ASSUME PromotePart(p) PROVE PrefixInv(p)'
  <2>1. Prefix(NoFile) /\ NoFile.len = -1
    BY NothingIsPrefix
  <2> QED BY <1>4, <2>1, <1>p DEF PromotePart, PrefixInv, TypeOK
<1>5. ASSUME Request(p) PROVE PrefixInv(p)'
  <2>1. Prefix(NoFile) /\ NoFile.len = -1
    BY NothingIsPrefix
  <2>2. PICK f \in Files :
          LET stale == part[f].len > plan[p].want[f]
              start == IF stale \/ ~Exists(part[f]) THEN 0 ELSE part[f].len
          IN  /\ part' = IF stale THEN [part EXCEPT ![f] = NoFile] ELSE part
              /\ handle'[p] = [Idle EXCEPT !.file = f, !.next = start + 1]
    BY <1>5, <1>p DEF Request, TypeOK
  <2>3. UNCHANGED <<remote, disk>> /\ pc'[p] = "request"
    BY <1>5, <1>p DEF Request, TypeOK
  <2>4. handle'[p].file = f
    BY <2>2 DEF Idle
  <2>5. handle'[p].next = IF part[f].len > plan[p].want[f] \/ ~Exists(part[f])
                          THEN 1 ELSE part[f].len + 1
    BY <2>2 DEF Idle
  <2>6. part[f].len \in -1..TooLong
    BY DEF TypeOK, Content
  <2>7. /\ handle'[p].next > 1 => Exists(part'[f])
        /\ Exists(part'[f]) => handle'[p].next = part'[f].len + 1
    BY <2>1, <2>2, <2>5, <2>6, BoundsAssumption DEF Exists, TypeOK, TooLong
  <2>8. \A g \in Files : part'[g] = part[g] \/ part'[g] = NoFile
    BY <2>2 DEF TypeOK
  <2>9. \A g \in Files : Prefix(part'[g]) /\ part'[g].len <= remote[g].size
    BY <2>1, <2>8 DEF PrefixInv, TypeOK
  <2> QED BY <2>3, <2>4, <2>7, <2>9 DEF PrefixInv, Prefix
<1>6. ASSUME RespondWhole(p) PROVE PrefixInv(p)'
  <2>1. Prefix(Empty) /\ Empty.len = 0
    BY NothingIsPrefix
  <2>2. handle[p].file \in Files
    BY <1>p DEF TypeOK, Handles
  <2> QED BY <1>6, <2>1, <2>2, <1>p DEF RespondWhole, PrefixInv, TypeOK
<1>7. ASSUME RespondPartial(p) PROVE PrefixInv(p)'
  <2>1. handle[p].file \in Files /\ pc[p] = "request"
    BY <1>7, <1>p DEF RespondPartial, TypeOK, Handles
  <2>2. part' = part /\ handle[p].next = part[handle[p].file].len + 1
    BY <1>7, <2>1 DEF RespondPartial, PrefixInv
  <2> QED BY <1>7, <2>1, <2>2, <1>p DEF RespondPartial, PrefixInv, Prefix, TypeOK
<1>8. ASSUME RespondUnsatisfiable(p) PROVE PrefixInv(p)'
  <2>1. Prefix(NoFile) /\ NoFile.len = -1
    BY NothingIsPrefix
  <2> QED BY <1>8, <2>1, <1>f, <1>p DEF RespondUnsatisfiable, PrefixInv, TypeOK
<1>9. ASSUME WriteBlock(p) PROVE PrefixInv(p)'
  <2> DEFINE f == handle[p].file
             n == handle[p].next
  <2>1. /\ f \in Files /\ n \in 1..TooLong /\ handle[p].version = 1
        /\ remote[f].size \in 0..MaxSize /\ part[f].len \in -1..TooLong
    BY <1>p DEF TypeOK, Handles, Versions, Content
  <2>2. handle[p].at = "part" /\ n = part[f].len + 1 /\ n <= remote[f].size
    BY <1>9 DEF WriteBlock, PrefixInv
  <2>3. n \in 1..MaxSize /\ part[f] = Bytes(1, n - 1)
    BY <2>1, <2>2, BoundsAssumption DEF PrefixInv, Prefix, TooLong
  <2>4. WriteTo(part[f], handle[p]) = Put(Bytes(1, n - 1), n, n, 1)
    BY <2>1, <2>2, <2>3 DEF WriteTo
  <2>5. part' = [part EXCEPT ![f] = Bytes(1, n)]
    BY <1>9, <2>1, <2>2, <2>3, <2>4, PutPrefix DEF WriteBlock, TypeOK
  <2>6. /\ UNCHANGED <<remote, disk, pc>>
        /\ handle' = [handle EXCEPT ![p].next = n + 1]
    BY <1>9, <2>2 DEF WriteBlock
  <2>7. Bytes(1, n).len = n /\ Prefix(Bytes(1, n))
    BY DEF Bytes, Prefix
  <2>8. \A g \in Files : Prefix(part'[g]) /\ part'[g].len <= remote[g].size
    BY <2>1, <2>2, <2>5, <2>7 DEF PrefixInv, TypeOK
  <2>9. /\ handle'[p].at = "part" /\ handle'[p].size = handle[p].size
        /\ handle'[p].file = f /\ handle'[p].next = n + 1
    BY <2>2, <2>6, <1>p DEF TypeOK, Handles
  <2>10. part'[f].len = n
    BY <2>1, <2>5, <2>7 DEF TypeOK
  <2> QED BY <1>9, <2>6, <2>8, <2>9, <2>10 DEF WriteBlock, PrefixInv, Prefix
<1>10. ASSUME EndOfBody(p) PROVE PrefixInv(p)'
  <2>1. Prefix(NoFile) /\ NoFile.len = -1
    BY NothingIsPrefix
  <2>2. handle[p].file \in Files
    BY <1>p DEF TypeOK, Handles
  <2>3. pc'[p] \notin {"request", "body"} /\ remote' = remote
    BY <1>10, <1>f, <1>p DEF EndOfBody, TypeOK
  <2>4. \A g \in Files : /\ disk'[g] = disk[g] \/ disk'[g] = part[g]
                         /\ part'[g] = part[g] \/ part'[g] = NoFile
    BY <1>10, <2>2 DEF EndOfBody, TypeOK
  <2>5. \A g \in Files : remote[g].size >= -1
    BY BoundsAssumption DEF TypeOK
  <2>6. \A g \in Files : Prefix(disk[g]) /\ Prefix(part[g]) /\ part[g].len <= remote[g].size
    BY DEF PrefixInv
  <2> HIDE DEF Prefix
  <2>7. \A g \in Files : /\ Prefix(disk'[g]) /\ Prefix(part'[g])
                         /\ part'[g].len <= remote'[g].size
    BY <2>1, <2>3, <2>4, <2>5, <2>6
  <2> QED BY <2>3, <2>7 DEF PrefixInv, Prefix
<1>11. CASE Publish
  BY <1>11, BoundsAssumption DEF Publish, TypeOK, Versions
<1>12. CASE UNCHANGED vars
  BY <1>12 DEF vars, PrefixInv, Prefix
<1> QED
  BY <1>1, <1>2, <1>3, <1>4, <1>5, <1>6, <1>7, <1>8, <1>9, <1>10, <1>11, <1>12, <1>p
     DEF Next, Work, Fail

LEMMA InitPrefix ==
  ASSUME NEW p, Procs = {p}
  PROVE  Init => PrefixInv(p)
<1>1. Prefix(NoFile) /\ NoFile.len = -1
  BY NothingIsPrefix
<1>2. \A s : Prefix(Bytes(1, s)) /\ Bytes(1, s).len = s
  BY DEF Prefix, Bytes
<1>3. \A f \in Files : FirstSize[f] \in 0..MaxSize
  BY BundlesAssumption
<1> SUFFICES ASSUME Init PROVE PrefixInv(p)
  OBVIOUS
<1>4. \A f \in Files : Prefix(disk[f])
  BY <1>1, <1>2 DEF Init
<1>5. \A f \in Files : /\ Prefix(part[f])
                       /\ part[f].len = -1 /\ remote[f].size = FirstSize[f]
  BY <1>1 DEF Init
<1>6. \A f \in Files : part[f].len <= remote[f].size
  BY <1>3, <1>5, BoundsAssumption
<1>7. pc[p] = "idle"
  BY DEF Init
<1> QED BY <1>4, <1>5, <1>6, <1>7 DEF PrefixInv

\* One command at a time on an unchanged hub repository, with any number of
\* bundles, network errors and crashes: a set of files that is complete by its
\* sizes is the hub's, block by block, resumed transfers included.
THEOREM CompleteIsFaithfulHolds ==
  ASSUME NEW p, Procs = {p}, MaxVersion = 1
  PROVE  Spec => []CompleteIsFaithful
<1>1. TypeOK /\ PrefixInv(p) => CompleteIsFaithful
  <2> SUFFICES ASSUME TypeOK, PrefixInv(p), Complete(manifest),
                      NEW f \in Listed(manifest.want), manifest.want[f] > 0
               PROVE  disk[f] = Bytes(1, manifest.want[f])
    BY DEF CompleteIsFaithful, Versions
  <2>1. f \in Files /\ Prefix(disk[f])
    BY DEF Listed, PrefixInv
  <2>2. disk[f].len = manifest.want[f]
    BY DEF Complete, Missing
  <2> QED BY <2>1, <2>2 DEF Prefix
<1>2. TypeOK /\ PrefixInv(p) /\ [Next]_vars => PrefixInv(p)'
  BY PrefixNext
<1> QED BY <1>1, <1>2, InitPrefix, TypeCorrect, PTL DEF Spec

-----------------------------------------------------------------------------
(* What a finished pull left is never touched again. *)

\* The expected set of b in a hub repository that stays as it is.
WantOf(b) == Filtered([f \in Files |-> FirstSize[f]], b)

\* Every manifest is the one expected set; once b was prepared, nothing of it is
\* missing and its command has no file to transfer.
SettledInv(p, b) ==
  /\ \A f \in Files : remote[f].size = FirstSize[f]
  /\ Readable(manifest) => manifest.want = WantOf(b)
  /\ Readable(plan[p]) => plan[p].want = WantOf(b)
  /\ prepared # {} =>
       /\ Readable(manifest) /\ Missing(WantOf(b)) = {} /\ BundleReady(b)
       /\ pc[p] \notin Transferring

LEMMA WantOfIsFiltered ==
  ASSUME NEW b \in Bundles
  PROVE  Filtered(WantOf(b), b) = WantOf(b)
BY DEF WantOf, Filtered

\* A step that leaves the files, the manifest and what is prepared alone.
LEMMA SettledStep ==
  ASSUME TypeOK, NEW p \in Procs, NEW b \in Bundles, SettledInv(p, b),
         UNCHANGED <<remote, disk, manifest, plan, prepared>>,
         pc'[p] \in Transferring => pc[p] \in Transferring
  PROVE  SettledInv(p, b)'
<1>1. Missing(WantOf(b))' = Missing(WantOf(b))
  BY DEF Missing, Listed, Exists, WantOf, Filtered
<1>2. BundleReady(b)' = BundleReady(b)
  BY DEF BundleReady
<1>3. WantOf(b)' = WantOf(b)
  BY DEF WantOf, Filtered
<1> QED BY <1>1, <1>2, <1>3 DEF SettledInv, Readable

\* A step of a transfer: nothing is prepared yet.
LEMMA UnpreparedStep ==
  ASSUME TypeOK, NEW p \in Procs, NEW b \in Bundles, SettledInv(p, b),
         pc[p] \in Transferring, UNCHANGED <<remote, manifest, plan, prepared>>
  PROVE  SettledInv(p, b)'
<1>1. prepared' = {}
  BY DEF SettledInv
<1>2. WantOf(b)' = WantOf(b)
  BY DEF WantOf, Filtered
<1> QED BY <1>1, <1>2 DEF SettledInv, Readable

LEMMA SettledNext ==
  ASSUME NEW p, Procs = {p}, NEW b, Bundles = {b}, MaxVersion = 1
  PROVE  TypeOK /\ SoloMarkerInv(p) /\ SettledInv(p, b) /\ [Next]_vars
           => SettledInv(p, b)'
<1> SUFFICES ASSUME TypeOK, SoloMarkerInv(p), SettledInv(p, b), [Next]_vars
             PROVE  SettledInv(p, b)'
  OBVIOUS
<1> USE DEF local, shared
<1>p. p \in Procs /\ \A q \in Procs : q = p
  OBVIOUS
<1>b. b \in Bundles /\ cmd[p].bundle = b
  BY <1>p DEF TypeOK
<1>w. WantOf(b)' = WantOf(b)
  BY DEF WantOf, Filtered
\* What a command that ends well has seen.
<1>g. ASSUME UNCHANGED <<remote, disk, manifest, plan>>, pc'[p] = "idle",
             Readable(manifest), Missing(WantOf(b)) = {}, BundleReady(b)
      PROVE  SettledInv(p, b)'
  BY <1>g, <1>w DEF SettledInv, Readable, Missing, Listed, Exists, BundleReady, Transferring
<1>f. ASSUME FailAttempt(p), UNCHANGED <<remote, manifest, plan>>,
             disk' = disk \/ pc[p] \in Transferring
      PROVE  SettledInv(p, b)'
  <2>1. pc'[p] \in {"list", "idle"} /\ prepared' = prepared
    BY <1>f, <1>p DEF FailAttempt, End, TypeOK
  <2> QED BY <1>f, <2>1, <1>p, <1>b, SettledStep, UnpreparedStep DEF Transferring
<1>1. ASSUME Start(p) PROVE SettledInv(p, b)'
  <2>1. /\ UNCHANGED <<remote, disk, manifest, prepared>> /\ pc'[p] = "check"
        /\ plan'[p] = manifest
    BY <1>1, <1>p DEF Start, Begin, TypeOK
  <2> QED BY <2>1, <1>w DEF SettledInv, Readable, Missing, Listed, Exists, BundleReady,
                            Transferring
<1>2. ASSUME AcceptComplete(p) PROVE SettledInv(p, b)'
  <2>1. /\ UNCHANGED <<remote, disk, manifest, plan>> /\ pc'[p] = "idle"
        /\ prepared' = prepared \/ BundleReady(b)
    BY <1>2, <1>p, <1>b DEF AcceptComplete, End, TypeOK
  <2>2. Readable(plan[p]) /\ Missing(plan[p].want) = {} /\ manifest = plan[p]
    BY <1>2 DEF AcceptComplete, LocallyComplete, Complete, SoloMarkerInv
  <2>3. Missing(WantOf(b)) = {}
    BY <2>2 DEF SettledInv
  <2>4. CASE BundleReady(b)
    BY <2>1, <2>2, <2>3, <2>4, <1>g
  <2>5. CASE prepared' = prepared
    BY <2>1, <2>5, <1>p, <1>b, SettledStep DEF Transferring
  <2> QED BY <2>1, <2>4, <2>5
<1>3. ASSUME \/ SeemsLegacy(p) \/ LookForMarker(p) \/ WeighFiles(p)
             \/ NeedDownload(p) \/ Mark(p) \/ Crash(p)
      PROVE  SettledInv(p, b)'
  <2>1. /\ UNCHANGED <<remote, disk, manifest, plan, prepared>>
        /\ pc'[p] \in {"idle", "mark", "list", "look", "weigh"}
    BY <1>3, <1>p DEF SeemsLegacy, LookForMarker, WeighFiles, NeedDownload, Mark, Crash,
                      End, TypeOK
  <2> QED BY <2>1, <1>p, <1>b, SettledStep DEF Transferring
<1>4. ASSUME List(p) PROVE SettledInv(p, b)'
  <2>1. CASE FailAttempt(p) /\ UNCHANGED plan
    BY <1>4, <2>1, <1>f DEF List
  <2>2. CASE ~(FailAttempt(p) /\ UNCHANGED plan)
    <3> DEFINE sizes == IF ~cmd[p].pull /\ Readable(manifest)
                        THEN manifest.want ELSE [f \in Files |-> remote[f].size]
    <3>1. sizes = WantOf(b) \/ sizes = [f \in Files |-> FirstSize[f]]
      BY DEF SettledInv
    <3>2. Filtered(sizes, b) = WantOf(b)
      BY <3>1, <1>b, WantOfIsFiltered DEF WantOf
    <3>3. /\ plan' = [plan EXCEPT ![p] = [state |-> "ok", want |-> Filtered(sizes, b)]]
          /\ pc' = [pc EXCEPT ![p] = "record"]
          /\ UNCHANGED <<remote, disk, manifest, prepared>>
      BY <1>4, <2>2, <1>b DEF List
    <3> HIDE DEF sizes
    <3>4. plan'[p].want = WantOf(b) /\ pc'[p] = "record"
      BY <3>2, <3>3, <1>p DEF TypeOK
    <3> QED BY <3>3, <3>4, <1>w DEF SettledInv, Readable, Missing, Listed, Exists,
                                    BundleReady, Transferring
  <2> QED BY <2>1, <2>2
<1>5. ASSUME ListFault(p) \/ RequestFault(p) \/ BodyFault(p) \/ AllHandled(p)
             \/ RespondUnsatisfiable(p)
      PROVE  SettledInv(p, b)'
  <2>1. CASE FailAttempt(p)
    BY <1>5, <2>1, <1>f
       DEF ListFault, RequestFault, BodyFault, AllHandled, RespondUnsatisfiable
  <2>2. CASE AllHandled(p) /\ UNCHANGED prepared
    BY <2>2, <1>p, <1>b, UnpreparedStep DEF AllHandled, Transferring
  <2> QED BY <1>5, <2>1, <2>2
       DEF ListFault, RequestFault, BodyFault, AllHandled, RespondUnsatisfiable
<1>6. ASSUME Record(p) PROVE SettledInv(p, b)'
  <2>1. /\ manifest' = plan[p] /\ UNCHANGED <<remote, disk, plan, prepared>>
        /\ Readable(plan[p]) /\ plan[p].want = WantOf(b)
    BY <1>6 DEF Record, SoloMarkerInv, SettledInv
  <2>2. prepared # {} => pc'[p] = "settle"
    BY <1>6, <2>1, <1>p DEF Record, SettledInv, TypeOK
  <2> QED BY <2>1, <2>2, <1>w DEF SettledInv, Readable, Missing, Listed, Exists,
                                  BundleReady, Transferring
<1>7. ASSUME \/ SkipFile(p) \/ WriteEmpty(p) \/ PromotePart(p) \/ Request(p)
             \/ RespondWhole(p) \/ RespondPartial(p) \/ WriteBlock(p)
      PROVE  SettledInv(p, b)'
  BY <1>7, <1>p, <1>b, UnpreparedStep DEF SkipFile, WriteEmpty, PromotePart, Request,
       RespondWhole, RespondPartial, WriteBlock, Transferring
<1>8. ASSUME EndOfBody(p) PROVE SettledInv(p, b)'
  <2>1. CASE FailAttempt(p)
    BY <1>8, <2>1, <1>f DEF EndOfBody, Transferring
  <2>2. CASE UNCHANGED prepared
    BY <1>8, <2>2, <1>p, <1>b, UnpreparedStep DEF EndOfBody, Transferring
  <2> QED BY <1>8, <2>1, <2>2 DEF EndOfBody
<1>9. ASSUME Settle(p) PROVE SettledInv(p, b)'
  <2>1. /\ UNCHANGED <<remote, disk, manifest, plan>> /\ pc'[p] = "idle"
        /\ prepared' = prepared \/ BundleReady(b)
    BY <1>9, <1>p, <1>b DEF Settle, End, TypeOK
  <2>2. Readable(manifest) /\ Missing(WantOf(b)) = {}
    BY <1>9 DEF Settle, SoloMarkerInv, SettledInv, Verified
  <2>3. CASE BundleReady(b)
    BY <2>1, <2>2, <2>3, <1>g
  <2>4. CASE prepared' = prepared
    BY <2>1, <2>4, <1>p, <1>b, SettledStep DEF Transferring
  <2> QED BY <2>1, <2>3, <2>4
<1>10. CASE Publish
  BY <1>10, BoundsAssumption DEF Publish, TypeOK, Versions
<1>11. CASE UNCHANGED vars
  BY <1>11, <1>p, <1>b, SettledStep DEF vars
<1> QED
  BY <1>1, <1>2, <1>3, <1>4, <1>5, <1>6, <1>7, <1>8, <1>9, <1>10, <1>11, <1>p
     DEF Next, Work, Fail

\* One bundle, one command at a time, a hub repository that stays as it is: once
\* a pull or a check has ended well, every later command, failed, killed or not,
\* leaves the bundle runnable without the network.
THEOREM CompletedPullRunsOfflineHolds ==
  ASSUME NEW p, Procs = {p}, NEW b, Bundles = {b}, MaxVersion = 1
  PROVE  Spec => []CompletedPullRunsOffline
<1>1. Init => SoloMarkerInv(p)
  BY DEF Init, SoloMarkerInv, MarkerUntilComplete, Downloading, Transferring
<1>2. Init => SettledInv(p, b)
  BY DEF Init, SettledInv, Readable, NoManifest
<1>3. TypeOK /\ SettledInv(p, b) => CompletedPullRunsOffline
  BY DEF SettledInv, CompletedPullRunsOffline, RunsOffline, Complete, TypeOK
<1>4. TypeOK /\ SoloMarkerInv(p) /\ [Next]_vars => SoloMarkerInv(p)'
  BY SoloMarkerNext
<1>5. TypeOK /\ SoloMarkerInv(p) /\ SettledInv(p, b) /\ [Next]_vars => SettledInv(p, b)'
  BY SettledNext
<1> QED BY <1>1, <1>2, <1>3, <1>4, <1>5, TypeCorrect, PTL DEF Spec

-----------------------------------------------------------------------------
(* Two commands: what the legacy path of one accepts. *)

\* From the start of a command to the end of its legacy path.
Looking == {"check", "look", "weigh"}

\* While a command that read no manifest looks at the directory, the other one
\* keeps the marker as if it were alone.
LegacyInv ==
  /\ \A p \in Procs : pc[p] \in Downloading => begun
  /\ \A p \in Procs : pc[p] \in {"look", "weigh"} => plan[p].state = "none"
  /\ \A p, q \in Procs :
       p # q /\ pc[p] \in Looking /\ plan[p].state = "none" => SoloMarkerInv(q)

LEMMA BegunStep ==
  ASSUME TypeOK, LegacyInv, [Next]_vars, NEW q \in Procs, pc'[q] \in Downloading
  PROVE  begun'
<1> USE DEF local, shared, Downloading
<1>1. begun => begun'
  BY DEF Next, Start, Begin, Work, AcceptComplete, SeemsLegacy, LookForMarker, WeighFiles,
     NeedDownload, Mark, List,
     Record, SkipFile, WriteEmpty, PromotePart, Request, RespondWhole, RespondPartial,
     RespondUnsatisfiable, WriteBlock, EndOfBody, AllHandled, Settle, Fail, ListFault,
     RequestFault, BodyFault, Crash, Publish, vars
<1>2. CASE pc[q] \in Downloading
  BY <1>1, <1>2 DEF LegacyInv
<1>3. CASE pc[q] \notin Downloading
  <2>1. CASE \E p \in Procs : Mark(p)
    BY <2>1 DEF Mark
  <2>2. ASSUME NEW p \in Procs, \/ Start(p) \/ AcceptComplete(p) \/ SeemsLegacy(p)
                                \/ LookForMarker(p) \/ WeighFiles(p)
                                \/ NeedDownload(p) \/ Crash(p)
        PROVE  FALSE
    BY <2>2, <1>3 DEF Start, Begin, AcceptComplete, SeemsLegacy, LookForMarker, WeighFiles,
                      NeedDownload, Crash, End, TypeOK
  <2>3. ASSUME NEW p \in Procs, pc[p] \in Downloading,
               \/ pc' = pc
               \/ \E s \in Steps : pc' = [pc EXCEPT ![p] = s]
        PROVE  FALSE
    BY <2>3, <1>3 DEF TypeOK
  <2>4. ASSUME NEW p \in Procs,
               \/ List(p) \/ Record(p) \/ SkipFile(p) \/ WriteEmpty(p)
               \/ PromotePart(p) \/ Request(p) \/ RespondWhole(p) \/ RespondPartial(p)
               \/ RespondUnsatisfiable(p) \/ WriteBlock(p) \/ EndOfBody(p)
               \/ AllHandled(p) \/ Settle(p) \/ ListFault(p) \/ RequestFault(p)
               \/ BodyFault(p)
        PROVE  FALSE
    <3>1. pc[p] \in Downloading
      BY <2>4 DEF List, Record, SkipFile, WriteEmpty, PromotePart, Request, RespondWhole,
         RespondPartial, RespondUnsatisfiable, WriteBlock, EndOfBody, AllHandled, Settle,
         ListFault, RequestFault, BodyFault
    <3>2. \/ pc' = pc
          \/ \E s \in Steps : pc' = [pc EXCEPT ![p] = s]
      BY <2>4 DEF List, Record, SkipFile, WriteEmpty, PromotePart, Request, RespondWhole,
         RespondPartial, RespondUnsatisfiable, WriteBlock, EndOfBody, AllHandled, Settle,
         ListFault, RequestFault, BodyFault, FailAttempt, End, Steps
    <3> QED BY <3>1, <3>2, <2>3
  <2>5. CASE Publish \/ UNCHANGED vars
    BY <2>5, <1>3 DEF Publish, vars
  <2> QED BY <2>1, <2>2, <2>4, <2>5 DEF Next, Work, Fail
<1> QED BY <1>2, <1>3

\* A step of p leaves every other command where it is; p looks at the directory
\* once, from its start on.
LEMMA OwnStep ==
  ASSUME TypeOK, NEW p \in Procs, Start(p) \/ Work(p) \/ Fail(p)
  PROVE  /\ \A q \in Procs : q # p => pc'[q] = pc[q] /\ plan'[q] = plan[q]
         /\ ~(Start(p) \/ SeemsLegacy(p) \/ LookForMarker(p)) => pc'[p] \notin Looking
<1> USE DEF local, shared, TypeOK, Looking
<1>1. CASE Start(p)
  BY <1>1 DEF Start, Begin
<1>f. ASSUME FailAttempt(p)
      PROVE  /\ \A q \in Procs : q # p => pc'[q] = pc[q]
             /\ pc'[p] \notin Looking
  BY <1>f DEF FailAttempt, End
<1>2. CASE \/ AcceptComplete(p) \/ SeemsLegacy(p) \/ LookForMarker(p) \/ WeighFiles(p)
           \/ NeedDownload(p) \/ Mark(p)
           \/ Record(p) \/ SkipFile(p) \/ WriteEmpty(p) \/ PromotePart(p)
  BY <1>2 DEF AcceptComplete, SeemsLegacy, LookForMarker, WeighFiles, NeedDownload, Mark,
              Record, SkipFile, WriteEmpty, PromotePart, End
<1>3. CASE \/ Request(p) \/ RespondWhole(p) \/ RespondPartial(p) \/ WriteBlock(p)
           \/ Settle(p) \/ Crash(p)
  BY <1>3 DEF Request, RespondWhole, RespondPartial, WriteBlock, Settle, Crash, End
<1>4. CASE List(p)
  BY <1>4, <1>f DEF List
<1>5. CASE \/ ListFault(p) \/ RequestFault(p) \/ BodyFault(p) \/ RespondUnsatisfiable(p)
  BY <1>5, <1>f DEF ListFault, RequestFault, BodyFault, RespondUnsatisfiable
<1>6. CASE EndOfBody(p)
  BY <1>6, <1>f DEF EndOfBody
<1>7. CASE AllHandled(p)
  BY <1>7, <1>f DEF AllHandled
<1> QED BY <1>1, <1>2, <1>3, <1>4, <1>5, <1>6, <1>7 DEF Work, Fail

\* What a command on its legacy path has read does not change.
LEMMA LegacyPlan ==
  ASSUME TypeOK, LegacyInv, [Next]_vars, NEW p \in Procs, pc'[p] \in {"look", "weigh"}
  PROVE  plan'[p].state = "none"
<1> USE DEF local, shared
<1>1. CASE Publish \/ UNCHANGED vars
  BY <1>1 DEF Publish, vars, LegacyInv
<1>2. CASE \E q \in Procs : q # p /\ (Start(q) \/ Work(q) \/ Fail(q))
  BY <1>2, OwnStep DEF LegacyInv
<1>3. CASE SeemsLegacy(p) \/ LookForMarker(p)
  BY <1>3 DEF SeemsLegacy, LookForMarker, MaybeLegacy, LegacyInv
<1>4. CASE Start(p)
  BY <1>4 DEF Start, Begin, TypeOK
<1>5. CASE (Work(p) \/ Fail(p)) /\ ~(Start(p) \/ SeemsLegacy(p) \/ LookForMarker(p))
  BY <1>5, OwnStep DEF Looking
<1> QED BY <1>1, <1>2, <1>3, <1>4, <1>5 DEF Next

\* What p sees at its start of the other command's work.
LEMMA LegacyStart ==
  ASSUME TypeOK, NeverLegacyInv, LegacyInv, NEW p \in Procs, NEW q \in Procs, p # q,
         Start(p), plan'[p].state = "none"
  PROVE  SoloMarkerInv(q)'
<1> USE DEF local, shared
<1>1. /\ manifest.state = "none" /\ UNCHANGED <<disk, manifest, marker, begun>>
      /\ pc'[q] = pc[q] /\ plan'[q] = plan[q]
  BY DEF Start, Begin, TypeOK
<1>2. begun => marker
  BY <1>1 DEF NeverLegacyInv, InterruptedNeverLooksLegacy
<1>3. ~(pc[q] = "check" /\ Readable(plan[q])) /\ pc[q] \notin Transferring \cup {"settle"}
  BY <1>1 DEF NeverLegacyInv, ManifestKept, Transferring
<1>4. pc[q] = "record" => Readable(plan[q])
  BY DEF NeverLegacyInv, ManifestKept
<1>5. pc[q] \in Downloading => marker
  BY <1>2 DEF LegacyInv
<1> QED BY <1>1, <1>2, <1>3, <1>4, <1>5 DEF SoloMarkerInv, MarkerUntilComplete, Readable,
                                        Transferring

\* Looking at the directory changes nothing of the other command's.
LEMMA LegacyLook ==
  ASSUME TypeOK, NEW p \in Procs, NEW q \in Procs, p # q, SoloMarkerInv(q),
         SeemsLegacy(p) \/ LookForMarker(p)
  PROVE  SoloMarkerInv(q)'
<1>1. /\ UNCHANGED <<disk, manifest, marker, begun, plan>> /\ pc'[q] = pc[q]
  BY DEF SeemsLegacy, LookForMarker, TypeOK, shared
<1> QED BY <1>1 DEF SoloMarkerInv, MarkerUntilComplete, Complete, Verified, Missing, Listed,
                    Exists, Readable

LEMMA LegacyNext ==
  ASSUME NEW r, NEW t, r # t, Procs = {r, t}
  PROVE  TypeOK /\ NeverLegacyInv /\ LegacyInv /\ [Next]_vars => LegacyInv'
<1> SUFFICES ASSUME TypeOK, NeverLegacyInv, LegacyInv, [Next]_vars,
                    NEW p \in Procs, NEW q \in Procs, p # q,
                    pc'[p] \in Looking, plan'[p].state = "none"
             PROVE  SoloMarkerInv(q)'
  BY BegunStep, LegacyPlan DEF LegacyInv
<1> USE DEF local, shared
<1>1. CASE Publish \/ UNCHANGED vars
  <2>1. pc[p] \in Looking /\ plan[p].state = "none"
    BY <1>1 DEF Publish, vars
  <2> QED BY <1>1, <2>1, SoloMarkerStep DEF LegacyInv
<1>2. CASE Start(q) \/ Work(q) \/ Fail(q)
  <2>1. pc[p] \in Looking /\ plan[p].state = "none"
    BY <1>2, OwnStep
  <2> QED BY <1>2, <2>1, SoloMarkerStep DEF LegacyInv
<1>3. CASE Start(p)
  BY <1>3, LegacyStart
<1>4. CASE SeemsLegacy(p) \/ LookForMarker(p)
  <2>1. pc[p] \in Looking /\ plan[p].state = "none"
    BY <1>4 DEF SeemsLegacy, LookForMarker, MaybeLegacy, Looking, LegacyInv
  <2>2. SoloMarkerInv(q)
    BY <2>1 DEF LegacyInv
  <2> QED BY <1>4, <2>2, LegacyLook
<1>5. CASE (Work(p) \/ Fail(p)) /\ ~(Start(p) \/ SeemsLegacy(p) \/ LookForMarker(p))
  BY <1>5, OwnStep
<1> QED BY <1>1, <1>2, <1>3, <1>4, <1>5 DEF Next

\* Two commands at a time on one destination, with faults, crashes and
\* republished files: a run that read no manifest and then finds no marker,
\* although a download has begun, finds what that download completed; and what it
\* accepts of a download begun since then, the marker or a complete manifest covers.
THEOREM LegacyPathIsGuardedHolds ==
  ASSUME NEW r, NEW t, r # t, Procs = {r, t}
  PROVE  Spec => LegacyPathIsGuarded
<1>1. Init => NeverLegacyInv /\ LegacyInv
  BY DEF Init, NeverLegacyInv, InterruptedNeverLooksLegacy, ManifestKept, LegacyInv,
         Downloading, Looking
<1>2. TypeOK /\ NeverLegacyInv /\ LegacyInv /\ [Next]_vars
        => [\A p \in Procs : begun =>
              /\ pc[p] = "look" /\ pc'[p] = "weigh" => Complete(manifest)
              /\ pc[p] = "weigh" /\ outcome'[p] = "legacy" =>
                   marker \/ Complete(manifest)]_vars
  <2> SUFFICES ASSUME TypeOK, LegacyInv, [Next]_vars, NEW p \in Procs, begun,
                      pc[p] \in {"look", "weigh"}
               PROVE  /\ pc[p] = "look" /\ pc'[p] = "weigh" => ~marker
                      /\ marker \/ Complete(manifest)
    OBVIOUS
  <2>1. PICK q \in Procs : q # p
    OBVIOUS
  <2>2. SoloMarkerInv(q)
    BY <2>1 DEF LegacyInv, Looking
  <2>3. marker \/ Complete(manifest)
    BY <2>2 DEF SoloMarkerInv, MarkerUntilComplete
  <2>4. ASSUME pc[p] = "look", pc'[p] = "weigh" PROVE ~marker
    <3>1. ~(Publish \/ UNCHANGED vars)
      BY <2>4 DEF Publish, vars, local
    <3>2. Start(p) \/ Work(p) \/ Fail(p)
      BY <2>4, <3>1, OwnStep DEF Next
    <3>3. LookForMarker(p)
      BY <2>4, <3>2, OwnStep DEF Looking, Start, Begin, SeemsLegacy
    <3> QED BY <2>4, <3>3 DEF LookForMarker, Unmarked, TypeOK
  <2> QED BY <2>3, <2>4
<1>3. TypeOK /\ NeverLegacyInv /\ LegacyInv /\ [Next]_vars => LegacyInv'
  BY LegacyNext
<1> QED BY <1>1, <1>2, <1>3, TypeCorrect, NeverLegacyNext, PTL
           DEF Spec, LegacyPathIsGuarded
=============================================================================
