--------------------------- MODULE InferenceSlot ---------------------------
(***************************************************************************)
(* What the inference gate of `serve` promises to chat completions: the    *)
(* slot is given to one request at a time, only its owner gives it back,   *)
(* it goes to a request that waits whenever there is one, and a request is *)
(* turned away only while another owns the slot, or when it gives up what  *)
(* it has just been given.  ServeGate, the detailed module, is shown to    *)
(* implement Spec.                                                         *)
(***************************************************************************)
CONSTANTS Requests, NoOne

VARIABLES owner, stage

vars == <<owner, stage>>

Init ==
  /\ owner = NoOne
  /\ stage = [r \in Requests |-> "idle"]

Move(r, from, to) ==
  /\ stage[r] = from
  /\ stage' = [stage EXCEPT ![r] = to]

(* The owner leaves; the slot is given to a request that waits for it. *)
Leave(r, from) ==
  /\ stage[r] = from
  /\ owner = r
  /\ \/ \E w \in Requests :
           /\ stage[w] = "waiting"
           /\ owner' = w
           /\ stage' = [stage EXCEPT ![r] = "over", ![w] = "given"]
     \/ /\ \A w \in Requests : stage[w] # "waiting"
        /\ owner' = NoOne
        /\ stage' = [stage EXCEPT ![r] = "over"]

Ask(r)      == Move(r, "idle", "waiting") /\ owner # NoOne /\ UNCHANGED owner
Take(r)     == Move(r, "idle", "given") /\ owner = NoOne /\ owner' = r
Invalid(r)  == Move(r, "idle", "over") /\ UNCHANGED owner
Enter(r)    == Move(r, "given", "holding") /\ owner = r /\ UNCHANGED owner
TurnAway(r) == Move(r, "waiting", "over") /\ owner \notin {r, NoOne} /\ UNCHANGED owner
GiveUp(r)   == Leave(r, "given")
GiveBack(r) == Leave(r, "holding")

Next ==
  \E r \in Requests :
     \/ Ask(r) \/ Take(r) \/ Invalid(r) \/ Enter(r)
     \/ TurnAway(r) \/ GiveUp(r) \/ GiveBack(r)

Spec == Init /\ [][Next]_vars
=============================================================================
