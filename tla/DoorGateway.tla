--------------------------- MODULE DoorGateway ---------------------------
(***************************************************************************)
(* What the door controller relies on when it calls a DoorGateway from a   *)
(* worker thread (asyncio.to_thread): the call runs on its own, it may be  *)
(* overtaken by the door moving by itself, an action takes effect at most  *)
(* once, and the call ends with a status or an exception.                  *)
(*                                                                         *)
(* The door itself (mechanics and vendor cloud) is `vendor': the data a    *)
(* GET would return now, stamped with the number of changes so far.  The   *)
(* stamp is not in the code; it lets properties say which of two statuses  *)
(* is older.  Omlet's service is assumed to answer a GET with the data it  *)
(* has at some moment between request and response.                        *)
(***************************************************************************)
EXTENDS DoorTypes

CONSTANTS Callers,      \* threads that may call the gateway
          VendorData,   \* the door states the vendor can report
          MaxEpoch      \* bound on the number of changes of the door

ASSUME VendorDataAssumption == VendorData \subseteq StatusData
                               /\ VendorData # {}
ASSUME MaxEpochAssumption == MaxEpoch \in Nat

VARIABLES vendor,       \* [data, epoch] the door as the vendor sees it
          call          \* the gateway call each caller has under way

gatewayVars == <<vendor, call>>

Status == [data : StatusData, epoch : Nat]

GatewayActions == {"open", "close", "stop"}
GatewayOps == GatewayActions \cup {"get_state"}

(* The vendor's word for an action under way, action.pending, as a door    *)
(* position; a word the bridge does not know is unknown.                   *)
PendingPositions(op) == {"unknown",
                         CASE op = "open"  -> "openpending"
                           [] op = "close" -> "closepending"
                           [] op = "stop"  -> "stopping"}

(* A call: acted says that the action took effect, since is the epoch it   *)
(* must not report older than (its own effect, or else its start), result  *)
(* is {status} or, for an exception, {}.                                   *)
Call == [phase : {"idle", "running", "returned"}, op : GatewayOps,
         acted : BOOLEAN, since : Nat, result : Option(Status)]

NoCall == [phase |-> "idle", op |-> "get_state", acted |-> FALSE,
           since |-> 0, result |-> {}]

GatewayTypeOK == /\ vendor \in Status
                 /\ call \in [Callers -> Call]

GatewayInit == /\ vendor \in [data : VendorData, epoch : {0}]
               /\ call = [p \in Callers |-> NoCall]

---------------------------------------------------------------------------
Running(p) == call[p].phase = "running"

MoveDoor(d) == /\ vendor.epoch < MaxEpoch
               /\ vendor' = [data |-> d, epoch |-> vendor.epoch + 1]

(* The door moves by itself, or a request whose caller gave up still       *)
(* reaches it.  A change need not show in the data.                        *)
VendorMoves == /\ \E d \in VendorData : MoveDoor(d)
               /\ UNCHANGED call

Invoke(p, op) == /\ call[p].phase = "idle"
                 /\ call' = [call EXCEPT ![p] =
                       [phase |-> "running", op |-> op, acted |-> FALSE,
                        since |-> vendor.epoch, result |-> {}]]
                 /\ UNCHANGED vendor

(* The vendor carries the action out.                                      *)
TakeEffect(p) == /\ Running(p)
                 /\ call[p].op \in GatewayActions
                 /\ ~call[p].acted
                 /\ \E d \in VendorData : MoveDoor(d)
                 /\ call' = [call EXCEPT ![p].acted = TRUE,
                                         ![p].since = vendor.epoch + 1]

Return(p, result) == /\ call' = [call EXCEPT ![p].phase = "returned",
                                             ![p].result = result]
                     /\ UNCHANGED vendor

(* The status of the device, read after the action if there is one.        *)
ReturnStatus(p) == /\ Running(p)
                   /\ call[p].op = "get_state" \/ call[p].acted
                   /\ Return(p, {vendor})

(* The action succeeded and only the refresh failed.                       *)
ReturnPending(p) == /\ Running(p)
                    /\ call[p].acted
                    /\ \E q \in PendingPositions(call[p].op) :
                         Return(p, {[data |-> BareStatus(q), epoch |-> call[p].since]})

(* An exception: it says nothing of whether the action took effect.        *)
Raise(p) == Running(p) /\ Return(p, {})

Answer(p) == ReturnStatus(p) \/ ReturnPending(p) \/ Raise(p)

(* The caller takes the answer.                                            *)
Collect(p) == /\ call[p].phase = "returned"
              /\ call' = [call EXCEPT ![p] = NoCall]
              /\ UNCHANGED vendor

---------------------------------------------------------------------------
GatewayNext == \/ VendorMoves
               \/ \E p \in Callers : \/ \E op \in GatewayOps : Invoke(p, op)
                                     \/ TakeEffect(p) \/ Answer(p) \/ Collect(p)

GatewaySpec == GatewayInit /\ [][GatewayNext]_gatewayVars

(* A returned status is never older than the action the call carried out,  *)
(* nor than the start of the call.                                         *)
AnswerIsFresh == \A p \in Callers : \A s \in call[p].result :
                    call[p].since <= s.epoch /\ s.epoch <= vendor.epoch
===========================================================================
