------------------------------ MODULE MCOwners ------------------------------
(* Small instances of what a credential owner does: attachments of two     *)
(* keys that compete for one seat, refresh tokens of two grants older than *)
(* the index, device authorization and service-account exchanges.  These   *)
(* models share no state, so a behaviour picks one part and runs it alone; *)
(* the others keep one of their initial states.                            *)
EXTENDS GrantAttachments, RefreshOwnership, DeviceFlow, VertexRefresh, Sequences

CONSTANTS k1, k2, p1, t1, t2, c1, c2, c3, e1, e2, e3

VARIABLE part

(* Handlers and tokens are interchangeable: the first grant has the first  *)
(* token, and handlers start in order.                                     *)
InOrder(order, idle) ==
  \A i \in 2..Len(order) : order[i] \notin idle => order[i - 1] \notin idle
DevicesInOrder == InOrder(<<c1, c2, c3>>, {c \in Calls : call[c].pc = "idle"})
ExchangesInOrder == InOrder(<<e1, e2, e3>>, {c \in Exchanges : vcall[c].pc = "idle"})
(* The keys compete for a seat through their administration; only the      *)
(* second is also used.  Three generations between them leave a stale call *)
(* a newer one to be mistaken for.                                         *)
Competing == /\ work[k1].goal # "use"
             /\ owner[k1].generation + owner[k2].generation <= 3

(* A token that the provider gives up by itself counts as the one fault.   *)
OneMishap == faults = 0 \/ issued \subseteq valid \cup spent

OwnersInit ==
  /\ part \in {"attachments", "ownership", "device", "vertex"}
  /\ AttachInit /\ Init /\ DeviceInit /\ VertexInit
  /\ t1 \in {rec[k1].token, kvToken[k1]}
  /\ part # "ownership" => kvToken = [k \in Keys |-> t1]
  /\ part # "device" => flow = "minimax"
  /\ part # "vertex" => vrow.key = 1

OwnersNext ==
  \/ /\ part = "attachments" /\ AttachNext /\ Competing'
     /\ UNCHANGED <<part, vars, deviceVars, vertexVars>>
  \/ /\ part = "ownership" /\ Next /\ OneMishap'
     /\ UNCHANGED <<part, attachVars, deviceVars, vertexVars>>
  \/ /\ part = "device" /\ DeviceNext /\ DevicesInOrder'
     /\ UNCHANGED <<part, attachVars, vars, vertexVars>>
  \/ /\ part = "vertex" /\ VertexNext /\ ExchangesInOrder'
     /\ UNCHANGED <<part, attachVars, vars, deviceVars>>

OwnersSpec ==
  OwnersInit /\ [][OwnersNext]_<<part, attachVars, vars, deviceVars, vertexVars>>
=============================================================================
