----------------------------- MODULE MCSessions -----------------------------
(* Small instances of the two kinds of WebSocket sessions.  They share no  *)
(* state, so a behaviour picks one kind and runs it alone; the other keeps *)
(* its initial state.                                                      *)
EXTENDS ResponsesSession, RealtimeSession

CONSTANTS c1, c2, c3, la, lb

VARIABLE part

(* What the client sends: two creates on one lane or on two, or three on   *)
(* one lane.  A calm client never interrupts.                              *)
Sends(first, second, third, calm) ==
  [lane |-> [c \in Creates |-> CASE c = c1 -> first [] c = c2 -> second [] OTHER -> third],
   calm |-> calm]
Conversations == {Sends(la, la, NoLane, FALSE), Sends(la, lb, NoLane, TRUE),
                  Sends(la, la, la, TRUE)}

SessionsInit ==
  /\ part \in {"responses", "realtime"}
  /\ SessionInit /\ RealtimeInit
  /\ part # "responses" => script = Sends(la, lb, NoLane, TRUE)

SessionsNext ==
  \/ part = "responses" /\ SessionNext /\ UNCHANGED <<part, realtimeVars>>
  \/ part = "realtime" /\ RealtimeNext /\ UNCHANGED <<part, sessionVars>>

(* Nothing is owed by a session that nobody has used, so the fairness of   *)
(* the kind that does not run is vacuous.                                  *)
SessionsSpec ==
  /\ SessionsInit /\ [][SessionsNext]_<<part, sessionVars, realtimeVars>>
  /\ SessionFairness /\ RealtimeFairness

(* A session that ended or closed, by whichever side and in whichever      *)
(* state, gives back and settles all it held.                              *)
SessionsSettle == EndedDrains /\ ClosedSettles
=============================================================================
