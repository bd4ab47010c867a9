------------------------------ MODULE MCGrants ------------------------------
(* Small instances of what the authority knows of grants: the index of     *)
(* attachments, and the merged observations of quota and cooldown.  They   *)
(* share no state, so a behaviour picks one part and runs it alone; the    *)
(* other keeps an initial state.                                           *)
EXTENDS MCGrantAttachments, GrantRuntime

VARIABLE part

Observers(who, reports, cools, bounds) ==
  [who |-> who, reports |-> reports, cools |-> cools, ticks |-> bounds[1],
   edits |-> bounds[2], losses |-> bounds[3], sightings |-> 3]

(* Isolate "i" coalesces, "j" writes at once.  Readings of headers against *)
(* a poll; a new revision; a lost write or isolate; a poll that refreshes  *)
(* the grant; both kinds of upkeep; rejections against quota readings.     *)
Readings == Observers({"i", "poll"}, {{"p"}}, {}, <<3, 1, 0>>)
RuntimeCasts ==
  {Readings,
   Observers({"i", "j"}, {{"a"}}, {}, <<2, 2, 0>>),
   Observers({"i", "j"}, {{"a"}}, {1}, <<2, 1, 1>>),
   Observers({"j", "poll"}, {{"p"}}, {}, <<2, 2, 0>>),
   Observers({"poll", "warm"}, {{"a"}}, {1}, <<2, 1, 0>>),
   Observers({"j", "poll"}, {{"a"}}, {1, 2}, <<2, 1, 0>>),
   Observers({"i"}, {{"a"}}, {1}, <<3, 1, 0>>)}

GrantsInit ==
  /\ part \in {"index", "runtime"}
  /\ AttachInit /\ RuntimeInit
  /\ part # "runtime" => cast = Readings
  /\ part # "index" => index[k1] = Blank

GrantsNext ==
  \/ part = "index" /\ AttachNext /\ UNCHANGED <<part, runtimeVars>>
  \/ part = "runtime" /\ RuntimeNext /\ UNCHANGED <<part, attachVars>>

GrantsSpec ==
  GrantsInit /\ [][GrantsNext]_<<part, attachVars, runtimeVars>> /\ AttachFairness
=============================================================================
