-------------------------- MODULE ControlProofs ---------------------------
(***************************************************************************)
(* Theorems about what stands before a request's dispatch, for any number  *)
(* of callers, isolates, requests and units, any ages and limits:          *)
(* submission tickets (Submissions), the soft budget check (SoftBudget),   *)
(* budget overrides (BudgetCaps), proxy keys (CredentialAuthority), the    *)
(* admission cache (AdmissionCache) and the funding of a Realtime          *)
(* session's units (RealtimeSession).                                      *)
(***************************************************************************)
EXTENDS Submissions, SoftBudget, BudgetCaps, CredentialAuthority, AdmissionCache, RealtimeSession,
        FiniteSetTheorems, TLAPS

(***************************************************************************)
(* Submission tickets.  Claims are numbered and never reused, so a request *)
(* whose claim is current brought the bundle the ticket names.             *)
(***************************************************************************)
Tickets == [state : {"ready", "claimed", "consumed", "gone"}, digest : Bundles \cup {NoBundle},
            claim : Nat, last : Nat, receipt : Bundles \cup {NoBundle}, expired : BOOLEAN]
Submitted == [pc : {"idle", "claimed", "stored", "releasing", "accepted", "recovered", "failed",
                    "expired", "denied"},
              digest : Bundles \cup {NoBundle}, claim : Nat, receipt : Bundles \cup {NoBundle}]

ClaimHeld(c) ==
  sub[c].pc \in {"claimed", "stored", "releasing"} =>
    /\ sub[c].digest \in Bundles
    /\ sub[c].claim <= ticket.last
    /\ Current(c) => ticket.digest = sub[c].digest
    /\ sub[c].pc = "stored" => sub[c].digest \in installed

TicketAnswered(c) == sub[c].pc \in {"accepted", "recovered"}
AnswerHeld(c) ==
  TicketAnswered(c) =>
    /\ sub[c].receipt = sub[c].digest /\ sub[c].receipt \in installed
    /\ ticket.state = "gone" \/ (ticket.state = "consumed" /\ ticket.receipt = sub[c].receipt)

TicketHeld ==
  /\ TicketTypeOK
  /\ ticket.claim <= ticket.last /\ ticket.last <= MaxClaims
  /\ ticket.state = "gone" => ticket.expired
  /\ ticket.state = "consumed" => ticket.receipt = ticket.digest /\ ticket.receipt \in installed

SubmitTyped ==
  ticket \in Tickets /\ sub \in [Contributions -> Submitted] /\ installed \subseteq Bundles

TicketInv ==
  /\ SubmitTyped /\ TicketHeld
  /\ \A c \in Contributions : ClaimHeld(c) /\ AnswerHeld(c)
  /\ \A c, e \in Contributions : TicketAnswered(c) /\ TicketAnswered(e) => sub[c].receipt = sub[e].receipt

LEMMA TicketInit == SubmitInit => TicketInv
<1> SUFFICES ASSUME SubmitInit PROVE TicketInv
  OBVIOUS
<1> USE SubmissionsType
<1>1. SubmitTyped
  BY DEF SubmitInit, SubmitTyped, Tickets, Submitted
<1>2. TicketHeld
  BY DEF SubmitInit, TicketHeld, TicketTypeOK
<1>3. ASSUME NEW c \in Contributions PROVE sub[c].pc = "idle"
  BY DEF SubmitInit
<1> QED
  BY <1>1, <1>2, <1>3 DEF TicketInv, ClaimHeld, AnswerHeld, TicketAnswered

(* A request moves and the ticket stays.                                   *)
LEMMA TicketStays ==
  ASSUME TicketInv, NEW c \in Contributions, ticket' = ticket,
         sub' \in [Contributions -> Submitted],
         \A e \in Contributions \ {c} : sub'[e] = sub[e],
         installed \subseteq installed', installed' \subseteq Bundles,
         sub'[c].pc \in {"claimed", "stored", "releasing"} => ClaimHeld(c)',
         sub'[c].pc # "accepted",
         sub'[c].pc = "recovered" =>
            /\ ticket.state = "consumed"
            /\ sub'[c].receipt = ticket.receipt /\ sub'[c].digest = ticket.receipt
  PROVE  TicketInv'
<1>1. SubmitTyped' /\ TicketHeld'
  BY DEF TicketInv, SubmitTyped, TicketHeld, TicketTypeOK
<1>2. ASSUME NEW e \in Contributions PROVE ClaimHeld(e)' /\ AnswerHeld(e)'
  <2>1. CASE e = c
    BY <2>1 DEF TicketInv, TicketHeld, ClaimHeld, AnswerHeld, TicketAnswered
  <2>2. CASE e # c
    BY <2>2 DEF TicketInv, ClaimHeld, AnswerHeld, TicketAnswered, Current
  <2> QED
    BY <2>1, <2>2
<1>3. ASSUME NEW d \in Contributions, NEW e \in Contributions, TicketAnswered(d)', TicketAnswered(e)'
      PROVE  sub'[d].receipt = sub'[e].receipt
  <2>1. d # c => TicketAnswered(d) /\ sub'[d].receipt = sub[d].receipt
    BY <1>3 DEF TicketAnswered
  <2>2. e # c => TicketAnswered(e) /\ sub'[e].receipt = sub[e].receipt
    BY <1>3 DEF TicketAnswered
  <2>3. (d = c \/ e = c) => ticket.state = "consumed" /\ sub'[c].receipt = ticket.receipt
    BY <1>3 DEF TicketAnswered
  <2>4. \A x \in Contributions :
           TicketAnswered(x) /\ ticket.state = "consumed" => sub[x].receipt = ticket.receipt
    BY DEF TicketInv, AnswerHeld
  <2> QED
    BY <2>1, <2>2, <2>3, <2>4 DEF TicketInv
<1> QED
  BY <1>1, <1>2, <1>3 DEF TicketInv

LEMMA ClaimStep ==
  ASSUME TicketInv, NEW c \in Contributions, NEW d \in Bundles, Claim(c, d)
  PROVE  TicketInv'
<1> USE SubmissionsType
<1>1. /\ ticket \in Tickets /\ sub \in [Contributions -> Submitted] /\ sub[c] \in Submitted
      /\ UNCHANGED <<slot, installed>> /\ installed \subseteq Bundles /\ TicketHeld
  BY DEF Claim, TicketInv, SubmitTyped
<1>2. ASSUME ticket' = ticket, NEW pc \in {"failed", "expired", "denied"}, SubmitEnds(c, pc)
      PROVE  TicketInv'
  <2>1. /\ sub' \in [Contributions -> Submitted] /\ sub'[c].pc = pc
        /\ \A e \in Contributions \ {c} : sub'[e] = sub[e]
    BY <1>1, <1>2 DEF SubmitEnds, Submitted
  <2> QED
    BY <1>1, <1>2, <2>1, TicketStays
<1>3. ASSUME ticket' = ticket, ticket.state = "consumed", SameBundle(d),
             sub' = [sub EXCEPT ![c] = [@ EXCEPT !.pc = "recovered", !.digest = d,
                                                 !.receipt = ticket.receipt]]
      PROVE  TicketInv'
  <2>1. /\ sub' \in [Contributions -> Submitted] /\ sub'[c].pc = "recovered"
        /\ sub'[c].receipt = ticket.receipt /\ sub'[c].digest = d
        /\ \A e \in Contributions \ {c} : sub'[e] = sub[e]
    BY <1>1, <1>3 DEF Submitted, Tickets
  <2>2. d = ticket.receipt
    BY <1>1, <1>3 DEF TicketHeld, SameBundle
  <2> QED
    BY <1>1, <1>3, <2>1, <2>2, TicketStays
<1>4. ASSUME ticket' = ticket, ticket.state = "claimed", SameBundle(d),
             sub' = [sub EXCEPT ![c] = [@ EXCEPT !.pc = "claimed", !.digest = d,
                                                 !.claim = ticket.claim]]
      PROVE  TicketInv'
  <2>1. /\ sub' \in [Contributions -> Submitted] /\ sub'[c].pc = "claimed"
        /\ sub'[c].claim = ticket.claim /\ sub'[c].digest = d
        /\ \A e \in Contributions \ {c} : sub'[e] = sub[e]
    BY <1>1, <1>4 DEF Submitted, Tickets
  <2>2. ClaimHeld(c)'
    BY <1>1, <1>4, <2>1 DEF ClaimHeld, SameBundle, TicketHeld
  <2> QED
    BY <1>1, <1>4, <2>1, <2>2, TicketStays
<1>5. ASSUME ticket.state = "ready", ticket.last < MaxClaims,
             ticket' = [ticket EXCEPT !.state = "claimed", !.digest = d,
                                      !.claim = ticket.last + 1, !.last = @ + 1],
             ClaimGranted(c, d, ticket.last + 1)
      PROVE  TicketInv'
  <2>0. ticket.last \in Nat /\ \E n \in Nat : n = ticket.last + 1
    BY <1>1 DEF Tickets
  <2> PICK n \in Nat : n = ticket.last + 1
    BY <2>0
  <2>1. /\ ticket' \in Tickets /\ ticket'.state = "claimed" /\ ticket'.digest = d
        /\ ticket'.claim = n /\ ticket'.last = n /\ ticket'.receipt = ticket.receipt
    <3>1. ticket' = [ticket EXCEPT !.state = "claimed", !.digest = d, !.claim = n, !.last = n]
      BY <1>5
    <3> QED
      BY <1>1, <3>1 DEF Tickets
  <2>2. /\ sub' \in [Contributions -> Submitted]
        /\ \A e \in Contributions \ {c} : sub'[e] = sub[e]
        /\ \/ sub'[c].pc = "claimed" /\ sub'[c].digest = d /\ sub'[c].claim = n
           \/ sub'[c].pc = "failed"
    <3>1. \/ sub' = [sub EXCEPT ![c] = [@ EXCEPT !.pc = "claimed", !.digest = d, !.claim = n]]
          \/ sub' = [sub EXCEPT ![c].pc = "failed"]
      BY <1>5 DEF ClaimGranted, SubmitEnds
    <3>2. CASE sub' = [sub EXCEPT ![c] = [@ EXCEPT !.pc = "claimed", !.digest = d, !.claim = n]]
      BY <1>1, <3>2 DEF Submitted
    <3>3. CASE sub' = [sub EXCEPT ![c].pc = "failed"]
      BY <1>1, <3>3 DEF Submitted
    <3> QED
      BY <3>1, <3>2, <3>3
  <2>3. TicketHeld'
    BY <1>1, <1>5, <2>0, <2>1 DEF TicketHeld, TicketTypeOK
  <2>4. \A e \in Contributions : ~TicketAnswered(e) /\ ~TicketAnswered(e)'
    BY <1>5, <2>2 DEF TicketInv, AnswerHeld, TicketAnswered
  <2>5. ASSUME NEW e \in Contributions PROVE ClaimHeld(e)'
    <3>1. CASE e = c
      BY <2>0, <2>1, <2>2, <3>1 DEF ClaimHeld
    <3>2. CASE e # c
      <4>1. ClaimHeld(e) /\ sub'[e] = sub[e] /\ sub[e].claim \in Nat
        BY <1>1, <2>2, <3>2 DEF TicketInv, Submitted
      <4> QED
        BY <1>1, <2>0, <2>1, <4>1 DEF ClaimHeld, Current
    <3> QED
      BY <3>1, <3>2
  <2> QED
    BY <1>1, <2>1, <2>2, <2>3, <2>4, <2>5 DEF TicketInv, SubmitTyped, AnswerHeld
<1> QED
  BY <1>2, <1>3, <1>4, <1>5 DEF Claim, ClaimGranted

LEMMA StoreStep ==
  ASSUME TicketInv, NEW c \in Contributions, Store(c)
  PROVE  TicketInv'
<1>1. /\ sub \in [Contributions -> Submitted] /\ sub[c] \in Submitted /\ installed \subseteq Bundles
      /\ ticket' = ticket /\ sub[c].pc = "claimed" /\ ClaimHeld(c)
  BY DEF Store, TicketInv, SubmitTyped
<1>2. sub[c].digest \in Bundles /\ sub[c].claim <= ticket.last
      /\ (Current(c) => ticket.digest = sub[c].digest)
  BY <1>1 DEF ClaimHeld
<1>3. \E pc \in {"releasing", "stored"} :
        /\ sub' = [sub EXCEPT ![c].pc = pc]
        /\ installed' = installed \cup {sub[c].digest} \/ (installed' = installed /\ pc # "stored")
  BY DEF Store, SubmitEnds
<1>4. PICK pc \in {"releasing", "stored"} :
        /\ sub' = [sub EXCEPT ![c].pc = pc]
        /\ installed' = installed \cup {sub[c].digest} \/ (installed' = installed /\ pc # "stored")
  BY <1>3
<1>5. /\ sub' \in [Contributions -> Submitted] /\ sub'[c].pc = pc
      /\ sub'[c].digest = sub[c].digest /\ sub'[c].claim = sub[c].claim
      /\ \A e \in Contributions \ {c} : sub'[e] = sub[e]
  BY <1>1, <1>4 DEF Submitted
<1>6. ClaimHeld(c)'
  BY <1>1, <1>2, <1>4, <1>5 DEF ClaimHeld, Current
<1>7. installed \subseteq installed' /\ installed' \subseteq Bundles
  BY <1>1, <1>2, <1>4
<1> QED
  BY <1>1, <1>5, <1>6, <1>7, TicketStays

(* The ticket leaves the claim of c.                                       *)
LEMMA ClaimLeaves ==
  ASSUME TicketInv, NEW c \in Contributions, Current(c), ticket' \in Tickets,
         ticket'.state # "claimed", ticket'.last = ticket.last,
         UNCHANGED installed, sub' \in [Contributions -> Submitted],
         sub'[c].pc \in {"failed", "accepted"},
         \A e \in Contributions \ {c} : sub'[e] = sub[e]
  PROVE  /\ \A e \in Contributions : ClaimHeld(e)'
         /\ \A e \in Contributions : TicketAnswered(e)' => e = c
<1>1. ASSUME NEW e \in Contributions PROVE ClaimHeld(e)'
  BY DEF TicketInv, ClaimHeld, Current
<1>2. ASSUME NEW e \in Contributions, TicketAnswered(e)', e # c PROVE FALSE
  BY <1>2 DEF TicketInv, AnswerHeld, TicketAnswered, Current
<1> QED
  BY <1>1, <1>2

LEMMA CompleteStep ==
  ASSUME TicketInv, NEW c \in Contributions, Complete(c)
  PROVE  TicketInv'
<1> USE SubmissionsType
<1>1. /\ sub \in [Contributions -> Submitted] /\ sub[c] \in Submitted /\ ticket \in Tickets
      /\ installed \subseteq Bundles /\ UNCHANGED installed /\ TicketHeld
      /\ sub[c].pc = "stored" /\ sub[c].digest \in installed
      /\ Current(c) => ticket.digest = sub[c].digest
  BY DEF Complete, TicketInv, SubmitTyped, ClaimHeld
<1>2. CASE Current(c)
  <2>1. /\ ticket' = [ticket EXCEPT !.state = "consumed", !.receipt = sub[c].digest, !.claim = 0]
        /\ \/ sub' = [sub EXCEPT ![c].pc = "accepted", ![c].receipt = sub[c].digest]
           \/ sub' = [sub EXCEPT ![c].pc = "failed"]
    BY <1>2 DEF Complete, SubmitEnds
  <2>2. /\ ticket' \in Tickets /\ ticket'.state = "consumed" /\ ticket'.receipt = sub[c].digest
        /\ ticket'.claim = 0 /\ ticket'.last = ticket.last /\ ticket'.digest = ticket.digest
        /\ ticket.last \in Nat
    BY <1>1, <2>1 DEF Tickets
  <2>3. /\ sub' \in [Contributions -> Submitted]
        /\ \A e \in Contributions \ {c} : sub'[e] = sub[e]
        /\ \/ sub'[c].pc = "accepted" /\ sub'[c].receipt = sub[c].digest
              /\ sub'[c].digest = sub[c].digest
           \/ sub'[c].pc = "failed"
    <3>1. CASE sub' = [sub EXCEPT ![c].pc = "accepted", ![c].receipt = sub[c].digest]
      BY <1>1, <3>1 DEF Submitted
    <3>2. CASE sub' = [sub EXCEPT ![c].pc = "failed"]
      BY <1>1, <3>2 DEF Submitted
    <3> QED
      BY <2>1, <3>1, <3>2
  <2>4. TicketHeld'
    BY <1>1, <1>2, <2>2 DEF TicketHeld, TicketTypeOK
  <2>5. /\ \A e \in Contributions : ClaimHeld(e)'
        /\ \A e \in Contributions : TicketAnswered(e)' => e = c
    BY <1>1, <1>2, <2>2, <2>3, ClaimLeaves
  <2>6. \A e \in Contributions : AnswerHeld(e)'
    BY <1>1, <2>2, <2>3, <2>5 DEF AnswerHeld, TicketAnswered
  <2> QED
    BY <1>1, <2>2, <2>3, <2>4, <2>5, <2>6 DEF TicketInv, SubmitTyped
<1>3. CASE ~Current(c)
  <2>1. ticket' = ticket /\ sub' = [sub EXCEPT ![c].pc = "failed"]
    BY <1>3 DEF Complete, SubmitEnds
  <2>2. /\ sub' \in [Contributions -> Submitted] /\ sub'[c].pc = "failed"
        /\ \A e \in Contributions \ {c} : sub'[e] = sub[e]
    BY <1>1, <2>1 DEF Submitted
  <2> QED
    BY <1>1, <2>1, <2>2, TicketStays
<1> QED
  BY <1>2, <1>3

LEMMA ReleaseStep ==
  ASSUME TicketInv, NEW c \in Contributions, Release(c)
  PROVE  TicketInv'
<1> USE SubmissionsType
<1>1. /\ sub \in [Contributions -> Submitted] /\ sub[c] \in Submitted /\ ticket \in Tickets
      /\ installed \subseteq Bundles /\ UNCHANGED installed /\ TicketHeld
      /\ sub' = [sub EXCEPT ![c].pc = "failed"]
  BY DEF Release, SubmitEnds, TicketInv, SubmitTyped
<1>2. /\ sub' \in [Contributions -> Submitted] /\ sub'[c].pc = "failed"
      /\ \A e \in Contributions \ {c} : sub'[e] = sub[e]
  BY <1>1 DEF Submitted
<1>3. CASE Current(c) /\ ticket' = [ticket EXCEPT !.state = "ready", !.digest = NoBundle, !.claim = 0]
  <2>1. /\ ticket' \in Tickets /\ ticket'.state = "ready" /\ ticket'.receipt = ticket.receipt
        /\ ticket'.digest = NoBundle
        /\ ticket'.claim = 0 /\ ticket'.last = ticket.last /\ ticket.last \in Nat
    BY <1>1, <1>3 DEF Tickets
  <2>2. TicketHeld'
    BY <1>1, <1>3, <2>1 DEF TicketHeld, TicketTypeOK, Current
  <2>3. /\ \A e \in Contributions : ClaimHeld(e)'
        /\ \A e \in Contributions : ~TicketAnswered(e)'
    BY <1>1, <1>2, <1>3, <2>1, ClaimLeaves DEF TicketAnswered
  <2> QED
    BY <1>1, <1>2, <2>1, <2>2, <2>3 DEF TicketInv, SubmitTyped, AnswerHeld
<1>4. CASE ticket' = ticket
  BY <1>1, <1>2, <1>4, TicketStays
<1> QED
  BY <1>3, <1>4 DEF Release

LEMMA TicketEnds ==
  ASSUME TicketInv, TicketExpires \/ TicketPurged
  PROVE  TicketInv'
<1> USE SubmissionsType
<1>1. /\ sub \in [Contributions -> Submitted] /\ ticket \in Tickets
      /\ installed \subseteq Bundles /\ UNCHANGED <<sub, installed>> /\ TicketHeld
      /\ \A c \in Contributions : ClaimHeld(c) /\ AnswerHeld(c)
  BY DEF TicketExpires, TicketPurged, TicketInv, SubmitTyped
<1>2. CASE TicketExpires
  <2>1. /\ ticket' \in Tickets /\ ticket'.state = ticket.state /\ ticket'.digest = ticket.digest
        /\ ticket'.claim = ticket.claim /\ ticket'.last = ticket.last
        /\ ticket'.receipt = ticket.receipt /\ ticket'.expired
    BY <1>1, <1>2 DEF TicketExpires, Tickets
  <2>2. TicketHeld'
    BY <1>1, <2>1 DEF TicketHeld, TicketTypeOK
  <2>3. ASSUME NEW c \in Contributions PROVE ClaimHeld(c)' /\ AnswerHeld(c)'
    BY <1>1, <2>1 DEF ClaimHeld, AnswerHeld, TicketAnswered, Current
  <2> QED
    BY <1>1, <2>1, <2>2, <2>3 DEF TicketInv, SubmitTyped, TicketAnswered
<1>3. CASE TicketPurged
  <2>1. /\ ticket' \in Tickets /\ ticket'.state = "gone" /\ ticket'.digest = NoBundle
        /\ ticket'.claim = 0 /\ ticket'.last = ticket.last /\ ticket.last \in Nat
        /\ ticket'.receipt = NoBundle /\ ticket'.expired
    BY <1>1, <1>3 DEF TicketPurged, Tickets
  <2>2. TicketHeld'
    BY <1>1, <2>1 DEF TicketHeld, TicketTypeOK
  <2>3. ASSUME NEW c \in Contributions PROVE ClaimHeld(c)' /\ AnswerHeld(c)'
    BY <1>1, <2>1 DEF ClaimHeld, AnswerHeld, TicketAnswered, Current
  <2> QED
    BY <1>1, <2>1, <2>2, <2>3 DEF TicketInv, SubmitTyped, TicketAnswered
<1> QED
  BY <1>2, <1>3

(* claim, complete and release of a submission ticket: however many        *)
(* requests race for it, lose replies and retry, every receipt given out   *)
(* is for the one bundle that was accepted, and that bundle was stored.    *)
THEOREM OneContribution == SubmitSpec => []OneReceipt
<1>1. TicketInv /\ [SubmitNext]_ticketVars => TicketInv'
  <2> SUFFICES ASSUME TicketInv, [SubmitNext]_ticketVars PROVE TicketInv'
    OBVIOUS
  <2>1. CASE UNCHANGED ticketVars
    <3>1. UNCHANGED <<ticket, sub, slot, installed>>
      BY <2>1 DEF ticketVars
    <3> QED
      BY <3>1 DEF TicketInv, SubmitTyped, TicketHeld, TicketTypeOK, ClaimHeld, AnswerHeld, TicketAnswered,
                  Current
  <2> QED
    BY <2>1, ClaimStep, StoreStep, CompleteStep, ReleaseStep, TicketEnds DEF SubmitNext
<1>2. TicketInv => OneReceipt
  BY DEF TicketInv, TicketHeld, AnswerHeld, TicketAnswered, OneReceipt
<1> QED
  BY <1>1, <1>2, TicketInit, PTL DEF SubmitSpec

-----------------------------------------------------------------------------
(***************************************************************************)
(* The soft budget check.  A mark and a denial point to the turn whose     *)
(* status they come from; that turn heard it, and the ledger was full      *)
(* while it asked.  A turn that may be delivered has no denial.            *)
(***************************************************************************)
Limits == SoftLimits \cup {0}
Reads == {"none", "sent", "answered", "done"}
Turns == [pc : {"idle", "cleared", "upstream", "grace", "delivering", "refused", "failing", "failed"},
          limit : [SoftLegs -> Limits], read : [SoftLegs -> Reads], seen : [SoftLegs -> Nat],
          denial : SoftLegs \cup {"none"}, delivered : BOOLEAN, heard : [SoftLegs -> Nat],
          cause : SoftTurns \cup {Nobody}, refused : Nat]

SoftTyped ==
  /\ softNow \in Nat /\ softLimit \in [SoftLegs -> SoftLimits]
  /\ softCharged \in [SoftLegs -> Nat] /\ softHeld \in [SoftLegs -> Nat]
  /\ mark \in [Marks -> Nat] /\ lastHeard \in [Marks -> SoftTurns \cup {Nobody}]
  /\ turn \in [SoftTurns -> Turns] /\ softFull \subseteq SoftTurns \X SoftLegs

(* u heard of the leg under the limit m, which was reached while it asked. *)
Grounded(u, l, m) ==
  /\ u \in SoftTurns /\ <<u, l>> \in softFull
  /\ turn[u].read[l] = "done" /\ turn[u].limit[l] = m

MarkHeld(l, m) ==
  mark[<<l, m>>] # 0 =>
    LET u == lastHeard[<<l, m>>]
    IN /\ Grounded(u, l, m)
       /\ mark[<<l, m>>] = turn[u].heard[l] + FreshFor /\ turn[u].heard[l] <= softNow

AskHeld(t) ==
  \A l \in SoftLegs :
    /\ turn[t].read[l] = "sent" /\ turn[t].limit[l] <= EffectiveSpent(l) => <<t, l>> \in softFull
    /\ turn[t].read[l] = "answered" /\ turn[t].limit[l] <= turn[t].seen[l] => <<t, l>> \in softFull
    /\ turn[t].pc \in {"idle", "cleared"} => turn[t].read[l] = "none"

DenialHeld(t) ==
  /\ turn[t].pc \in {"idle", "cleared", "upstream", "delivering"} => turn[t].denial = "none"
  /\ turn[t].pc = "delivering" => turn[t].delivered
  /\ \A l \in SoftLegs : turn[t].denial = l /\ turn[t].limit[l] # 0 =>
       LET u == turn[t].cause
       IN /\ Grounded(u, l, turn[t].limit[l])
          /\ IF turn[t].read[l] # "none" THEN u = t
             ELSE /\ turn[u].heard[l] <= turn[t].refused
                  /\ turn[t].refused < turn[u].heard[l] + FreshFor

SoftInv ==
  /\ SoftTyped
  /\ \A l \in SoftLegs, m \in Limits : MarkHeld(l, m)
  /\ \A t \in SoftTurns : AskHeld(t) /\ DenialHeld(t)

LEMMA TurnParts ==
  ASSUME NEW r \in Turns, NEW l \in SoftLegs
  PROVE  /\ r.limit \in [SoftLegs -> Limits] /\ r.seen \in [SoftLegs -> Nat]
         /\ r.read \in [SoftLegs -> Reads] /\ r.heard \in [SoftLegs -> Nat]
         /\ r.limit[l] \in Limits /\ r.limit[l] \in Nat /\ r.seen[l] \in Nat
         /\ r.read[l] \in Reads /\ r.heard[l] \in Nat
<1>1. /\ r.limit \in [SoftLegs -> Limits] /\ r.seen \in [SoftLegs -> Nat]
      /\ r.read \in [SoftLegs -> Reads] /\ r.heard \in [SoftLegs -> Nat]
  BY DEF Turns
<1>2. Limits \subseteq Nat
  BY SoftBudgetType DEF Limits
<1>3. r.limit[l] \in Limits /\ r.seen[l] \in Nat /\ r.read[l] \in Reads /\ r.heard[l] \in Nat
  BY <1>1
<1> QED
  BY <1>1, <1>2, <1>3

LEMMA SoftInvInit == SoftInit => SoftInv
<1> SUFFICES ASSUME SoftInit PROVE SoftInv
  OBVIOUS
<1> USE SoftBudgetType
<1>1. IdleTurn \in Turns
  BY DEF IdleTurn, Turns, Limits, Reads
<1>2. IdleTurn.denial = "none" /\ IdleTurn.pc = "idle"
  BY DEF IdleTurn
<1>3. ASSUME NEW l \in SoftLegs PROVE IdleTurn.read[l] = "none"
  BY DEF IdleTurn
<1>4. SoftTyped
  BY <1>1 DEF SoftInit, SoftTyped
<1>5. ASSUME NEW l \in SoftLegs, NEW m \in Limits PROVE mark[<<l, m>>] = 0
  BY DEF SoftInit, Marks, Limits
<1>6. ASSUME NEW t \in SoftTurns PROVE AskHeld(t) /\ DenialHeld(t)
  BY <1>2, <1>3 DEF SoftInit, AskHeld, DenialHeld
<1> QED
  BY <1>4, <1>5, <1>6 DEF SoftInv, MarkHeld

(* What a turn heard stays: no step changes a leg that was read.           *)
LEMMA GroundStays ==
  ASSUME NEW u, NEW l \in SoftLegs, NEW m, Grounded(u, l, m),
         softFull \subseteq softFull',
         \A t \in SoftTurns : turn[t].read[l] = "done" =>
            turn'[t].read[l] = "done" /\ turn'[t].limit[l] = turn[t].limit[l]
  PROVE  Grounded(u, l, m)'
BY DEF Grounded

(* So does a denial whose turn keeps its refusal.                          *)
LEMMA DenialStays ==
  ASSUME NEW t \in SoftTurns, DenialHeld(t),
         turn'[t].denial = turn[t].denial, turn'[t].limit = turn[t].limit,
         turn'[t].cause = turn[t].cause, turn'[t].refused = turn[t].refused,
         turn'[t].pc \in {"idle", "cleared", "upstream", "delivering"} => turn[t].denial = "none",
         turn'[t].pc = "delivering" => turn'[t].delivered,
         \A l \in SoftLegs : turn'[t].read[l] = "none" <=> turn[t].read[l] = "none",
         \A u \in SoftTurns, l \in SoftLegs : turn[u].read[l] = "done" =>
            /\ turn'[u].read[l] = "done" /\ turn'[u].limit[l] = turn[u].limit[l]
            /\ turn'[u].heard[l] = turn[u].heard[l],
         softFull \subseteq softFull'
  PROVE  DenialHeld(t)'
<1>1. ASSUME NEW l \in SoftLegs, turn[t].denial = l, turn[t].limit[l] # 0
      PROVE  LET u == turn[t].cause
             IN /\ u \in SoftTurns /\ <<u, l>> \in softFull'
                /\ turn'[u].read[l] = "done" /\ turn'[u].limit[l] = turn[t].limit[l]
                /\ IF turn[t].read[l] # "none" THEN u = t
                   ELSE /\ turn'[u].heard[l] <= turn[t].refused
                        /\ turn[t].refused < turn'[u].heard[l] + FreshFor
  BY <1>1 DEF DenialHeld, Grounded
<1>2. /\ turn'[t].pc \in {"idle", "cleared", "upstream", "delivering"} => turn'[t].denial = "none"
      /\ turn'[t].pc = "delivering" => turn'[t].delivered
  OBVIOUS
<1>3. ASSUME NEW l \in SoftLegs, turn'[t].denial = l, turn'[t].limit[l] # 0
      PROVE  LET u == turn'[t].cause
             IN /\ u \in SoftTurns /\ <<u, l>> \in softFull'
                /\ turn'[u].read[l] = "done" /\ turn'[u].limit[l] = turn'[t].limit[l]
                /\ IF turn'[t].read[l] # "none" THEN u = t
                   ELSE /\ turn'[u].heard[l] <= turn'[t].refused
                        /\ turn'[t].refused < turn'[u].heard[l] + FreshFor
  BY <1>1, <1>3
<1> QED
  BY <1>2, <1>3 DEF DenialHeld, Grounded

(* One turn moves and the ledgers stay.                                    *)
LEMMA TurnMoves ==
  ASSUME SoftInv, NEW t \in SoftTurns, UNCHANGED <<softNow, softLimit, softCharged, softHeld>>,
         NEW new \in Turns, turn' = [turn EXCEPT ![t] = new],
         softFull \subseteq softFull', softFull' \subseteq SoftTurns \X SoftLegs,
         mark' \in [Marks -> Nat], lastHeard' \in [Marks -> SoftTurns \cup {Nobody}],
         \A l \in SoftLegs : turn[t].read[l] = "done" =>
            /\ new.read[l] = "done" /\ new.limit[l] = turn[t].limit[l]
            /\ new.heard[l] = turn[t].heard[l],
         \A l \in SoftLegs, m \in Limits :
            \/ MarkHeld(l, m)'
            \/ mark'[<<l, m>>] = mark[<<l, m>>] /\ lastHeard'[<<l, m>>] = lastHeard[<<l, m>>],
         AskHeld(t)', DenialHeld(t)'
  PROVE  SoftInv'
<1>1. turn \in [SoftTurns -> Turns] /\ softNow \in Nat
  BY DEF SoftInv, SoftTyped
<1>2. SoftTyped'
  BY <1>1 DEF SoftInv, SoftTyped
<1>3. ASSUME NEW u \in SoftTurns, NEW l \in SoftLegs, turn[u].read[l] = "done"
      PROVE  /\ turn'[u].read[l] = "done" /\ turn'[u].limit[l] = turn[u].limit[l]
             /\ turn'[u].heard[l] = turn[u].heard[l]
  BY <1>1, <1>3
<1>4. ASSUME NEW u, NEW l \in SoftLegs, NEW m, Grounded(u, l, m)
      PROVE  Grounded(u, l, m)' /\ turn'[u].heard[l] = turn[u].heard[l]
  BY <1>3, <1>4, GroundStays DEF Grounded
<1>5. ASSUME NEW l \in SoftLegs, NEW m \in Limits PROVE MarkHeld(l, m)'
  <2>1. CASE mark'[<<l, m>>] = mark[<<l, m>>] /\ lastHeard'[<<l, m>>] = lastHeard[<<l, m>>]
    <3>1. MarkHeld(l, m)
      BY DEF SoftInv
    <3> QED
      BY <1>4, <2>1, <3>1 DEF MarkHeld
  <2> QED
    BY <2>1
<1>6. ASSUME NEW u \in SoftTurns, u # t PROVE AskHeld(u)' /\ DenialHeld(u)'
  <2>1. AskHeld(u) /\ DenialHeld(u) /\ turn'[u] = turn[u]
    BY <1>1, <1>6 DEF SoftInv
  <2>2. AskHeld(u)'
    BY <2>1 DEF AskHeld, EffectiveSpent
  <2>3. DenialHeld(u)'
    <3>1. /\ turn[u].pc \in {"idle", "cleared", "upstream", "delivering"} => turn[u].denial = "none"
          /\ turn[u].pc = "delivering" => turn[u].delivered
      BY <2>1 DEF DenialHeld
    <3> QED
      BY <1>3, <2>1, <3>1, DenialStays
  <2> QED
    BY <2>2, <2>3
<1> QED
  BY <1>2, <1>5, <1>6 DEF SoftInv

LEMMA PreflightStep ==
  ASSUME SoftInv, NEW t \in SoftTurns, Preflight(t)
  PROVE  SoftInv'
<1> USE SoftBudgetType
<1>1. /\ UNCHANGED <<softNow, softLimit, softCharged, softHeld, softFull, mark, lastHeard>>
      /\ turn[t].pc = "idle"
      /\ turn \in [SoftTurns -> Turns] /\ turn[t] \in Turns /\ softLimit \in [SoftLegs -> Limits]
      /\ mark \in [Marks -> Nat] /\ lastHeard \in [Marks -> SoftTurns \cup {Nobody}]
      /\ softNow \in Nat /\ AskHeld(t) /\ DenialHeld(t) /\ softFull \subseteq SoftTurns \X SoftLegs
  BY DEF Preflight, softLedger, SoftInv, SoftTyped, Limits
<1>2. /\ \A l \in SoftLegs : turn[t].read[l] = "none"
      /\ turn[t].denial = "none"
  BY <1>1 DEF AskHeld, DenialHeld
<1> DEFINE bad == {l \in SoftLegs : softLimit[l] = 0 \/ StillFresh(l, softLimit[l])}
<1>3. ASSUME NEW l \in bad, softLimit[l] # 0
      PROVE  LET u == lastHeard[<<l, softLimit[l]>>]
             IN /\ Grounded(u, l, softLimit[l]) /\ turn[u].heard[l] <= softNow
                /\ softNow < turn[u].heard[l] + FreshFor
  <2>1. softLimit[l] \in Limits /\ <<l, softLimit[l]>> \in Marks
    BY <1>1 DEF Marks, Limits
  <2>2. mark[<<l, softLimit[l]>>] > softNow /\ mark[<<l, softLimit[l]>>] \in Nat
    BY <1>1, <1>3, <2>1 DEF StillFresh, LegId
  <2>3. mark[<<l, softLimit[l]>>] # 0
    BY <1>1, <2>2
  <2>4. MarkHeld(l, softLimit[l])
    BY <2>1 DEF SoftInv
  <2> QED
    BY <2>2, <2>3, <2>4 DEF MarkHeld
<1>4. CASE bad # {}
  <2>1. PICK l \in bad : turn' = [turn EXCEPT ![t].pc = "refused", ![t].limit = softLimit,
               ![t].denial = l, ![t].refused = softNow, ![t].cause = lastHeard[LegId(l, softLimit[l])]]
    BY <1>4 DEF Preflight
  <2> DEFINE u == lastHeard[<<l, softLimit[l]>>]
             new == [turn[t] EXCEPT !.pc = "refused", !.limit = softLimit, !.denial = l,
                                    !.refused = softNow, !.cause = u]
  <2>2. u \in SoftTurns \cup {Nobody} /\ l \in SoftLegs
    BY <1>1 DEF Marks, Limits
  <2>3. softLimit[l] # 0 => /\ Grounded(u, l, softLimit[l]) /\ turn[u].heard[l] <= softNow
                            /\ softNow < turn[u].heard[l] + FreshFor
    BY <1>3
  <2>4. turn' = [turn EXCEPT ![t] = new]
    BY <1>1, <2>1 DEF LegId
  <2> HIDE DEF bad, u
  <2>5. /\ new \in Turns /\ new.pc = "refused" /\ new.limit = softLimit /\ new.denial = l
        /\ new.read = turn[t].read /\ new.refused = softNow /\ new.cause = u
    BY <1>1, <2>2 DEF Turns
  <2> HIDE DEF new
  <2>6. AskHeld(t)'
    BY <1>1, <1>2, <2>4, <2>5 DEF AskHeld
  <2>7. DenialHeld(t)'
    <3>1. turn'[t] = new
      BY <1>1, <2>4
    <3>2. ASSUME softLimit[l] # 0
          PROVE  /\ u \in SoftTurns /\ <<u, l>> \in softFull
                 /\ turn'[u].read[l] = "done" /\ turn'[u].limit[l] = softLimit[l]
                 /\ turn'[u].heard[l] <= softNow /\ softNow < turn'[u].heard[l] + FreshFor
      <4>1. u \in SoftTurns /\ turn[u].read[l] = "done"
        BY <2>3, <3>2 DEF Grounded
      <4>2. turn'[u] = turn[u]
        BY <1>1, <1>2, <2>2, <2>4, <4>1
      <4> QED
        BY <2>3, <3>2, <4>2 DEF Grounded
    <3>3. \A k \in SoftLegs : new.read[k] = "none"
      BY <1>2, <2>5
    <3>4. ASSUME NEW k \in SoftLegs, turn'[t].denial = k, turn'[t].limit[k] # 0
          PROVE  LET v == turn'[t].cause
                 IN /\ v \in SoftTurns /\ <<v, k>> \in softFull'
                    /\ turn'[v].read[k] = "done" /\ turn'[v].limit[k] = turn'[t].limit[k]
                    /\ turn'[v].heard[k] <= turn'[t].refused
                    /\ turn'[t].refused < turn'[v].heard[k] + FreshFor
      <4>1. k = l /\ turn'[t].cause = u /\ turn'[t].refused = softNow /\ softLimit[l] # 0
        BY <2>5, <3>1, <3>4
      <4> QED
        BY <1>1, <2>5, <3>1, <3>2, <4>1
    <3> QED
      BY <1>1, <2>5, <3>1, <3>3, <3>4 DEF DenialHeld, Grounded
  <2> QED
    BY <1>1, <1>2, <2>4, <2>5, <2>6, <2>7, TurnMoves
<1>5. CASE bad = {}
  <2> DEFINE new == [turn[t] EXCEPT !.pc = "cleared", !.limit = softLimit]
  <2>1. turn' = [turn EXCEPT ![t] = new]
    BY <1>1, <1>5 DEF Preflight
  <2>2. /\ new \in Turns /\ new.pc = "cleared" /\ new.denial = "none" /\ new.read = turn[t].read
    BY <1>1, <1>2 DEF Turns
  <2> HIDE DEF new, bad
  <2>3. AskHeld(t)'
    BY <1>1, <1>2, <2>1, <2>2 DEF AskHeld
  <2>4. DenialHeld(t)'
    BY <1>1, <2>1, <2>2, SoftBudgetType DEF DenialHeld
  <2> QED
    BY <1>1, <1>2, <2>1, <2>2, <2>3, <2>4, TurnMoves
<1> QED
  BY <1>4, <1>5

LEMMA SendStep ==
  ASSUME SoftInv, NEW t \in SoftTurns, SendTurn(t)
  PROVE  SoftInv'
<1> USE SoftBudgetType
<1> DEFINE sent == [l \in SoftLegs |-> "sent"]
           new == [turn[t] EXCEPT !.pc = "upstream", !.read = sent]
<1>1. /\ UNCHANGED <<softNow, softLimit, softCharged, softHeld, mark, lastHeard>>
      /\ turn[t].pc = "cleared" /\ turn' = [turn EXCEPT ![t] = new]
      /\ softFull' = softFull \cup FullFor(turn', [l \in SoftLegs |-> EffectiveSpent(l)])
      /\ turn \in [SoftTurns -> Turns] /\ turn[t] \in Turns
      /\ mark \in [Marks -> Nat] /\ lastHeard \in [Marks -> SoftTurns \cup {Nobody}]
      /\ AskHeld(t) /\ DenialHeld(t) /\ softFull \subseteq SoftTurns \X SoftLegs
  BY DEF SendTurn, SoftInv, SoftTyped
<1>2. sent \in [SoftLegs -> Reads] /\ \A l \in SoftLegs : sent[l] = "sent"
  BY DEF Reads
<1> HIDE DEF sent
<1>3. /\ new \in Turns /\ new.pc = "upstream" /\ new.read = sent /\ new.denial = turn[t].denial
      /\ new.limit = turn[t].limit
  BY <1>1, <1>2 DEF Turns
<1>4. turn'[t] = new
  BY <1>1
<1> HIDE DEF new
<1>5. \A l \in SoftLegs : turn[t].read[l] = "none"
  BY <1>1 DEF AskHeld
<1>6. AskHeld(t)'
  BY <1>1, <1>2, <1>3, <1>4 DEF AskHeld, FullFor, EffectiveSpent
<1>7. DenialHeld(t)'
  BY <1>1, <1>3, <1>4 DEF DenialHeld
<1>8. softFull' \subseteq SoftTurns \X SoftLegs
  BY <1>1 DEF FullFor
<1> QED
  BY <1>1, <1>3, <1>5, <1>6, <1>7, <1>8, TurnMoves

(* A turn of which only the place and the delivery change.                 *)
LEMMA DispatchSteps ==
  ASSUME SoftInv, NEW t \in SoftTurns,
         Headers(t) \/ GraceEnds(t) \/ UpstreamFails(t) \/ CloseFailed(t)
  PROVE  SoftInv'
<1> USE SoftBudgetType
<1>1. /\ UNCHANGED <<softNow, softLimit, softCharged, softHeld, softFull, mark, lastHeard>>
      /\ turn \in [SoftTurns -> Turns] /\ turn[t] \in Turns
      /\ mark \in [Marks -> Nat] /\ lastHeard \in [Marks -> SoftTurns \cup {Nobody}]
      /\ AskHeld(t) /\ DenialHeld(t) /\ softFull \subseteq SoftTurns \X SoftLegs
  BY DEF Headers, GraceEnds, UpstreamFails, CloseFailed, softLedger, SoftInv, SoftTyped
<1>2. PICK pc \in {"delivering", "grace", "refused", "failing", "failed"}, delivered \in BOOLEAN :
        /\ turn' = [turn EXCEPT ![t].pc = pc, ![t].delivered = delivered]
        /\ pc = "delivering" => delivered /\ turn[t].denial = "none"
  <2>1. CASE Headers(t)
    <3> DEFINE passes == Checked(t) \/ t \in SharedLane
    <3>1. /\ turn' = [turn EXCEPT ![t].pc = IF passes THEN "delivering" ELSE "grace",
                                  ![t].delivered = passes]
          /\ turn[t].pc = "upstream"
      BY <2>1 DEF Headers
    <3>2. turn[t].denial = "none"
      BY <1>1, <3>1 DEF DenialHeld
    <3>3. passes \in BOOLEAN
      OBVIOUS
    <3> HIDE DEF passes
    <3>4. CASE passes
      BY <3>1, <3>2, <3>3, <3>4
    <3>5. CASE ~passes
      BY <3>1, <3>2, <3>3, <3>5
    <3> QED
      BY <3>4, <3>5
  <2>2. CASE GraceEnds(t)
    BY <2>2 DEF GraceEnds
  <2>3. CASE UpstreamFails(t)
    <3>1. turn' = [turn EXCEPT ![t].pc = "failing", ![t].delivered = turn[t].delivered]
      BY <1>1, <2>3 DEF UpstreamFails, Turns
    <3>2. turn[t].delivered \in BOOLEAN
      BY <1>1 DEF Turns
    <3> QED
      BY <3>1, <3>2
  <2>4. CASE CloseFailed(t)
    BY <2>4 DEF CloseFailed
  <2> QED
    BY <2>1, <2>2, <2>3, <2>4
<1> DEFINE new == [turn[t] EXCEPT !.pc = pc, !.delivered = delivered]
<1>3. turn' = [turn EXCEPT ![t] = new]
  BY <1>1, <1>2
<1>4. /\ new \in Turns /\ new.pc = pc /\ new.delivered = delivered /\ new.seen = turn[t].seen
      /\ new.denial = turn[t].denial /\ new.limit = turn[t].limit /\ new.read = turn[t].read
      /\ new.heard = turn[t].heard /\ new.cause = turn[t].cause /\ new.refused = turn[t].refused
  BY <1>1 DEF Turns
<1>5. turn'[t] = new
  BY <1>1, <1>3
<1> HIDE DEF new
<1>6. AskHeld(t)'
  BY <1>1, <1>2, <1>4, <1>5 DEF AskHeld, EffectiveSpent
<1>7. DenialHeld(t)'
  <2>1. ASSUME NEW u \in SoftTurns
        PROVE  turn'[u].read = turn[u].read /\ turn'[u].limit = turn[u].limit
               /\ turn'[u].heard = turn[u].heard
    BY <1>1, <1>3, <1>4
  <2>2. pc \in {"idle", "cleared", "upstream", "delivering"} => turn[t].denial = "none"
    BY <1>2
  <2>3. pc = "delivering" => delivered
    BY <1>2
  <2> QED
    BY <1>1, <1>4, <1>5, <2>1, <2>2, <2>3, DenialStays
<1> QED
  BY <1>1, <1>3, <1>4, <1>6, <1>7, TurnMoves

LEMMA LedgerStatusStep ==
  ASSUME SoftInv, NEW t \in SoftTurns, NEW l \in SoftLegs, LedgerStatus(t, l)
  PROVE  SoftInv'
<1> USE SoftBudgetType
<1>1. /\ UNCHANGED <<softNow, softLimit, softCharged, softHeld, softFull, mark, lastHeard>>
      /\ turn' = [turn EXCEPT ![t].read[l] = "answered", ![t].seen[l] = EffectiveSpent(l)]
      /\ turn[t].read[l] = "sent"
      /\ turn \in [SoftTurns -> Turns] /\ turn[t] \in Turns
      /\ mark \in [Marks -> Nat] /\ lastHeard \in [Marks -> SoftTurns \cup {Nobody}]
      /\ AskHeld(t) /\ DenialHeld(t) /\ softFull \subseteq SoftTurns \X SoftLegs
  BY DEF LedgerStatus, softLedger, SoftInv, SoftTyped
<1>2. EffectiveSpent(l) \in Nat
  BY DEF EffectiveSpent, SoftInv, SoftTyped
<1> DEFINE read == [turn[t].read EXCEPT ![l] = "answered"]
           seen == [turn[t].seen EXCEPT ![l] = EffectiveSpent(l)]
           new == [turn[t] EXCEPT !.read = read, !.seen = seen]
<1>3. /\ read \in [SoftLegs -> Reads] /\ seen \in [SoftLegs -> Nat]
      /\ read[l] = "answered" /\ seen[l] = EffectiveSpent(l)
      /\ \A k \in SoftLegs : k # l => read[k] = turn[t].read[k] /\ seen[k] = turn[t].seen[k]
  BY <1>1, <1>2, TurnParts DEF Reads
<1>4. turn' = [turn EXCEPT ![t] = new]
  BY <1>1 DEF Turns
<1> HIDE DEF read, seen
<1>5. /\ new \in Turns /\ new.pc = turn[t].pc /\ new.delivered = turn[t].delivered
      /\ new.seen = seen /\ new.read = read /\ new.denial = turn[t].denial
      /\ new.limit = turn[t].limit /\ new.heard = turn[t].heard
      /\ new.cause = turn[t].cause /\ new.refused = turn[t].refused
  BY <1>1, <1>3 DEF Turns
<1>6. turn'[t] = new
  BY <1>1, <1>4
<1> HIDE DEF new
<1>7. AskHeld(t)'
  <2>1. ASSUME NEW k \in SoftLegs, k # l
        PROVE  /\ new.read[k] = "sent" /\ new.limit[k] <= EffectiveSpent(k) => <<t, k>> \in softFull
               /\ new.read[k] = "answered" /\ new.limit[k] <= new.seen[k] => <<t, k>> \in softFull
               /\ new.pc \in {"idle", "cleared"} => new.read[k] = "none"
    BY <1>1, <1>3, <1>5, <2>1 DEF AskHeld
  <2>2. /\ new.limit[l] <= EffectiveSpent(l) => <<t, l>> \in softFull
        /\ new.read[l] = "answered" /\ new.seen[l] = EffectiveSpent(l)
        /\ new.pc \notin {"idle", "cleared"}
    BY <1>1, <1>3, <1>5 DEF AskHeld
  <2> QED
    BY <1>1, <1>6, <2>1, <2>2 DEF AskHeld, EffectiveSpent
<1>8. \A k \in SoftLegs : turn[t].read[k] = "done" =>
        /\ new.read[k] = "done" /\ new.limit[k] = turn[t].limit[k]
        /\ new.heard[k] = turn[t].heard[k]
  BY <1>1, <1>3, <1>5
<1>9. DenialHeld(t)'
  <2>1. ASSUME NEW u \in SoftTurns, NEW k \in SoftLegs, turn[u].read[k] = "done"
        PROVE  /\ turn'[u].read[k] = "done" /\ turn'[u].limit[k] = turn[u].limit[k]
               /\ turn'[u].heard[k] = turn[u].heard[k]
    BY <1>1, <1>4, <1>6, <1>8, <2>1
  <2>2. ASSUME NEW k \in SoftLegs
        PROVE  (turn[t].read[k] = "none") <=> (new.read[k] = "none")
    BY <1>1, <1>3, <1>5
  <2>3. /\ new.pc \in {"idle", "cleared", "upstream", "delivering"} => turn[t].denial = "none"
        /\ new.pc = "delivering" => new.delivered
    BY <1>1, <1>5 DEF DenialHeld
  <2> QED
    BY <1>1, <1>5, <1>6, <2>1, <2>2, <2>3, DenialStays
<1> QED
  BY <1>1, <1>4, <1>5, <1>7, <1>8, <1>9, TurnMoves

(* A status that was read: an exhaustion it leaves, or a denial, is        *)
(* grounded on the turn itself.                                            *)
LEMMA StatusSteps ==
  ASSUME SoftInv, NEW t \in SoftTurns, NEW l \in SoftLegs,
         ObserveStatus(t, l) \/ StatusFails(t, l)
  PROVE  SoftInv'
<1> USE SoftBudgetType
<1> DEFINE m == turn[t].limit[l]
           read == [turn[t].read EXCEPT ![l] = "done"]
           seen == [turn[t].seen EXCEPT ![l] = 0]
           heard == [turn[t].heard EXCEPT ![l] = softNow]
           stop == Abortable(t)
           full == turn[t].read[l] = "answered" /\ m <= turn[t].seen[l]
           unread == Informed(t, l)
           stopped == [unread EXCEPT !.denial = l, !.cause = t, !.refused = softNow,
                                     !.pc = IF @ = "upstream" THEN "refused" ELSE @]
<1>1. /\ UNCHANGED <<softNow, softLimit, softCharged, softHeld, softFull>> /\ softNow \in Nat
      /\ turn \in [SoftTurns -> Turns] /\ turn[t] \in Turns
      /\ mark \in [Marks -> Nat] /\ lastHeard \in [Marks -> SoftTurns \cup {Nobody}]
      /\ AskHeld(t) /\ DenialHeld(t) /\ softFull \subseteq SoftTurns \X SoftLegs
      /\ turn[t].read[l] \in {"sent", "answered"}
  BY DEF ObserveStatus, StatusFails, softLedger, SoftInv, SoftTyped
<1>2. m \in Limits /\ m \in Nat /\ <<l, m>> \in Marks /\ turn[t].seen[l] \in Nat
  BY <1>1, TurnParts DEF Marks, Limits
<1>3. /\ read \in [SoftLegs -> Reads] /\ seen \in [SoftLegs -> Nat] /\ heard \in [SoftLegs -> Nat]
      /\ read[l] = "done" /\ heard[l] = softNow
      /\ \A k \in SoftLegs : k # l => /\ read[k] = turn[t].read[k] /\ seen[k] = turn[t].seen[k]
                                      /\ heard[k] = turn[t].heard[k]
  BY <1>1, TurnParts DEF Reads
<1>4. PICK new \in {unread, stopped}, until \in {0, softNow + FreshFor, mark[<<l, m>>]} :
        /\ turn' = [turn EXCEPT ![t] = new]
        /\ new = stopped /\ unread # stopped => stop /\ full
        /\ \/ UNCHANGED <<mark, lastHeard>>
           \/ /\ mark' = [mark EXCEPT ![<<l, m>>] = until]
              /\ lastHeard' = [lastHeard EXCEPT ![<<l, m>>] = t]
              /\ until = 0 \/ (until = softNow + FreshFor /\ full)
  <2>1. ASSUME Unread(t, l) PROVE turn' = [turn EXCEPT ![t] = unread]
    BY <2>1 DEF Unread
  <2>2. CASE StatusFails(t, l)
    BY <2>1, <2>2 DEF StatusFails, Heard, LegId
  <2>3. CASE ObserveStatus(t, l) /\ turn[t].seen[l] < m
    BY <2>1, <2>3 DEF ObserveStatus, BelowLimit, Heard, LegId
  <2>4. CASE ObserveStatus(t, l) /\ ~(turn[t].seen[l] < m)
    <3>1. full /\ Exhausted(t, l)
      BY <1>2, <2>4 DEF ObserveStatus
    <3>2. CASE stop
      <4>1. turn' = [turn EXCEPT ![t] = stopped]
        BY <3>1, <3>2 DEF Exhausted
      <4> QED
        BY <3>1, <3>2, <4>1 DEF Exhausted, Heard, LegId
    <3>3. CASE ~stop
      BY <2>1, <3>1, <3>3 DEF Exhausted, Heard, LegId
    <3> QED
      BY <3>2, <3>3
  <2> QED
    BY <2>2, <2>3, <2>4
<1>5. full => <<t, l>> \in softFull
  BY <1>1, <1>2 DEF AskHeld
<1>6. /\ unread = [turn[t] EXCEPT !.read = read, !.seen = seen, !.heard = heard]
      /\ unread \in Turns /\ stopped \in Turns
      /\ new.read = read /\ new.seen = seen /\ new.heard = heard
      /\ new.limit = turn[t].limit /\ new.delivered = turn[t].delivered
  <2>1. unread = [turn[t] EXCEPT !.read = read, !.seen = seen, !.heard = heard]
    BY DEF Informed
  <2> HIDE DEF read, seen, heard, unread
  <2>2. /\ unread \in Turns /\ unread.read = read /\ unread.seen = seen /\ unread.heard = heard
        /\ unread.limit = turn[t].limit /\ unread.delivered = turn[t].delivered
    BY <1>1, <1>3, <2>1 DEF Turns
  <2>3. /\ stopped \in Turns /\ stopped.read = read /\ stopped.seen = seen
        /\ stopped.heard = heard /\ stopped.limit = turn[t].limit
        /\ stopped.delivered = turn[t].delivered
    BY <1>1, <2>2 DEF Turns
  <2> QED
    BY <1>4, <2>1, <2>2, <2>3
<1> HIDE DEF read, seen, heard, full, stop, unread
<1>7. \/ /\ new.pc = turn[t].pc /\ new.denial = turn[t].denial /\ new.cause = turn[t].cause
         /\ new.refused = turn[t].refused
      \/ /\ stop /\ full /\ new.denial = l /\ new.cause = t
         /\ new.pc = IF turn[t].pc = "upstream" THEN "refused" ELSE turn[t].pc
  <2>1. /\ unread.pc = turn[t].pc /\ unread.denial = turn[t].denial
        /\ unread.cause = turn[t].cause /\ unread.refused = turn[t].refused
    BY <1>1, <1>6 DEF Turns
  <2>2. stopped.denial = l /\ stopped.cause = t
        /\ stopped.pc = IF turn[t].pc = "upstream" THEN "refused" ELSE turn[t].pc
    BY <1>6, <2>1 DEF Turns
  <2> QED
    BY <1>4, <2>1, <2>2
<1>8. turn'[t] = new
  BY <1>1, <1>4
<1> HIDE DEF stopped
<1>9. \A k \in SoftLegs : turn[t].read[k] = "done" =>
        /\ new.read[k] = "done" /\ new.limit[k] = turn[t].limit[k]
        /\ new.heard[k] = turn[t].heard[k]
  BY <1>1, <1>3, <1>6
<1>10. full => Grounded(t, l, m)'
  BY <1>1, <1>3, <1>5, <1>6, <1>8 DEF Grounded
<1>11. AskHeld(t)'
  <2>1. turn[t].pc \notin {"idle", "cleared"}
    BY <1>1 DEF AskHeld
  <2>2. new.pc \notin {"idle", "cleared"}
    BY <1>7, <2>1
  <2> QED
    BY <1>1, <1>3, <1>6, <1>8, <2>2 DEF AskHeld, EffectiveSpent
<1>12. DenialHeld(t)'
  <2>1. ASSUME NEW u \in SoftTurns, NEW k \in SoftLegs, turn[u].read[k] = "done"
        PROVE  /\ turn'[u].read[k] = "done" /\ turn'[u].limit[k] = turn[u].limit[k]
               /\ turn'[u].heard[k] = turn[u].heard[k]
    <3>1. CASE u = t
      BY <1>8, <1>9, <2>1, <3>1
    <3>2. CASE u # t
      <4>1. turn'[u] = turn[u]
        BY <1>1, <1>4, <3>2
      <4> QED
        BY <2>1, <4>1
    <3> QED
      BY <3>1, <3>2
  <2>2. ASSUME NEW k \in SoftLegs
        PROVE  (turn[t].read[k] = "none") <=> (new.read[k] = "none")
    BY <1>1, <1>3, <1>6
  <2>3. CASE /\ new.pc = turn[t].pc /\ new.denial = turn[t].denial /\ new.cause = turn[t].cause
             /\ new.refused = turn[t].refused
    <3>1. /\ new.pc \in {"idle", "cleared", "upstream", "delivering"} => turn[t].denial = "none"
          /\ new.pc = "delivering" => new.delivered
      BY <1>1, <1>6, <2>3 DEF DenialHeld
    <3> QED
      BY <1>1, <1>6, <1>8, <2>1, <2>2, <2>3, <3>1, DenialStays
  <2>4. CASE /\ stop /\ full /\ new.denial = l /\ new.cause = t
             /\ new.pc = IF turn[t].pc = "upstream" THEN "refused" ELSE turn[t].pc
    <3>1. ~turn[t].delivered /\ turn[t].pc \notin {"idle", "cleared"}
      BY <1>1, <2>4 DEF stop, Abortable, AskHeld
    <3>2. new.pc \notin {"idle", "cleared", "upstream", "delivering"}
      BY <1>1, <2>4, <3>1 DEF DenialHeld
    <3>3. new.read[l] # "none" /\ new.limit[l] = m
      BY <1>3, <1>6
    <3> QED
      BY <1>8, <1>10, <2>4, <3>2, <3>3 DEF DenialHeld
  <2> QED
    BY <1>7, <2>3, <2>4
<1> HIDE DEF m
<1>13. mark' \in [Marks -> Nat] /\ lastHeard' \in [Marks -> SoftTurns \cup {Nobody}]
  BY <1>1, <1>2, <1>4
<1>14. ASSUME NEW k \in SoftLegs, NEW n \in Limits
       PROVE  \/ MarkHeld(k, n)'
              \/ mark'[<<k, n>>] = mark[<<k, n>>] /\ lastHeard'[<<k, n>>] = lastHeard[<<k, n>>]
  <2>1. <<k, n>> \in Marks
    BY DEF Marks, Limits
  <2>2. CASE UNCHANGED <<mark, lastHeard>>
    BY <2>2
  <2>3. CASE /\ mark' = [mark EXCEPT ![<<l, m>>] = until]
             /\ lastHeard' = [lastHeard EXCEPT ![<<l, m>>] = t]
             /\ until = 0 \/ (until = softNow + FreshFor /\ full)
    <3>1. CASE <<k, n>> # <<l, m>>
      BY <1>1, <2>1, <2>3, <3>1
    <3>2. CASE <<k, n>> = <<l, m>>
      <4>1. k = l /\ n = m /\ mark'[<<k, n>>] = until /\ lastHeard'[<<k, n>>] = t
        BY <1>1, <2>1, <2>3, <3>2
      <4>2. turn'[t].heard[l] = softNow /\ softNow' = softNow
        BY <1>1, <1>3, <1>6, <1>8
      <4>3. CASE until = 0
        BY <4>1, <4>3 DEF MarkHeld
      <4>4. CASE until = softNow + FreshFor /\ full
        <5>1. /\ t \in SoftTurns /\ <<t, l>> \in softFull'
              /\ turn'[t].read[l] = "done" /\ turn'[t].limit[l] = m
          BY <1>3, <1>5, <1>1, <1>6, <1>8, <4>4 DEF m
        <5>2. mark'[<<l, m>>] = turn'[t].heard[l] + FreshFor /\ turn'[t].heard[l] <= softNow'
          BY <1>1, <4>1, <4>2, <4>4
        <5> QED
          BY <4>1, <5>1, <5>2 DEF MarkHeld, Grounded
      <4> QED
        BY <2>3, <4>3, <4>4
    <3> QED
      BY <3>1, <3>2
  <2> QED
    BY <1>4, <2>2, <2>3
<1>15. /\ new \in Turns /\ turn' = [turn EXCEPT ![t] = new]
       /\ softFull \subseteq softFull' /\ softFull' \subseteq SoftTurns \X SoftLegs
       /\ UNCHANGED <<softNow, softLimit, softCharged, softHeld>>
  BY <1>1, <1>4, <1>6
<1> HIDE DEF stopped
<1> QED
  BY <1>9, <1>11, <1>12, <1>13, <1>14, <1>15, TurnMoves

(* The ledgers, configuration and time: whoever asks meanwhile is noted.   *)
LEMMA SettingSteps ==
  ASSUME SoftInv,
         \/ \E l \in SoftLegs : SoftCharge(l) \/ HoldPlaced(l) \/ HoldEnds(l)
         \/ \E l \in SoftLegs, limit \in SoftLimits : ChangeLimit(l, limit)
         \/ SoftTick
         \/ UNCHANGED softVars
  PROVE  SoftInv'
<1> USE SoftBudgetType
<1>1. /\ turn \in [SoftTurns -> Turns] /\ softCharged \in [SoftLegs -> Nat]
      /\ softHeld \in [SoftLegs -> Nat] /\ softNow \in Nat
      /\ mark \in [Marks -> Nat] /\ softLimit \in [SoftLegs -> SoftLimits]
      /\ lastHeard \in [Marks -> SoftTurns \cup {Nobody}]
      /\ softFull \subseteq SoftTurns \X SoftLegs
  BY DEF SoftInv, SoftTyped
<1>2. /\ UNCHANGED <<mark, lastHeard, turn>> /\ softNow' \in Nat /\ softNow <= softNow'
      /\ softLimit' \in [SoftLegs -> SoftLimits]
      /\ softCharged' \in [SoftLegs -> Nat] /\ softHeld' \in [SoftLegs -> Nat]
      /\ \/ UNCHANGED <<softCharged, softHeld, softFull>>
         \/ softFull' = softFull \cup
              FullFor(turn, [k \in SoftLegs |-> softCharged'[k] + softHeld'[k]])
  <2>1. CASE \E l \in SoftLegs : SoftCharge(l) \/ HoldPlaced(l) \/ HoldEnds(l)
    <3>1. PICK l \in SoftLegs, charged \in Nat, held \in Nat : LedgerMoves(l, charged, held)
      <4>1. PICK l \in SoftLegs : SoftCharge(l) \/ HoldPlaced(l) \/ HoldEnds(l)
        BY <2>1
      <4>2. softCharged[l] \in Nat /\ softHeld[l] \in Nat
        BY <1>1
      <4>3. ASSUME HoldEnds(l)
            PROVE  \E charged \in Nat, held \in Nat : LedgerMoves(l, charged, held)
        <5>1. PICK cost \in 0..MaxSoftSpent : LedgerMoves(l, softCharged[l] + cost, softHeld[l] - 1)
          BY <4>3 DEF HoldEnds
        <5>2. softCharged[l] + cost \in Nat /\ softHeld[l] - 1 \in Nat
          BY <4>2, <4>3 DEF HoldEnds
        <5> QED
          BY <5>1, <5>2
      <4>4. softCharged[l] + 1 \in Nat /\ softHeld[l] + 1 \in Nat
        BY <4>2
      <4> QED
        BY <4>1, <4>2, <4>3, <4>4 DEF SoftCharge, HoldPlaced
    <3> QED
      BY <1>1, <3>1 DEF LedgerMoves
  <2>2. CASE \/ \E l \in SoftLegs, limit \in SoftLimits : ChangeLimit(l, limit)
             \/ SoftTick
             \/ UNCHANGED softVars
    BY <1>1, <2>2 DEF ChangeLimit, SoftTick, softVars, softLedger
  <2> QED
    BY <2>1, <2>2
<1>3. softFull \subseteq softFull' /\ softFull' \subseteq SoftTurns \X SoftLegs
  BY <1>1, <1>2 DEF FullFor
<1>4. ASSUME NEW u, NEW l \in SoftLegs, NEW m, Grounded(u, l, m) PROVE Grounded(u, l, m)'
  BY <1>2, <1>3, <1>4 DEF Grounded
<1>5. ASSUME NEW l \in SoftLegs, NEW m \in Limits PROVE MarkHeld(l, m)'
  <2>1. MarkHeld(l, m)
    BY DEF SoftInv
  <2>2. ASSUME Grounded(lastHeard[<<l, m>>], l, m)
        PROVE  turn[lastHeard[<<l, m>>]].heard[l] \in Nat
    BY <1>1, <2>2, TurnParts DEF Grounded
  <2> QED
    BY <1>1, <1>2, <1>4, <2>1, <2>2 DEF MarkHeld
<1>6. ASSUME NEW t \in SoftTurns PROVE AskHeld(t)' /\ DenialHeld(t)'
  <2>1. AskHeld(t) /\ DenialHeld(t)
    BY DEF SoftInv
  <2>2. AskHeld(t)'
    BY <1>2, <1>3, <2>1 DEF AskHeld, FullFor, EffectiveSpent
  <2>3. DenialHeld(t)'
    BY <1>2, <1>4, <2>1 DEF DenialHeld
  <2> QED
    BY <2>2, <2>3
<1> QED
  BY <1>1, <1>2, <1>3, <1>5, <1>6 DEF SoftInv, SoftTyped

(* softBudgetPreflight and the checks a turn runs beside its provider      *)
(* call: for any number of turns, legs and limits, however the ledger's    *)
(* total rises and falls, a 402 rests on a status that found the ledger at *)
(* the turn's limit, its own or a recent one, and a turn that is delivered *)
(* was not also refused.                                                   *)
THEOREM SoftVerdictsHold == SoftSpec => []SoftVerdict
<1>1. SoftInv /\ [SoftNext]_softVars => SoftInv'
  BY PreflightStep, SendStep, DispatchSteps, LedgerStatusStep, StatusSteps, SettingSteps DEF SoftNext
<1>2. SoftInv => SoftVerdict
  <2> SUFFICES ASSUME SoftInv PROVE DenialIsGrounded /\ NeverBoth
    BY DEF SoftVerdict
  <2>1. ASSUME NEW t \in SoftTurns PROVE DenialHeld(t) /\ turn[t].denial \in SoftLegs \cup {"none"}
    <3>1. turn[t] \in Turns
      BY DEF SoftInv, SoftTyped
    <3> QED
      BY <3>1 DEF SoftInv, Turns
  <2>2. DenialIsGrounded
    BY <2>1 DEF DenialIsGrounded, DenialHeld, Grounded
  <2> QED
    BY <2>1, <2>2 DEF NeverBoth, DenialHeld
<1> QED
  BY <1>1, <1>2, SoftInvInit, PTL DEF SoftSpec

-----------------------------------------------------------------------------
(***************************************************************************)
(* Budget overrides.  Every save raises the stamp, so an administrator who *)
(* names the stored stamp is looking at the stored limits.                 *)
(***************************************************************************)
Overrides == [limits : Caps \cup {"absent"}, at : Nat]
People == [cap : Overrides, groups : 0..1]
Callers == [pc : {"idle", "viewed", "saved", "conflict", "profiled"}, view : People,
            blind : BOOLEAN]

ViewHeld(a) ==
  /\ admin[a].view.cap.at <= member.cap.at
  /\ admin[a].view.cap.at = member.cap.at => admin[a].view.cap = member.cap

CapsInv ==
  /\ member \in People /\ admin \in [Admins -> Callers]
  /\ \A a \in Admins : ViewHeld(a)

(* The clock, raised past the stored stamp.                                *)
LEMMA StampRises ==
  ASSUME NEW clock \in Nat, member \in People
  PROVE  Stamp(clock) \in Nat /\ Stamp(clock) > member.cap.at
<1> DEFINE b == member.cap.at + 1
           S == {clock, b}
           P(x) == x \in S /\ \A y \in S : x >= y
<1>1. member.cap.at \in Nat /\ b \in Nat
  BY DEF People, Overrides
<1> HIDE DEF b
<1>2. \E x : P(x)
  <2>1. CASE clock >= b
    BY <1>1, <2>1
  <2>2. CASE ~(clock >= b)
    BY <1>1, <2>2
  <2> QED
    BY <2>1, <2>2
<1>3. Max(S) = CHOOSE x : P(x)
  BY DEF Max
<1>4. P(Max(S))
  BY <1>2, <1>3
<1>5. Stamp(clock) = Max(S)
  BY DEF Stamp, b
<1>6. Stamp(clock) \in Nat /\ Stamp(clock) >= b
  BY <1>1, <1>4, <1>5
<1> QED
  BY <1>1, <1>6 DEF b

(* The override stays, whatever else of the record changes.                *)
LEMMA CapStays ==
  ASSUME CapsInv, member' \in People, member'.cap = member.cap, admin' \in [Admins -> Callers],
         \A a \in Admins : admin'[a].view \in {admin[a].view, member}
  PROVE  CapsInv'
<1>1. ASSUME NEW a \in Admins PROVE ViewHeld(a)'
  BY DEF CapsInv, ViewHeld, People, Overrides
<1> QED
  BY <1>1 DEF CapsInv

LEMMA CapsSaveStep ==
  ASSUME CapsInv, NEW a \in Admins, NEW limits \in Caps, NEW clock \in 0..MaxStamp,
         CapsSave(a, limits, clock)
  PROVE  CapsInv' /\ CapsNotLost /\ StaleProfileHarmless
<1> USE BudgetCapsType
<1>1. member \in People /\ admin \in [Admins -> Callers] /\ admin[a] \in Callers
      /\ admin[a].pc = "viewed" /\ ViewHeld(a)
  BY DEF CapsInv, CapsSave
<1>2. Stamp(clock) \in Nat /\ Stamp(clock) > member.cap.at /\ member.cap.at \in Nat
  BY <1>1, StampRises DEF People, Overrides
<1>3. CASE /\ admin[a].blind \/ admin[a].view.cap.at = member.cap.at
           /\ member' = [member EXCEPT !.cap = [limits |-> limits, at |-> Stamp(clock)]]
           /\ admin' = [admin EXCEPT ![a].pc = "saved"]
  <2> DEFINE new == [limits |-> limits, at |-> Stamp(clock)]
  <2>1. new \in Overrides /\ new.at = Stamp(clock)
    BY <1>2 DEF Overrides
  <2>2. member' = [member EXCEPT !.cap = new]
    BY <1>3
  <2> HIDE DEF new
  <2>3. member' \in People /\ member'.cap = new
    BY <1>1, <2>1, <2>2 DEF People
  <2>4. admin' \in [Admins -> Callers] /\ admin'[a].pc = "saved"
        /\ \A e \in Admins : admin'[e].view = admin[e].view
    BY <1>1, <1>3 DEF Callers
  <2>5. ASSUME NEW e \in Admins PROVE ViewHeld(e)'
    <3>1. admin[e].view.cap.at <= member.cap.at /\ admin[e].view.cap.at \in Nat
      BY <1>1 DEF CapsInv, ViewHeld, Callers, People, Overrides
    <3> QED
      BY <1>2, <2>1, <2>3, <2>4, <3>1 DEF ViewHeld
  <2>6. CapsNotLost
    BY <1>1, <1>3 DEF CapsNotLost, ViewHeld
  <2>7. StaleProfileHarmless
    BY <1>1, <2>3, <2>4 DEF StaleProfileHarmless
  <2> QED
    BY <2>3, <2>4, <2>5, <2>6, <2>7 DEF CapsInv
<1>4. CASE UNCHANGED member /\ admin' = [admin EXCEPT ![a].pc = "conflict"]
  <2>1. admin' \in [Admins -> Callers] /\ admin'[a].pc = "conflict"
        /\ \A e \in Admins : admin'[e].view = admin[e].view /\ (e # a => admin'[e] = admin[e])
    BY <1>1, <1>4 DEF Callers
  <2> QED
    BY <1>1, <1>4, <2>1, CapStays DEF CapsNotLost, StaleProfileHarmless
<1> QED
  BY <1>3, <1>4 DEF CapsSave

LEMMA ProfileSaveStep ==
  ASSUME CapsInv, NEW a \in Admins, NEW groups \in 0..1, ProfileSave(a, groups)
  PROVE  CapsInv' /\ CapsNotLost /\ StaleProfileHarmless
<1>1. /\ member \in People /\ admin \in [Admins -> Callers] /\ admin[a] \in Callers
      /\ admin' = [admin EXCEPT ![a].pc = "profiled"]
      /\ member' = [admin[a].view EXCEPT !.groups = groups, !.cap = member.cap]
  BY DEF CapsInv, ProfileSave, ProfileUpdate
<1>2. admin[a].view \in People
  BY <1>1 DEF Callers
<1>3. member' \in People /\ member'.cap = member.cap
  BY <1>1, <1>2 DEF People
<1>4. admin' \in [Admins -> Callers] /\ admin'[a].pc = "profiled"
      /\ \A e \in Admins : admin'[e].view = admin[e].view /\ (e # a => admin'[e] = admin[e])
  BY <1>1 DEF Callers
<1> QED
  BY <1>3, <1>4, CapStays DEF CapsNotLost, StaleProfileHarmless

LEMMA CapsCallerSteps ==
  ASSUME CapsInv, NEW a \in Admins, CapsView(a) \/ CapsAgain(a)
  PROVE  CapsInv' /\ CapsNotLost /\ StaleProfileHarmless
<1>1. member \in People /\ admin \in [Admins -> Callers] /\ UNCHANGED member
  BY DEF CapsInv, CapsView, CapsAgain
<1>2. /\ admin' \in [Admins -> Callers] /\ admin'[a].pc # "saved"
      /\ admin'[a].view \in {admin[a].view, member} /\ \A e \in Admins \ {a} : admin'[e] = admin[e]
  <2>1. CASE CapsView(a)
    <3>1. PICK blind \in BOOLEAN :
            admin' = [admin EXCEPT ![a] = [pc |-> "viewed", view |-> member, blind |-> blind]]
      BY <2>1 DEF CapsView
    <3> DEFINE new == [pc |-> "viewed", view |-> member, blind |-> blind]
    <3>2. new \in Callers /\ new.pc = "viewed" /\ new.view = member
      BY <1>1 DEF Callers
    <3> HIDE DEF new
    <3>3. admin' = [admin EXCEPT ![a] = new]
      BY <3>1 DEF new
    <3> QED
      BY <1>1, <3>2, <3>3
  <2>2. CASE CapsAgain(a)
    BY <1>1, <2>2 DEF CapsAgain, Callers
  <2> QED
    BY <2>1, <2>2
<1> QED
  BY <1>1, <1>2, CapStays DEF CapsNotLost, StaleProfileHarmless

LEMMA ReconcileStep ==
  ASSUME CapsInv, Reconcile
  PROVE  CapsInv' /\ CapsNotLost /\ StaleProfileHarmless
<1>1. member \in People /\ admin \in [Admins -> Callers] /\ UNCHANGED admin
  BY DEF CapsInv, Reconcile
<1>2. member' \in People /\ member'.cap = member.cap
  BY <1>1 DEF Reconcile, People
<1> QED
  BY <1>1, <1>2, CapStays DEF CapsNotLost, StaleProfileHarmless

(* mutateBudgetCaps and the writers of the same user record: for any       *)
(* number of administrators and any clock, a save that names its revision  *)
(* replaces exactly the limits its author saw, and a profile saved from an *)
(* old page restores no limits.                                            *)
THEOREM NoOverrideIsUndone == CapsSpec => OverridesStand
<1>1. CapsInit => CapsInv
  BY DEF CapsInit, CapsInv, ViewHeld, NoCap, People, Overrides, Callers
<1>2. CapsInv /\ [CapsNext]_capsVars => CapsInv'
  <2>1. CapsInv /\ UNCHANGED capsVars => CapsInv'
    BY DEF CapsInv, capsVars, ViewHeld
  <2> QED
    BY <2>1, CapsSaveStep, ProfileSaveStep, CapsCallerSteps, ReconcileStep DEF CapsNext
<1>3. CapsInv /\ CapsNext => CapsNotLost /\ StaleProfileHarmless
  BY CapsSaveStep, ProfileSaveStep, CapsCallerSteps, ReconcileStep DEF CapsNext
<1> QED
  BY <1>1, <1>2, <1>3, PTL DEF CapsSpec, OverridesStand

(***************************************************************************)
(* Proxy keys.  A mutation runs only behind the import of its whole table, *)
(* so nothing is taken over from KV after one: this is what lets a         *)
(* mutation stand.  An admission that has read its owner knows that KV has *)
(* nothing more to say of it.                                              *)
(***************************************************************************)
Progress == [pc : {"idle", "listing", "updated", "done"},
             import : [Tables -> {"none", "asked", "done", "failed"}]]

KeyMutated(k) == last[k] # Untouched => cred[k] = last[k] /\ "credentials" \in meta

EditorHeld(e) ==
  /\ editor[e].pc # "idle" => e \in DOMAIN kv.edits
  /\ editor[e].import["credentials"] = "done" /\ editor[e].pc = "listing"
        => "credentials" \in meta

OwnerKnown(m) == "users" \in meta \/ user[m] # Missing \/ kv.user[m] = Missing
AdmissionHeld(a) ==
  /\ adm[a].pc = "user" => adm[a].row.who \in Members
  /\ adm[a].pc = "finish" /\ adm[a].row.who \in Members => OwnerKnown(adm[a].row.who)

AuthorityTyped ==
  /\ kv \in Snapshots
  /\ cred = [k \in KeyIds |-> cred[k]] /\ last = [k \in KeyIds |-> last[k]]
  /\ user = [m \in Members |-> user[m]]
  /\ editor \in [Editors -> Progress]
  /\ adm = [a \in Admissions |-> adm[a]]
  /\ \A a \in Admissions :
       adm[a] = [pc |-> adm[a].pc, key |-> adm[a].key, secret |-> adm[a].secret, row |-> adm[a].row]

AuthorityInv ==
  /\ AuthorityTyped
  /\ \A k \in KeyIds : KeyMutated(k)
  /\ \A e \in Editors : EditorHeld(e)
  /\ \A a \in Admissions : AdmissionHeld(a)

LEMMA AuthorityBegins == AuthorityInit => AuthorityInv
<1> SUFFICES ASSUME AuthorityInit PROVE AuthorityInv
  OBVIOUS
<1>1. editor \in [Editors -> Progress] /\ \A e \in Editors : editor[e].pc = "idle"
  BY DEF AuthorityInit, Progress
<1>2. \A a \in Admissions :
        /\ adm[a] = [pc |-> "idle", key |-> 0, secret |-> 0, row |-> Missing]
        /\ adm[a].pc = "idle"
        /\ adm[a] = [pc |-> adm[a].pc, key |-> adm[a].key, secret |-> adm[a].secret,
                     row |-> adm[a].row]
  BY DEF AuthorityInit
<1>3. \A k \in KeyIds : last[k] = Untouched
  BY DEF AuthorityInit
<1>4. AuthorityTyped
  BY <1>1, <1>2 DEF AuthorityInit, AuthorityTyped
<1> QED
  BY <1>1, <1>2, <1>3, <1>4 DEF AuthorityInv, KeyMutated, EditorHeld, AdmissionHeld

(* A step that leaves the handlers of the credential API and the mutations *)
(* alone and imports rows only into tables that are not marked.            *)
LEMMA RowsStay ==
  ASSUME AuthorityInv, UNCHANGED <<kv, last>>, meta \subseteq meta',
         cred' = [k \in KeyIds |-> cred'[k]], user' = [m \in Members |-> user'[m]],
         "credentials" \in meta => cred' = cred,
         \A m \in Members : "users" \notin meta' /\ user[m] # Missing => user'[m] # Missing
  PROVE  /\ \A k \in KeyIds : KeyMutated(k)'
         /\ \A m \in Members : OwnerKnown(m) => OwnerKnown(m)'
<1>1. ASSUME NEW k \in KeyIds PROVE KeyMutated(k)'
  BY DEF AuthorityInv, KeyMutated
<1>2. ASSUME NEW m \in Members, OwnerKnown(m) PROVE OwnerKnown(m)'
  BY <1>2 DEF OwnerKnown
<1> QED
  BY <1>1, <1>2

LEMMA RowsImported ==
  ASSUME AuthorityInv, NEW ids, NEW t
  PROVE  /\ Imported(t, cred, kv.cred, ids) = [k \in KeyIds |-> Imported(t, cred, kv.cred, ids)[k]]
         /\ Imported(t, user, kv.user, ids) = [m \in Members |-> Imported(t, user, kv.user, ids)[m]]
         /\ t \in meta => Imported(t, cred, kv.cred, ids) = cred
         /\ t \in meta => Imported(t, user, kv.user, ids) = user
         /\ \A k \in KeyIds : t \notin meta /\ cred[k] # Missing
               => Imported(t, cred, kv.cred, ids)[k] = cred[k]
         /\ \A m \in Members : Imported(t, user, kv.user, ids)[m] =
               IF t \notin meta /\ m \in ids /\ user[m] = Missing THEN kv.user[m] ELSE user[m]
<1>1. DOMAIN cred = KeyIds /\ DOMAIN user = Members
  BY DEF AuthorityInv, AuthorityTyped
<1> QED
  BY <1>1 DEF AuthorityInv, AuthorityTyped, Imported

LEMMA EditorMoves ==
  ASSUME AuthorityInv, NEW e \in Editors, NEW p \in Progress, editor' = [editor EXCEPT ![e] = p],
         p.pc # "idle" => e \in DOMAIN kv.edits,
         p.pc = "listing" /\ p.import["credentials"] = "done" => "credentials" \in meta',
         meta \subseteq meta', kv' = kv
  PROVE  editor' \in [Editors -> Progress] /\ \A d \in Editors : EditorHeld(d)'
<1>1. editor \in [Editors -> Progress]
  BY DEF AuthorityInv, AuthorityTyped
<1>2. editor' \in [Editors -> Progress] /\ editor'[e] = p
      /\ \A d \in Editors \ {e} : editor'[d] = editor[d]
  BY <1>1
<1>3. ASSUME NEW d \in Editors PROVE EditorHeld(d)'
  BY <1>2 DEF EditorHeld, AuthorityInv
<1> QED
  BY <1>2, <1>3

LEMMA EditSteps ==
  ASSUME AuthorityInv, NEW e \in Editors, EditBegins(e) \/ ListsFail(e)
  PROVE  AuthorityInv'
<1>1. /\ editor \in [Editors -> Progress] /\ editor[e] \in Progress /\ EditorHeld(e)
      /\ UNCHANGED <<kv, meta, cred, user, adm, last>>
  BY DEF EditBegins, ListsFail, AuthorityInv, AuthorityTyped
<1>2. PICK p \in Progress :
        /\ editor' = [editor EXCEPT ![e] = p] /\ e \in DOMAIN kv.edits
        /\ p.pc = "listing" => p.import["credentials"] # "done"
  <2>1. CASE EditBegins(e)
    <3> DEFINE p == [pc |-> "listing",
            import |-> [t \in Tables |->
               IF t = "bindings" /\ kv.edits[e].scope # "personal" THEN "done" ELSE "asked"]]
    <3>1. p \in Progress /\ p.import["credentials"] # "done"
      BY DEF Progress, Tables
    <3>2. editor' = [editor EXCEPT ![e] = p] /\ e \in DOMAIN kv.edits
      BY <2>1 DEF EditBegins
    <3> QED
      BY <3>1, <3>2
  <2>2. CASE ListsFail(e)
    <3> DEFINE p == [editor[e] EXCEPT !.pc = "done"]
    <3>1. p \in Progress /\ p.pc = "done"
      BY <1>1 DEF Progress
    <3>2. editor' = [editor EXCEPT ![e] = p] /\ e \in DOMAIN kv.edits
      BY <1>1, <2>2 DEF ListsFail, EditorHeld
    <3> QED
      BY <3>1, <3>2
  <2> QED
    BY <2>1, <2>2
<1>3. editor' \in [Editors -> Progress] /\ \A d \in Editors : EditorHeld(d)'
  BY <1>1, <1>2, EditorMoves
<1>4. AuthorityTyped'
  BY <1>1, <1>3 DEF AuthorityInv, AuthorityTyped
<1>5. (\A k \in KeyIds : KeyMutated(k)') /\ (\A a \in Admissions : AdmissionHeld(a)')
  BY <1>1 DEF AuthorityInv, KeyMutated, AdmissionHeld, OwnerKnown
<1> QED
  BY <1>3, <1>4, <1>5 DEF AuthorityInv

LEMMA ImportStep ==
  ASSUME AuthorityInv, NEW e \in Editors, NEW t \in Tables, ImportTable(e, t)
  PROVE  AuthorityInv'
<1>1. /\ editor \in [Editors -> Progress] /\ editor[e] \in Progress /\ EditorHeld(e)
      /\ UNCHANGED <<kv, adm, last>> /\ editor[e].pc = "listing" /\ e \in DOMAIN kv.edits
  BY DEF ImportTable, AuthorityInv, AuthorityTyped, EditorHeld
<1>2. PICK r \in {"done", "failed"} :
        /\ editor' = [editor EXCEPT ![e].import[t] = r]
        /\ meta' = IF r = "done" THEN meta \cup {t} ELSE meta
        /\ cred' = IF r = "done" /\ t = "credentials"
                   THEN Imported(t, cred, kv.cred, KeyIds) ELSE cred
        /\ user' = IF r = "done" /\ t = "users"
                   THEN Imported(t, user, kv.user, Members) ELSE user
  BY DEF ImportTable
<1> DEFINE p == [editor[e] EXCEPT !.import[t] = r]
<1>3. /\ p \in Progress /\ p.pc = "listing" /\ editor' = [editor EXCEPT ![e] = p]
      /\ p.import["credentials"] = "done" => "credentials" \in meta'
  <2>1. p \in Progress /\ p.pc = "listing"
    BY <1>1 DEF Progress
  <2>2. editor' = [editor EXCEPT ![e] = p]
    BY <1>1, <1>2 DEF Progress
  <2>3. p.import["credentials"] = IF t = "credentials" THEN r
                                  ELSE editor[e].import["credentials"]
    BY <1>1 DEF Progress, Tables
  <2> QED
    BY <1>1, <1>2, <2>1, <2>2, <2>3 DEF EditorHeld
<1> HIDE DEF p
<1>4. meta \subseteq meta'
  BY <1>2
<1>5. editor' \in [Editors -> Progress] /\ \A d \in Editors : EditorHeld(d)'
  BY <1>1, <1>3, <1>4, EditorMoves
<1>6. /\ cred' = [k \in KeyIds |-> cred'[k]] /\ user' = [m \in Members |-> user'[m]]
      /\ "credentials" \in meta => cred' = cred
      /\ \A m \in Members : "users" \notin meta' /\ user[m] # Missing => user'[m] # Missing
  <2>1. /\ cred = [k \in KeyIds |-> cred[k]] /\ user = [m \in Members |-> user[m]]
    BY DEF AuthorityInv, AuthorityTyped
  <2>2. cred' = [k \in KeyIds |-> cred'[k]] /\ ("credentials" \in meta => cred' = cred)
    BY <1>2, <2>1, RowsImported, ZenonT(60)
  <2>3. CASE r = "done" /\ t = "users"
    <3>1. user' = [m \in Members |-> user'[m]]
      BY <1>2, <2>3, RowsImported, ZenonT(60)
    <3> QED
      BY <1>2, <2>2, <2>3, <3>1
  <2>4. CASE ~(r = "done" /\ t = "users")
    BY <1>2, <2>1, <2>2, <2>4
  <2> QED
    BY <2>3, <2>4
<1>7. (\A k \in KeyIds : KeyMutated(k)') /\ (\A m \in Members : OwnerKnown(m) => OwnerKnown(m)')
  BY <1>1, <1>4, <1>6, RowsStay
<1>8. AuthorityTyped' /\ \A a \in Admissions : AdmissionHeld(a)'
  BY <1>1, <1>5, <1>6, <1>7 DEF AuthorityInv, AuthorityTyped, AdmissionHeld
<1> QED
  BY <1>5, <1>7, <1>8 DEF AuthorityInv

LEMMA MutationStep ==
  ASSUME AuthorityInv, NEW e \in Editors, MutateCredential(e)
  PROVE  AuthorityInv'
<1>1. /\ editor \in [Editors -> Progress] /\ editor[e] \in Progress /\ EditorHeld(e)
      /\ UNCHANGED <<kv, meta, user, adm>> /\ editor[e].pc = "listing" /\ e \in DOMAIN kv.edits
      /\ "credentials" \in meta
  BY DEF MutateCredential, Listed, Tables, AuthorityInv, AuthorityTyped, EditorHeld
<1>2. PICK pc \in {"updated", "done"} : editor' = [editor EXCEPT ![e].pc = pc]
  BY DEF MutateCredential
<1> DEFINE p == [editor[e] EXCEPT !.pc = pc]
<1>3. p \in Progress /\ p.pc = pc /\ editor' = [editor EXCEPT ![e] = p]
  BY <1>1, <1>2 DEF Progress
<1> HIDE DEF p
<1>4. editor' \in [Editors -> Progress] /\ \A d \in Editors : EditorHeld(d)'
  BY <1>1, <1>3, EditorMoves
<1>5. /\ cred' = [k \in KeyIds |-> cred'[k]] /\ last' = [k \in KeyIds |-> last'[k]]
      /\ \A k \in KeyIds : KeyMutated(k)'
  <2>1. CASE UNCHANGED <<cred, last>>
    BY <1>1, <2>1 DEF AuthorityInv, AuthorityTyped, KeyMutated
  <2>2. CASE /\ cred' = Mutated(kv.edits[e])
             /\ last' = [k \in KeyIds |->
                   IF k = kv.edits[e].key \/ k \in Pruned(kv.edits[e]) THEN Mutated(kv.edits[e])[k]
                   ELSE last[k]]
    <3>1. cred' = [k \in KeyIds |-> cred'[k]] /\ last' = [k \in KeyIds |-> last'[k]]
      BY <2>2 DEF Mutated
    <3>2. ASSUME NEW k \in KeyIds PROVE KeyMutated(k)'
      <4>1. CASE k = kv.edits[e].key \/ k \in Pruned(kv.edits[e])
        BY <1>1, <2>2, <4>1 DEF KeyMutated
      <4>2. CASE ~(k = kv.edits[e].key \/ k \in Pruned(kv.edits[e]))
        <5>1. cred'[k] = cred[k] /\ last'[k] = last[k]
          BY <2>2, <4>2 DEF Mutated
        <5> QED
          BY <1>1, <5>1 DEF AuthorityInv, KeyMutated
      <4> QED
        BY <4>1, <4>2
    <3> QED
      BY <3>1, <3>2
  <2> QED
    BY <2>1, <2>2 DEF MutateCredential
<1>6. AuthorityTyped' /\ \A a \in Admissions : AdmissionHeld(a)'
  BY <1>1, <1>4, <1>5 DEF AuthorityInv, AuthorityTyped, AdmissionHeld, OwnerKnown
<1> QED
  BY <1>4, <1>5, <1>6 DEF AuthorityInv

LEMMA AdministrationStep ==
  ASSUME AuthorityInv,
         \/ \E on \in {"on", "off"} : PutPolicy(on) \/ \E m \in Members : PutUser(m, on)
         \/ \E m \in Members, on \in {"yes", "no"} : PutBinding(m, on)
  PROVE  AuthorityInv'
<1>1. /\ UNCHANGED <<kv, meta, cred, last, editor, adm>>
      /\ user' = user \/ ("users" \in meta /\ \E m \in Members : user' = [user EXCEPT ![m] = user'[m]])
  BY DEF PutPolicy, PutUser, PutBinding
<1>2. user' = [m \in Members |-> user'[m]]
  BY <1>1 DEF AuthorityInv, AuthorityTyped
<1>3. AuthorityTyped'
  BY <1>1, <1>2 DEF AuthorityInv, AuthorityTyped
<1> QED
  BY <1>1, <1>3 DEF AuthorityInv, KeyMutated, EditorHeld, AdmissionHeld, OwnerKnown

(* An admission moves on: the others keep their place.                     *)
LEMMA AdmissionMoves ==
  ASSUME AuthorityInv, NEW a \in Admissions, NEW pc, NEW key, NEW secret, NEW row,
         adm' = [adm EXCEPT ![a] = [pc |-> pc, key |-> key, secret |-> secret, row |-> row]],
         UNCHANGED <<kv, meta, editor, last>>,
         cred' = [k \in KeyIds |-> cred'[k]], user' = [m \in Members |-> user'[m]],
         "credentials" \in meta => cred' = cred,
         \A m \in Members : "users" \notin meta /\ user[m] # Missing => user'[m] # Missing,
         pc = "user" => row.who \in Members,
         pc = "finish" /\ row.who \in Members => OwnerKnown(row.who)'
  PROVE  AuthorityInv'
<1>1. (\A k \in KeyIds : KeyMutated(k)') /\ (\A m \in Members : OwnerKnown(m) => OwnerKnown(m)')
  BY RowsStay
<1>2. /\ adm' = [b \in Admissions |-> adm'[b]]
      /\ adm'[a] = [pc |-> pc, key |-> key, secret |-> secret, row |-> row]
      /\ \A b \in Admissions \ {a} : adm'[b] = adm[b]
  BY DEF AuthorityInv, AuthorityTyped
<1>3. adm'[a].pc = pc /\ adm'[a].key = key /\ adm'[a].secret = secret /\ adm'[a].row = row
  BY <1>2
<1>4. AuthorityTyped'
  BY <1>2, <1>3 DEF AuthorityInv, AuthorityTyped
<1>5. ASSUME NEW b \in Admissions PROVE AdmissionHeld(b)'
  <2>1. CASE b = a
    BY <1>3, <2>1 DEF AdmissionHeld
  <2>2. CASE b # a
    BY <1>1, <1>2, <2>2 DEF AuthorityInv, AdmissionHeld
  <2> QED
    BY <2>1, <2>2
<1>6. \A e \in Editors : EditorHeld(e)'
  BY DEF AuthorityInv, EditorHeld
<1> QED
  BY <1>1, <1>4, <1>5, <1>6 DEF AuthorityInv

(* Where the synchronous part of an admission ends.                        *)
LEMMA OwnerChecked ==
  ASSUME NEW row, NEW secret, NEW pol
  PROVE  /\ AdmitOwner(row) = "user" => row.who \in Members
         /\ AdmitOwner(row) = "finish" /\ row.who \in Members => OwnerKnown(row.who)
         /\ AdmitPolicy(row, pol) \in {AdmitOwner(row), "denied"}
         /\ AdmitKey(row, secret) \in {AdmitPolicy(row, policy), "policy", "denied"}
  BY DEF AdmitOwner, AdmitPolicy, AdmitKey, OwnerKnown

LEMMA PlaceMoves ==
  ASSUME NEW a \in Admissions, NEW pc, NEW row,
         adm[a] = [pc |-> adm[a].pc, key |-> adm[a].key, secret |-> adm[a].secret,
                   row |-> adm[a].row]
  PROVE  /\ [adm EXCEPT ![a].pc = pc] =
              [adm EXCEPT ![a] = [pc |-> pc, key |-> adm[a].key, secret |-> adm[a].secret,
                                  row |-> adm[a].row]]
         /\ [adm EXCEPT ![a].row = row, ![a].pc = pc] =
              [adm EXCEPT ![a] = [pc |-> pc, key |-> adm[a].key, secret |-> adm[a].secret,
                                  row |-> row]]
<1>1. PICK p, k, s, r : adm[a] = [pc |-> p, key |-> k, secret |-> s, row |-> r]
  OBVIOUS
<1> DEFINE old == [pc |-> p, key |-> k, secret |-> s, row |-> r]
<1>2. /\ [old EXCEPT !.pc = pc] = [pc |-> pc, key |-> k, secret |-> s, row |-> r]
      /\ [old EXCEPT !.row = row, !.pc = pc] = [pc |-> pc, key |-> k, secret |-> s, row |-> row]
      /\ old.key = k /\ old.secret = s /\ old.row = r
  <2>1. [old EXCEPT !.pc = pc] = [pc |-> pc, key |-> k, secret |-> s, row |-> r]
    OBVIOUS
  <2>2. [old EXCEPT !.row = row] = [pc |-> p, key |-> k, secret |-> s, row |-> row]
    OBVIOUS
  <2>3. [old EXCEPT !.row = row, !.pc = pc] = [[old EXCEPT !.row = row] EXCEPT !.pc = pc]
    OBVIOUS
  <2>4. [[pc |-> p, key |-> k, secret |-> s, row |-> row] EXCEPT !.pc = pc] =
            [pc |-> pc, key |-> k, secret |-> s, row |-> row]
    OBVIOUS
  <2> QED
    BY <2>1, <2>2, <2>3, <2>4
<1> HIDE DEF old
<1>3. [adm EXCEPT ![a].pc = pc] = [adm EXCEPT ![a] = [adm[a] EXCEPT !.pc = pc]]
  OBVIOUS
<1>4. [adm EXCEPT ![a].row = row, ![a].pc = pc] =
        [adm EXCEPT ![a] = [adm[a] EXCEPT !.row = row, !.pc = pc]]
  OBVIOUS
<1> QED
  BY <1>1, <1>2, <1>3, <1>4 DEF old

LEMMA AdmissionStarts ==
  ASSUME AuthorityInv, NEW a \in Admissions, NEW key, NEW secret, AdmissionBegins(a, key, secret)
  PROVE  AuthorityInv'
<1> DEFINE pc == IF cred[key] = Missing /\ "credentials" \notin meta
                 THEN "credential" ELSE AdmitKey(cred[key], secret)
<1>1. /\ UNCHANGED <<kv, meta, editor, last, cred, user>>
      /\ adm' = [adm EXCEPT ![a] = [pc |-> pc, key |-> key, secret |-> secret, row |-> cred[key]]]
  BY DEF AdmissionBegins
<1>2. /\ pc = "user" => cred[key].who \in Members
      /\ pc = "finish" /\ cred[key].who \in Members => OwnerKnown(cred[key].who)
  BY OwnerChecked
<1>3. pc = "finish" /\ cred[key].who \in Members => OwnerKnown(cred[key].who)'
  BY <1>1, <1>2 DEF OwnerKnown
<1>4. cred' = [k \in KeyIds |-> cred'[k]] /\ user' = [m \in Members |-> user'[m]]
  BY <1>1 DEF AuthorityInv, AuthorityTyped
<1> HIDE DEF pc
<1> QED
  BY <1>1, <1>2, <1>3, <1>4, AdmissionMoves

LEMMA AdmissionContinues ==
  ASSUME AuthorityInv, NEW a \in Admissions,
         AdmissionImportsKey(a) \/ AdmissionImportsPolicy(a) \/ AdmissionSelects(a)
  PROVE  AuthorityInv'
<1> DEFINE rows == Imported("credentials", cred, kv.cred, {adm[a].key})
<1>1. /\ UNCHANGED <<kv, meta, editor, last, user>> /\ cred' \in {cred, rows}
      /\ cred = [k \in KeyIds |-> cred[k]] /\ user = [m \in Members |-> user[m]]
      /\ adm[a] = [pc |-> adm[a].pc, key |-> adm[a].key, secret |-> adm[a].secret,
                   row |-> adm[a].row]
      /\ adm = [b \in Admissions |-> adm[b]]
  BY DEF AdmissionImportsKey, AdmissionImportsPolicy, AdmissionSelects, AuthorityInv, AuthorityTyped
<1>2. /\ cred' = [k \in KeyIds |-> cred'[k]] /\ user' = [m \in Members |-> user'[m]]
      /\ "credentials" \in meta => cred' = cred
  <2>1. rows = [k \in KeyIds |-> rows[k]] /\ ("credentials" \in meta => rows = cred)
    BY RowsImported
  <2>2. CASE cred' = cred
    BY <1>1, <2>2
  <2>3. CASE cred' = rows
    BY <1>1, <2>1, <2>3
  <2> QED
    BY <1>1, <2>2, <2>3
<1>3. \E pc, row :
        /\ adm' = [adm EXCEPT ![a] = [pc |-> pc, key |-> adm[a].key, secret |-> adm[a].secret,
                                      row |-> row]]
        /\ pc = "user" => row.who \in Members
        /\ pc = "finish" /\ row.who \in Members => OwnerKnown(row.who)
  <2>1. CASE AdmissionImportsKey(a)
    <3> DEFINE row == rows[adm[a].key]
               pc == AdmitKey(rows[adm[a].key], adm[a].secret)
    <3>1. adm' = [adm EXCEPT ![a].row = row, ![a].pc = pc]
      BY <2>1 DEF AdmissionImportsKey
    <3>2. /\ pc = "user" => row.who \in Members
          /\ pc = "finish" /\ row.who \in Members => OwnerKnown(row.who)
      BY OwnerChecked
    <3> HIDE DEF row, pc, rows
    <3>3. adm' = [adm EXCEPT ![a] = [pc |-> pc, key |-> adm[a].key, secret |-> adm[a].secret,
                                      row |-> row]]
      BY <1>1, <3>1, PlaceMoves, ZenonT(60)
    <3> QED
      BY <3>2, <3>3
  <2>2. CASE AdmissionImportsPolicy(a)
    <3> DEFINE pc == AdmitPolicy(adm[a].row, ImportedPolicy)
    <3>1. adm' = [adm EXCEPT ![a].pc = pc]
      BY <2>2 DEF AdmissionImportsPolicy
    <3>2. /\ pc = "user" => adm[a].row.who \in Members
          /\ pc = "finish" /\ adm[a].row.who \in Members => OwnerKnown(adm[a].row.who)
      BY OwnerChecked
    <3> HIDE DEF pc
    <3>3. adm' = [adm EXCEPT ![a] = [pc |-> pc, key |-> adm[a].key, secret |-> adm[a].secret,
                                      row |-> adm[a].row]]
      BY <1>1, <3>1, PlaceMoves, ZenonT(60)
    <3> QED
      BY <3>2, <3>3
  <2>3. CASE AdmissionSelects(a)
    <3>1. PICK pc \in {"selected", "denied"} : adm' = [adm EXCEPT ![a].pc = pc]
      BY <2>3 DEF AdmissionSelects
    <3>2. adm' = [adm EXCEPT ![a] = [pc |-> pc, key |-> adm[a].key, secret |-> adm[a].secret,
                                      row |-> adm[a].row]]
      BY <1>1, <3>1, PlaceMoves, ZenonT(60)
    <3> QED
      BY <3>2
  <2> QED
    BY <2>1, <2>2, <2>3
<1>4. PICK pc, row :
        /\ adm' = [adm EXCEPT ![a] = [pc |-> pc, key |-> adm[a].key, secret |-> adm[a].secret,
                                      row |-> row]]
        /\ pc = "user" => row.who \in Members
        /\ pc = "finish" /\ row.who \in Members => OwnerKnown(row.who)
  BY <1>3
<1>5. pc = "finish" /\ row.who \in Members => OwnerKnown(row.who)'
  BY <1>1, <1>4 DEF OwnerKnown
<1> HIDE DEF rows
<1> QED
  BY <1>1, <1>2, <1>4, <1>5, AdmissionMoves

LEMMA OwnerImported ==
  ASSUME AuthorityInv, NEW a \in Admissions, AdmissionImportsOwner(a)
  PROVE  AuthorityInv'
<1> DEFINE who == adm[a].row.who
           rows == Imported("users", user, kv.user, {who})
<1>1. /\ UNCHANGED <<kv, meta, editor, last, cred>> /\ user' = rows /\ who \in Members
      /\ cred = [k \in KeyIds |-> cred[k]] /\ adm = [b \in Admissions |-> adm[b]]
      /\ adm[a] = [pc |-> adm[a].pc, key |-> adm[a].key, secret |-> adm[a].secret,
                   row |-> adm[a].row]
  BY DEF AdmissionImportsOwner, AuthorityInv, AuthorityTyped, AdmissionHeld
<1>2. PICK pc \in {"denied", "finish"} : adm' = [adm EXCEPT ![a].pc = pc]
  BY DEF AdmissionImportsOwner
<1>3. adm' = [adm EXCEPT ![a] = [pc |-> pc, key |-> adm[a].key, secret |-> adm[a].secret,
                                 row |-> adm[a].row]]
  BY <1>1, <1>2, PlaceMoves, ZenonT(60)
<1>4. /\ rows = [m \in Members |-> rows[m]]
      /\ \A m \in Members : rows[m] =
           IF "users" \notin meta /\ m \in {who} /\ user[m] = Missing THEN kv.user[m] ELSE user[m]
  BY RowsImported
<1> HIDE DEF rows
<1> PICK m \in Members : m = who
  BY <1>1
<1>5. OwnerKnown(m)'
  BY <1>1, <1>4 DEF OwnerKnown
<1>6. \A n \in Members : "users" \notin meta /\ user[n] # Missing => user'[n] # Missing
  BY <1>1, <1>4
<1> QED
  BY <1>1, <1>3, <1>4, <1>5, <1>6, AdmissionMoves

LEMMA AuthorityStep == AuthorityInv /\ [AuthorityNext]_authorityVars => AuthorityInv'
<1> SUFFICES ASSUME AuthorityInv, [AuthorityNext]_authorityVars PROVE AuthorityInv'
  OBVIOUS
<1>1. CASE AuthorityNext
  BY <1>1, EditSteps, ImportStep, MutationStep, AdministrationStep, AdmissionStarts,
     AdmissionContinues, OwnerImported DEF AuthorityNext
<1>2. CASE UNCHANGED authorityVars
  BY <1>2 DEF authorityVars, AuthorityInv, AuthorityTyped, KeyMutated, EditorHeld, AdmissionHeld,
     OwnerKnown
<1> QED
  BY <1>1, <1>2

(* A mutation stands: whatever was being read from KV while a key was      *)
(* written, revoked or pruned, the row is what the last mutation made it   *)
(* (mutateCredential behind its lists, initializeCredentials).             *)
THEOREM KeyMutationsStand == AuthoritySpec => []MutationsStand
<1>1. AuthorityInv => MutationsStand
  BY DEF AuthorityInv, MutationsStand, KeyMutated
<1> QED
  BY <1>1, AuthorityBegins, AuthorityStep, PTL DEF AuthoritySpec

(* The limit after a personal create or put: the keys that were enabled,   *)
(* and the one that is written.                                            *)
LEMMA WithinLimit ==
  ASSUME AuthorityInv, NEW edit, edit.key \in KeyIds, edit.scope = "personal",
         edit.op \in {"create", "put"}, HasRoom(edit)
  PROVE  Cardinality(LiveKeys(edit.who, Mutated(edit))) <= KeyLimit
<1> USE AuthorityType
<1> DEFINE rest == LiveKeys(edit.who, cred) \ {edit.key}
           most == rest \cup {edit.key}
<1>1. LiveKeys(edit.who, Mutated(edit)) \subseteq most
  BY DEF LiveKeys, Mutated
<1>2. IsFiniteSet(rest)
  BY FS_Subset DEF LiveKeys
<1>3. Cardinality(rest) < KeyLimit
  BY DEF HasRoom
<1> HIDE DEF rest
<1>4. IsFiniteSet(most) /\ Cardinality(most) <= Cardinality(rest) + 1 /\ Cardinality(rest) \in Nat
  <2>1. Cardinality(rest) \in Nat
    BY <1>2, FS_CardinalityType
  <2>2. /\ IsFiniteSet(most)
        /\ Cardinality(most) = IF edit.key \in rest THEN Cardinality(rest) ELSE Cardinality(rest) + 1
    BY <1>2, FS_AddElement
  <2> QED
    BY <2>1, <2>2
<1>5. Cardinality(LiveKeys(edit.who, Mutated(edit))) <= Cardinality(most)
      /\ Cardinality(LiveKeys(edit.who, Mutated(edit))) \in Nat /\ Cardinality(most) \in Nat
  BY <1>1, <1>4, FS_Subset, FS_CardinalityType
<1> HIDE DEF most
<1> QED
  BY <1>3, <1>4, <1>5

LEMMA LegacyCounted == AuthorityInv /\ AuthorityNext => LegacyKeysCount
<1> SUFFICES ASSUME AuthorityInv, AuthorityNext, NEW e \in Editors,
                    editor[e].pc = "listing", editor'[e].pc = "updated"
             PROVE  LET edit == kv.edits[e] IN
                    /\ edit.op = "create" =>
                         Effective("credentials", cred, kv.cred)[edit.key] = Missing
                    /\ edit.scope = "personal" /\ edit.op \in {"create", "put"} =>
                         Cardinality(LiveKeys(edit.who, Effective("credentials", cred', kv.cred)))
                           <= KeyLimit
  BY DEF LegacyKeysCount
<1> DEFINE edit == kv.edits[e]
<1>1. editor \in [Editors -> Progress]
  BY DEF AuthorityInv, AuthorityTyped
<1>2. MutateCredential(e)
  <2>1. ASSUME NEW d \in Editors, EditBegins(d) \/ (\E t \in Tables : ImportTable(d, t)) \/ ListsFail(d)
        PROVE  FALSE
    BY <1>1, <2>1 DEF EditBegins, ImportTable, ListsFail, Progress
  <2>2. ASSUME NEW d \in Editors, MutateCredential(d) PROVE d = e
    BY <1>1, <2>2 DEF MutateCredential, Progress
  <2>3. editor' # editor
    OBVIOUS
  <2> QED
    BY <2>1, <2>2, <2>3 DEF AuthorityNext, PutPolicy, PutUser, PutBinding, AdmissionBegins,
       AdmissionImportsKey, AdmissionImportsPolicy, AdmissionImportsOwner, AdmissionSelects
<1>3. /\ "credentials" \in meta /\ edit.key \in KeyIds
      /\ cred = [k \in KeyIds |-> cred[k]]
  BY <1>2, AuthorityType DEF MutateCredential, Listed, Tables, AuthorityInv, AuthorityTyped, EditorHeld
<1>4. Permitted(edit) /\ HasRoom(edit) /\ cred' = Mutated(edit)
  BY <1>1, <1>2 DEF MutateCredential, Progress
<1>5. Effective("credentials", cred, kv.cred) = cred
  BY <1>3 DEF Effective, Imported
<1>6. Effective("credentials", cred', kv.cred) = cred'
  BY <1>3, <1>4 DEF Effective, Imported, Mutated
<1>7. edit.op = "create" => cred[edit.key] = Missing
  BY <1>4 DEF Permitted
<1> HIDE DEF edit
<1>8. edit.scope = "personal" /\ edit.op \in {"create", "put"} =>
        Cardinality(LiveKeys(edit.who, cred')) <= KeyLimit
  BY <1>3, <1>4, WithinLimit
<1> QED
  BY <1>5, <1>6, <1>7, <1>8 DEF edit

LEMMA SelectionChecked == AuthorityInv /\ AuthorityNext => SelectionIsCurrent
<1> SUFFICES ASSUME AuthorityInv, AuthorityNext, NEW a \in Admissions,
                    adm[a].pc = "finish", adm'[a].pc = "selected"
             PROVE  KeyUsable(cred[adm[a].key], adm[a].secret, policy,
                              Effective("users", user, kv.user))
  BY DEF SelectionIsCurrent
<1>1. /\ adm = [b \in Admissions |-> adm[b]] /\ user = [m \in Members |-> user[m]]
      /\ adm[a].row.who \in Members => OwnerKnown(adm[a].row.who)
  BY DEF AuthorityInv, AuthorityTyped, AdmissionHeld
<1>2. AdmissionSelects(a)
  <2>1. ASSUME NEW b \in Admissions,
               \/ \E look \in kv.lookups : AdmissionBegins(b, look[1], look[2])
               \/ AdmissionImportsKey(b) \/ AdmissionImportsPolicy(b) \/ AdmissionImportsOwner(b)
        PROVE  FALSE
    <3>1. adm[b].pc # "finish"
      BY <2>1 DEF AdmissionBegins, AdmissionImportsKey, AdmissionImportsPolicy,
         AdmissionImportsOwner
    <3>2. adm'[a] = adm[a]
      BY <1>1, <2>1, <3>1 DEF AdmissionBegins, AdmissionImportsKey, AdmissionImportsPolicy,
         AdmissionImportsOwner
    <3> QED
      BY <3>2
  <2>2. ASSUME NEW b \in Admissions, AdmissionSelects(b) PROVE b = a
    BY <1>1, <2>2 DEF AdmissionSelects
  <2>3. adm' # adm
    OBVIOUS
  <2> QED
    BY <2>1, <2>2, <2>3 DEF AuthorityNext, PutPolicy, PutUser, PutBinding, EditBegins, ImportTable,
       ListsFail, MutateCredential
<1>3. /\ KeyUsable(cred[adm[a].key], adm[a].secret, policy, user)
      /\ cred[adm[a].key].who = adm[a].row.who
  <2>1. adm[a] = [pc |-> adm[a].pc, key |-> adm[a].key, secret |-> adm[a].secret,
                  row |-> adm[a].row]
    BY DEF AuthorityInv, AuthorityTyped
  <2> QED
    BY <1>1, <1>2, <2>1 DEF AdmissionSelects, Reread
<1>4. ASSUME NEW m \in Members, OwnerKnown(m), user[m] # "off"
      PROVE  Effective("users", user, kv.user)[m] # "off"
  <2>1. Effective("users", user, kv.user)[m] =
          IF "users" \notin meta /\ user[m] = Missing THEN kv.user[m] ELSE user[m]
    BY <1>1 DEF Effective, Imported
  <2> QED
    BY <1>4, <2>1, AuthorityType DEF OwnerKnown
<1> QED
  BY <1>1, <1>3, <1>4 DEF KeyUsable

(* Every check holds in the step it decides: a create or put counts the    *)
(* keys that still wait in KV, and a grant is selected only for a key that *)
(* is usable in that very step, its owner not disabled in the table or in  *)
(* KV (mutateCredential, finishAdmissionSelection).                        *)
THEOREM KeyChecksHold == AuthoritySpec => KeysChecked
<1>1. AuthorityInv /\ AuthorityNext => LegacyKeysCount /\ SelectionIsCurrent
  BY LegacyCounted, SelectionChecked
<1> QED
  BY <1>1, AuthorityBegins, AuthorityStep, PTL DEF AuthoritySpec, KeysChecked

-----------------------------------------------------------------------------
(***************************************************************************)
(* The admission cache. A cached admission is recent, whatever isolates,   *)
(* requests and scenes interleave, and no observed rejection is lost with  *)
(* it.                                                                     *)
(***************************************************************************)

Isos == [entry : Entries, leader : ServeTasks \cup {NoTask}, live : SUBSET ServeTasks,
         fence : 0..MaxTime, pend : 0..MaxFeedback, seen : 0..MaxFeedback,
         settled : 0..MaxFeedback, armed : BOOLEAN, writing : SUBSET (0..MaxFeedback),
         refused : BOOLEAN, changing : -1..MaxVersion, applied : 0..MaxVersion]
Tasks == [pc : Busy \cup {"idle", "wait", "done"}, at : 0..MaxTime, got : Entries,
          floor : 0..MaxVersion, how : {"none", "cache", "authority"}]
Puts == [val : Values, at : 0..MaxTime, by : Isolates]

(* A snapshot was the current version when the tick of its load began (bg),*)
(* and if it was loaded after the fence of an isolate, it has the changes  *)
(* that the isolate applied.                                               *)
Timely(val, at, t, bg) == at <= t /\ bg[at] <= val.n
PastFences(val, at, is) == \A x \in Isolates : at > is[x].fence => is[x].applied <= val.n
Sound(val, at, is, t, bg) ==
  val # Nothing => Timely(val, at, t, bg) /\ PastFences(val, at, is)

TimeHeld(t, bg, tr) ==
  /\ t \in 0..MaxTime /\ bg \in [0..t -> 0..MaxVersion] /\ tr \in Values
  /\ \A s \in 0..t : bg[s] <= tr.n /\ \A u \in s..t : bg[s] <= bg[u]

(* The entry of isolate x and its leads.                                   *)
EntryHeld(i, t, bg) ==
  HasValue(i.entry) => Timely(i.entry.val, i.entry.at, t, bg) /\ i.applied <= i.entry.val.n
LeadsHeld(x, i) ==
  /\ \A k \in i.live : At(k) = x
  /\ IsFiniteSet(i.live) /\ Cardinality(i.live) <= LeaderLimit
  /\ i.leader # NoTask => i.leader \in i.live

(* The mutations of isolate x, and the feedback it owes.                   *)
ChangesHeld(i, t, tr) ==
  /\ i.fence <= t /\ i.applied <= tr.n
  /\ i.changing = -1 \/ (i.applied <= i.changing /\ i.changing <= tr.n)
FeedbackHeld(i) ==
  FeedbackOwed(i) =>
    /\ i.pend = i.seen /\ (HasValue(i.entry) => i.entry.val.cool)
    /\ i.armed \/ i.seen \in i.writing \/ i.refused

IsoHeld(x, i, t, bg, tr) ==
  /\ i \in Isos /\ EntryHeld(i, t, bg) /\ LeadsHeld(x, i)
  /\ ChangesHeld(i, t, tr) /\ FeedbackHeld(i)

(* The task k at isolate i: what it holds at its await, and its answer. *)
AdmissionAnswerHeld(s, t, bg) ==
  /\ s.pc = "done" /\ HasValue(s.got) => s.floor <= s.got.val.n
  /\ s.how = "cache" =>
       /\ s.pc = "done" /\ HasValue(s.got) /\ s.got.at <= t
       /\ bg[Max({0, s.got.at - MaxAge + 1})] <= s.got.val.n
TaskHeld(k, s, i, is, t, bg) ==
  /\ s \in Tasks /\ s.floor <= i.applied /\ AdmissionAnswerHeld(s, t, bg)
  /\ s.how = "cache" => k > 0
  /\ s.pc \in {"asked", "read"} => s.at <= t
  /\ s.pc = "held" => Sound(s.got.val, s.got.at, is, t, bg)
  /\ s.pc = "read" =>
       /\ s.got.val # Nothing /\ Sound(s.got.val, s.at, is, t, bg)
       /\ s.floor <= s.got.val.n
       /\ i.leader = k => i.applied <= s.got.val.n

(* The publications of isolate x are under way; its background work.       *)
AliveHeld(i, sv) == \A k \in i.live : sv[k].pc \in Busy
Loads(x, sv) == {k \in ServeTasks : k < 0 /\ At(k) = x /\ sv[k].pc \in Busy}
Stores(x, ps) == {p \in ps : p.by = x}
Work(x, i, sv, ps) ==
  Cardinality(Loads(x, sv)) + Cardinality(Stores(x, ps))
    + Cardinality(i.writing) + (IF i.armed THEN 1 ELSE 0)
WorkHeld(x, i, sv, ps) ==
  /\ IsFiniteSet(Loads(x, sv)) /\ IsFiniteSet(Stores(x, ps))
  /\ Work(x, i, sv, ps) <= WorkLimit

CacheHeld(is, sv, co, ps, t, bg, tr) ==
  /\ TimeHeld(t, bg, tr)
  /\ co \in Entries /\ Sound(co.val, co.at, is, t, bg)
  /\ ps \subseteq Puts /\ \A p \in ps : Sound(p.val, p.at, is, t, bg)
  /\ is \in [Isolates -> Isos] /\ sv \in [ServeTasks -> Tasks]
  /\ \A x \in Isolates : /\ IsoHeld(x, is[x], t, bg, tr)
                         /\ AliveHeld(is[x], sv) /\ WorkHeld(x, is[x], sv, ps)
  /\ \A k \in ServeTasks : TaskHeld(k, sv[k], is[At(k)], is, t, bg)
CacheInv == scene \in Scenes /\ CacheHeld(iso, serve, colo, puts, now, began, truth)

-----------------------------------------------------------------------------
LEMMA CacheLimits ==
  /\ MaxTime \in Nat /\ MaxVersion \in Nat /\ MaxFeedback \in Nat
  /\ MaxAge \in Nat \ {0} /\ FreshAge \in Nat /\ LeaderLimit \in Nat \ {0} /\ WorkLimit \in Nat
  BY CacheAssumption, CacheBounds

LEMMA Larger ==
  ASSUME NEW a \in Int, NEW b \in Int
  PROVE  Max({a, b}) \in {a, b} /\ a <= Max({a, b}) /\ b <= Max({a, b})
<1>1. \E m \in {a, b} : \A n \in {a, b} : m >= n
  <2>1. CASE a >= b
    BY <2>1
  <2>2. CASE ~(a >= b)
    BY <2>2
  <2> QED
    BY <2>1, <2>2
<1> QED
  BY <1>1 DEF Max

LEMMA TaskNames ==
  ASSUME scene \in Scenes
  PROVE  /\ \A k \in ServeTasks : Caller(k) \in Requests /\ At(k) \in Isolates /\ k # NoTask
                                  /\ k \in Int
         /\ \A r \in Requests : /\ r \in ServeTasks /\ -r \in ServeTasks /\ r > 0 /\ -r < 0
                                /\ Caller(r) = r /\ Caller(-r) = r /\ -r # r
                                /\ Home[r] \in Isolates /\ At(r) = Home[r] /\ At(-r) = Home[r]
<1>1. Requests \subseteq Nat \ {0} /\ Home \in [Requests -> Isolates]
  BY CacheAssumption DEF Scene, Home
<1>2. ASSUME NEW r \in Requests
      PROVE  /\ r \in ServeTasks /\ -r \in ServeTasks /\ r > 0 /\ -r < 0 /\ -r # r
             /\ Caller(r) = r /\ Caller(-r) = r
  BY <1>1 DEF ServeTasks, Caller
<1>3. ASSUME NEW k \in ServeTasks
      PROVE  Caller(k) \in Requests /\ k # NoTask /\ k \in Int
  <2>1. PICK r \in Requests : k = r \/ k = -r
    BY DEF ServeTasks
  <2> QED
    BY <1>1, <1>2, <2>1 DEF NoTask
<1> QED
  BY <1>1, <1>2, <1>3 DEF At

LEMMA NoValue ==
  /\ NoEntry \in Entries /\ NoEntry.val = Nothing /\ ~HasValue(NoEntry)
  /\ \A v \in Values : v # Nothing /\ v.n \in 0..MaxVersion
  /\ \A v \in Values, a \in 0..MaxTime :
       /\ [val |-> v, at |-> a] \in Entries /\ HasValue([val |-> v, at |-> a])
  /\ \A e \in Entries : e.at \in 0..MaxTime /\ (HasValue(e) => e.val \in Values)
<1>1. \A v \in Values : v.n \in 0..MaxVersion
  BY DEF Values
<1>2. Nothing.n = -1 /\ -1 \notin 0..MaxVersion
  BY CacheLimits DEF Nothing
<1>3. \A v \in Values : v # Nothing
  BY <1>1, <1>2
<1>4. 0 \in 0..MaxTime
  BY CacheLimits
<1> QED
  BY <1>1, <1>3, <1>4 DEF NoEntry, Entries, HasValue

(* What the invariant says, unfolded.                                      *)
LEMMA Given ==
  ASSUME CacheInv
  PROVE  /\ scene \in Scenes /\ TimeHeld(now, began, truth)
         /\ now \in Nat /\ now \in 0..MaxTime /\ truth \in Values
         /\ colo \in Entries /\ Sound(colo.val, colo.at, iso, now, began)
         /\ puts \subseteq Puts /\ \A p \in puts : Sound(p.val, p.at, iso, now, began)
         /\ iso \in [Isolates -> Isos] /\ serve \in [ServeTasks -> Tasks]
         /\ \A x \in Isolates : /\ IsoHeld(x, iso[x], now, began, truth)
                                /\ AliveHeld(iso[x], serve) /\ WorkHeld(x, iso[x], serve, puts)
         /\ \A k \in ServeTasks : TaskHeld(k, serve[k], iso[At(k)], iso, now, began)
<1>1. TimeHeld(now, began, truth)
  BY DEF CacheInv, CacheHeld
<1>2. now \in Nat /\ now \in 0..MaxTime /\ truth \in Values
  BY <1>1, CacheLimits DEF TimeHeld
<1> QED
  BY <1>1, <1>2 DEF CacheInv, CacheHeld

LEMMA Typed ==
  ASSUME CacheInv
  PROVE  /\ scene \in Scenes /\ now \in Nat /\ now \in 0..MaxTime /\ truth \in Values
         /\ puts \subseteq Puts /\ iso \in [Isolates -> Isos] /\ serve \in [ServeTasks -> Tasks]
         /\ truth.n \in Nat
<1>1. truth.n \in Nat
  BY Given, CacheLimits DEF Values
<1> QED
  BY <1>1, Given

LEMMA TaskAt ==
  ASSUME CacheInv, NEW r \in Requests
  PROVE  /\ r \in ServeTasks /\ -r \in ServeTasks /\ r > 0 /\ ~(r < 0) /\ -r < 0 /\ -r # r
         /\ ~(-r > 0) /\ r # NoTask
         /\ At(r) = Home[r] /\ At(-r) = Home[r] /\ Home[r] \in Isolates /\ -r # NoTask
<1>1. scene \in Scenes /\ r \in Nat \ {0}
  BY Typed, CacheAssumption
<1> QED
  BY <1>1, TaskNames

LEMMA IsolateIs ==
  ASSUME CacheInv, NEW x \in Isolates
  PROVE  /\ IsoHeld(x, iso[x], now, began, truth) /\ iso[x] \in Isos
         /\ AliveHeld(iso[x], serve) /\ WorkHeld(x, iso[x], serve, puts)
         /\ iso[x].writing \in SUBSET (0..MaxFeedback) /\ iso[x].live \subseteq ServeTasks
<1>1. iso[x] \in Isos
  BY Given
<1> QED
  BY <1>1, Given DEF Isos

LEMMA TaskIs ==
  ASSUME CacheInv, NEW k \in ServeTasks
  PROVE  /\ TaskHeld(k, serve[k], iso[At(k)], iso, now, began) /\ serve[k] \in Tasks
         /\ At(k) \in Isolates /\ k # NoTask /\ k \in Int
  BY Given, TaskNames

-----------------------------------------------------------------------------
(* The steps of HotCache, on the state i of isolate x.                     *)
LEMMA Emptied ==
  ASSUME NEW x \in Isolates, NEW i, NEW t, NEW bg, NEW tr, IsoHeld(x, i, t, bg, tr)
  PROVE  LET j == [i EXCEPT !.entry = NoEntry]
         IN  /\ IsoHeld(x, j, t, bg, tr) /\ j.fence = i.fence /\ j.applied = i.applied
             /\ j.leader = i.leader /\ j.live = i.live
             /\ j.writing = i.writing /\ j.armed = i.armed /\ j.pend = i.pend
<1> DEFINE j == [i EXCEPT !.entry = NoEntry]
<1>1. i \in Isos /\ NoEntry \in Entries /\ ~HasValue(NoEntry)
  BY NoValue DEF IsoHeld
<1>2. /\ j \in Isos /\ j.entry = NoEntry /\ j.leader = i.leader /\ j.live = i.live
      /\ j.fence = i.fence /\ j.applied = i.applied /\ j.changing = i.changing
      /\ j.pend = i.pend /\ j.seen = i.seen /\ j.settled = i.settled /\ j.armed = i.armed
      /\ j.writing = i.writing /\ j.refused = i.refused
  BY <1>1 DEF Isos
<1> HIDE DEF j
<1>3. EntryHeld(j, t, bg) /\ LeadsHeld(x, j) /\ ChangesHeld(j, t, tr) /\ FeedbackHeld(j)
  BY <1>1, <1>2 DEF IsoHeld, EntryHeld, LeadsHeld, ChangesHeld, FeedbackHeld, FeedbackOwed
<1> QED
  BY <1>2, <1>3 DEF IsoHeld, j

LEMMA PeekedHeld ==
  ASSUME NEW x \in Isolates, NEW i, NEW t, NEW bg, NEW tr, IsoHeld(x, i, t, bg, tr)
  PROVE  /\ IsoHeld(x, Peeked(i), t, bg, tr) /\ Peeked(i).fence = i.fence
         /\ Peeked(i).applied = i.applied /\ Peeked(i).leader = i.leader
         /\ Peeked(i).live = i.live /\ Peeked(i).writing = i.writing
         /\ Peeked(i).armed = i.armed /\ Peeked(i).pend = i.pend
  BY Emptied DEF Peeked

LEMMA BeginHeld ==
  ASSUME scene \in Scenes, NEW x \in Isolates, NEW i, NEW t, NEW bg, NEW tr,
         IsoHeld(x, i, t, bg, tr), NEW k \in ServeTasks, At(k) = x
  PROVE  LET j == Begin(i, k)
         IN  /\ IsoHeld(x, j, t, bg, tr) /\ j.fence = i.fence /\ j.applied = i.applied
             /\ j.leader \in {NoTask, k} /\ j.live \subseteq i.live \cup {k}
             /\ j.writing = i.writing /\ j.armed = i.armed
<1>1. i \in Isos /\ k # NoTask /\ LeadsHeld(x, i)
  BY TaskNames DEF IsoHeld
<1>2. CASE Cardinality(i.live) >= LeaderLimit
  <2> DEFINE j == [i EXCEPT !.leader = NoTask]
  <2>1. /\ j \in Isos /\ j.entry = i.entry /\ j.leader = NoTask /\ j.live = i.live
        /\ j.fence = i.fence /\ j.applied = i.applied /\ j.changing = i.changing
        /\ j.pend = i.pend /\ j.seen = i.seen /\ j.settled = i.settled /\ j.armed = i.armed
        /\ j.writing = i.writing /\ j.refused = i.refused
    BY <1>1 DEF Isos
  <2> HIDE DEF j
  <2>2. EntryHeld(j, t, bg) /\ LeadsHeld(x, j) /\ ChangesHeld(j, t, tr) /\ FeedbackHeld(j)
    BY <2>1 DEF IsoHeld, EntryHeld, LeadsHeld, ChangesHeld, FeedbackHeld, FeedbackOwed
  <2>3. Begin(i, k) = j
    BY <1>2 DEF Begin, j
  <2> QED
    BY <2>1, <2>2, <2>3 DEF IsoHeld
<1>3. CASE ~(Cardinality(i.live) >= LeaderLimit)
  <2> DEFINE l == i.live \cup {k}
             j == [i EXCEPT !.leader = k, !.live = l]
  <2>1. l \in SUBSET ServeTasks
    BY <1>1 DEF Isos
  <2>2. IsFiniteSet(l) /\ Cardinality(l) <= LeaderLimit
    <3>1. IsFiniteSet(i.live) /\ Cardinality(i.live) \in Nat
      BY <1>1, FS_CardinalityType DEF LeadsHeld
    <3>2. IsFiniteSet(l) /\ Cardinality(l) \in {Cardinality(i.live), Cardinality(i.live) + 1}
      BY <3>1, FS_AddElement
    <3> HIDE DEF l
    <3> QED
      BY <1>3, <3>1, <3>2, CacheLimits
  <2> HIDE DEF l
  <2>3. /\ j \in Isos /\ j.entry = i.entry /\ j.leader = k /\ j.live = l
        /\ j.fence = i.fence /\ j.applied = i.applied /\ j.changing = i.changing
        /\ j.pend = i.pend /\ j.seen = i.seen /\ j.settled = i.settled /\ j.armed = i.armed
        /\ j.writing = i.writing /\ j.refused = i.refused
    BY <1>1, <2>1 DEF Isos
  <2>4. Begin(i, k) = j
    BY <1>1, <1>3 DEF Begin, l, Isos
  <2> HIDE DEF j
  <2>5. LeadsHeld(x, j)
    BY <1>1, <2>2, <2>3 DEF LeadsHeld, l
  <2>6. EntryHeld(j, t, bg) /\ ChangesHeld(j, t, tr) /\ FeedbackHeld(j)
    BY <2>3 DEF IsoHeld, EntryHeld, ChangesHeld, FeedbackHeld, FeedbackOwed
  <2> QED
    BY <2>3, <2>4, <2>5, <2>6 DEF IsoHeld, l
<1> QED
  BY <1>2, <1>3

LEMMA EndHeld ==
  ASSUME NEW x \in Isolates, NEW i, NEW t, NEW bg, NEW tr, IsoHeld(x, i, t, bg, tr), NEW k,
         k # NoTask
  PROVE  LET j == End(i, k)
         IN  /\ IsoHeld(x, j, t, bg, tr) /\ j.fence = i.fence /\ j.applied = i.applied
             /\ j.leader \in {NoTask, i.leader} /\ j.leader # k /\ j.live = i.live \ {k}
             /\ j.writing = i.writing /\ j.armed = i.armed
<1>1. i \in Isos /\ LeadsHeld(x, i)
  BY DEF IsoHeld
<1> DEFINE l == i.live \ {k}
           o == IF i.leader = k THEN NoTask ELSE i.leader
           j == [i EXCEPT !.live = l, !.leader = o]
<1>2. l \in SUBSET ServeTasks /\ o \in ServeTasks \cup {NoTask}
  BY <1>1 DEF Isos
<1>3. IsFiniteSet(l) /\ Cardinality(l) <= LeaderLimit
  <2>1. IsFiniteSet(i.live) /\ Cardinality(i.live) \in Nat
    BY <1>1, FS_CardinalityType DEF LeadsHeld
  <2>2. IsFiniteSet(l) /\ Cardinality(l) <= Cardinality(i.live) /\ Cardinality(l) \in Nat
    BY <2>1, FS_Subset, FS_CardinalityType
  <2> QED
    BY <1>1, <2>1, <2>2, CacheLimits DEF LeadsHeld
<1>4. o # NoTask => o \in l
  BY <1>1 DEF LeadsHeld
<1>5. \A m \in l : m \in i.live
  OBVIOUS
<1>6. o \in {NoTask, i.leader} /\ o # k
  OBVIOUS
<1>7. End(i, k) = j
  BY <1>1 DEF End, Isos
<1> HIDE DEF l, o
<1>8. /\ j \in Isos /\ j.entry = i.entry /\ j.leader = o /\ j.live = l
      /\ j.fence = i.fence /\ j.applied = i.applied /\ j.changing = i.changing
      /\ j.pend = i.pend /\ j.seen = i.seen /\ j.settled = i.settled /\ j.armed = i.armed
      /\ j.writing = i.writing /\ j.refused = i.refused
  BY <1>1, <1>2 DEF Isos
<1> HIDE DEF j
<1>9. LeadsHeld(x, j)
  BY <1>1, <1>3, <1>4, <1>5, <1>8 DEF LeadsHeld
<1>10. EntryHeld(j, t, bg) /\ ChangesHeld(j, t, tr) /\ FeedbackHeld(j)
  BY <1>8 DEF IsoHeld, EntryHeld, ChangesHeld, FeedbackHeld, FeedbackOwed
<1> QED
  BY <1>6, <1>7, <1>8, <1>9, <1>10 DEF IsoHeld, l

LEMMA PublishHeld ==
  ASSUME NEW x \in Isolates, NEW i, NEW t, NEW bg, NEW tr, IsoHeld(x, i, t, bg, tr), NEW k,
         NEW v \in Values, NEW a \in 0..MaxTime, i.pend > 0 => v.cool,
         i.leader = k => Timely(v, a, t, bg) /\ i.applied <= v.n
  PROVE  LET j == Publish(i, k, v, a)
         IN  /\ IsoHeld(x, j, t, bg, tr) /\ j.fence = i.fence /\ j.applied = i.applied
             /\ j.leader = i.leader /\ j.live = i.live
             /\ j.writing = i.writing /\ j.armed = i.armed
<1>1. CASE ~Owns(i, k)
  BY <1>1 DEF Publish
<1>2. CASE Owns(i, k)
  <2> DEFINE e == [val |-> v, at |-> a]
             j == [i EXCEPT !.entry = e]
  <2>1. i \in Isos /\ e \in Entries /\ e.val = v /\ e.at = a
    BY NoValue DEF IsoHeld
  <2>2. Publish(i, k, v, a) = j
    BY <1>2 DEF Publish
  <2> HIDE DEF e
  <2>3. /\ j \in Isos /\ j.entry = e /\ j.leader = i.leader /\ j.live = i.live
        /\ j.fence = i.fence /\ j.applied = i.applied /\ j.changing = i.changing
        /\ j.pend = i.pend /\ j.seen = i.seen /\ j.settled = i.settled /\ j.armed = i.armed
        /\ j.writing = i.writing /\ j.refused = i.refused
    BY <2>1 DEF Isos
  <2> HIDE DEF j
  <2>4. EntryHeld(j, t, bg)
    BY <1>2, <2>1, <2>3 DEF EntryHeld, Owns
  <2>5. LeadsHeld(x, j) /\ ChangesHeld(j, t, tr)
    BY <2>3 DEF IsoHeld, LeadsHeld, ChangesHeld
  <2>6. FeedbackOwed(i) => i.pend = i.seen /\ i.pend > 0
    BY <2>1, CacheLimits DEF IsoHeld, FeedbackHeld, FeedbackOwed, Isos
  <2>7. FeedbackHeld(j)
    BY <2>1, <2>3, <2>6 DEF IsoHeld, FeedbackHeld, FeedbackOwed
  <2> QED
    BY <2>2, <2>3, <2>4, <2>5, <2>7 DEF IsoHeld
<1> QED
  BY <1>1, <1>2

LEMMA DiscardHeld ==
  ASSUME NEW x \in Isolates, NEW i, NEW t, NEW bg, NEW tr, IsoHeld(x, i, t, bg, tr), NEW k
  PROVE  LET j == Discard(i, k)
         IN  /\ IsoHeld(x, j, t, bg, tr) /\ j.fence = i.fence /\ j.applied = i.applied
             /\ j.leader = i.leader /\ j.live = i.live
             /\ j.writing = i.writing /\ j.armed = i.armed
  BY Emptied DEF Discard

LEMMA OverlaidValue ==
  ASSUME NEW i, NEW v \in Values
  PROVE  Overlay(i, v) \in Values /\ Overlay(i, v).n = v.n /\ Overlay(i, v).ok = v.ok
         /\ (i.pend > 0 => Overlay(i, v).cool)
  BY DEF Overlay, Values

(* The background work of isolate x.                                       *)
LEMMA Writes ==
  ASSUME NEW w \in SUBSET (0..MaxFeedback)
  PROVE  IsFiniteSet(w) /\ Cardinality(w) \in Nat
<1>1. IsFiniteSet(0..MaxFeedback)
  BY FS_Interval, CacheLimits
<1> QED
  BY <1>1, FS_Subset, FS_CardinalityType

LEMMA WorkParts ==
  ASSUME NEW x, NEW i, NEW sv, NEW ps, i.writing \in SUBSET (0..MaxFeedback),
         WorkHeld(x, i, sv, ps)
  PROVE  /\ IsFiniteSet(Loads(x, sv)) /\ Cardinality(Loads(x, sv)) \in Nat
         /\ IsFiniteSet(Stores(x, ps)) /\ Cardinality(Stores(x, ps)) \in Nat
         /\ Cardinality(i.writing) \in Nat /\ Work(x, i, sv, ps) \in Nat
<1>1. /\ IsFiniteSet(Loads(x, sv)) /\ Cardinality(Loads(x, sv)) \in Nat
      /\ IsFiniteSet(Stores(x, ps)) /\ Cardinality(Stores(x, ps)) \in Nat
      /\ Cardinality(i.writing) \in Nat
  BY Writes, FS_CardinalityType DEF WorkHeld
<1> QED
  BY <1>1 DEF Work

LEMMA Joins ==
  ASSUME NEW S, NEW T, NEW a, IsFiniteSet(S), T \subseteq S \cup {a}
  PROVE  IsFiniteSet(T) /\ Cardinality(T) \in Nat /\ Cardinality(T) <= Cardinality(S) + 1
<1>1. IsFiniteSet(S \cup {a}) /\ Cardinality(S) \in Nat
      /\ Cardinality(S \cup {a}) \in {Cardinality(S), Cardinality(S) + 1}
  BY FS_AddElement, FS_CardinalityType
<1>2. IsFiniteSet(T) /\ Cardinality(T) <= Cardinality(S \cup {a}) /\ Cardinality(T) \in Nat
  BY <1>1, FS_Subset, FS_CardinalityType
<1> QED
  BY <1>1, <1>2

LEMMA SameWork ==
  ASSUME NEW x, NEW i, NEW j, NEW sv, NEW ps, NEW sw, NEW qs,
         i.writing \in SUBSET (0..MaxFeedback), WorkHeld(x, i, sv, ps),
         j.writing = i.writing, j.armed = i.armed,
         Loads(x, sw) \subseteq Loads(x, sv), Stores(x, qs) \subseteq Stores(x, ps)
  PROVE  WorkHeld(x, j, sw, qs)
<1>1. /\ IsFiniteSet(Loads(x, sv)) /\ Cardinality(Loads(x, sv)) \in Nat
      /\ IsFiniteSet(Stores(x, ps)) /\ Cardinality(Stores(x, ps)) \in Nat
      /\ Cardinality(i.writing) \in Nat /\ Work(x, i, sv, ps) <= WorkLimit
  BY WorkParts DEF WorkHeld
<1>2. /\ IsFiniteSet(Loads(x, sw)) /\ Cardinality(Loads(x, sw)) <= Cardinality(Loads(x, sv))
      /\ IsFiniteSet(Stores(x, qs)) /\ Cardinality(Stores(x, qs)) <= Cardinality(Stores(x, ps))
      /\ Cardinality(Loads(x, sw)) \in Nat /\ Cardinality(Stores(x, qs)) \in Nat
  BY <1>1, FS_Subset, FS_CardinalityType
<1>3. Work(x, j, sw, qs) <= WorkLimit
  BY <1>1, <1>2, CacheLimits DEF Work
<1> QED
  BY <1>2, <1>3 DEF WorkHeld

(* The registry takes one more load, or one more put, when it is not full. *)
LEMMA MoreWork ==
  ASSUME NEW x, NEW i, NEW j, NEW sv, NEW ps, NEW sw, NEW qs, NEW a,
         i.writing \in SUBSET (0..MaxFeedback), WorkHeld(x, i, sv, ps),
         Work(x, i, sv, ps) < WorkLimit, j.writing = i.writing, j.armed = i.armed,
         \/ Loads(x, sw) \subseteq Loads(x, sv) \cup {a} /\ Stores(x, qs) \subseteq Stores(x, ps)
         \/ Loads(x, sw) \subseteq Loads(x, sv) /\ Stores(x, qs) \subseteq Stores(x, ps) \cup {a}
  PROVE  WorkHeld(x, j, sw, qs)
<1>1. /\ IsFiniteSet(Loads(x, sv)) /\ Cardinality(Loads(x, sv)) \in Nat
      /\ IsFiniteSet(Stores(x, ps)) /\ Cardinality(Stores(x, ps)) \in Nat
      /\ Cardinality(i.writing) \in Nat
  BY WorkParts
<1>2. /\ IsFiniteSet(Loads(x, sw)) /\ Cardinality(Loads(x, sw)) \in Nat
      /\ IsFiniteSet(Stores(x, qs)) /\ Cardinality(Stores(x, qs)) \in Nat
  BY <1>1, Joins, FS_Subset, FS_CardinalityType
<1>3. Cardinality(Loads(x, sw)) + Cardinality(Stores(x, qs))
        <= Cardinality(Loads(x, sv)) + Cardinality(Stores(x, ps)) + 1
  <2>1. CASE /\ Loads(x, sw) \subseteq Loads(x, sv) \cup {a}
             /\ Stores(x, qs) \subseteq Stores(x, ps)
    <3>1. Cardinality(Loads(x, sw)) <= Cardinality(Loads(x, sv)) + 1
      BY <1>1, <2>1, Joins
    <3>2. Cardinality(Stores(x, qs)) <= Cardinality(Stores(x, ps))
      BY <1>1, <2>1, FS_Subset
    <3> QED
      BY <1>1, <1>2, <3>1, <3>2
  <2>2. CASE /\ Loads(x, sw) \subseteq Loads(x, sv)
             /\ Stores(x, qs) \subseteq Stores(x, ps) \cup {a}
    <3>1. Cardinality(Stores(x, qs)) <= Cardinality(Stores(x, ps)) + 1
      BY <1>1, <2>2, Joins
    <3>2. Cardinality(Loads(x, sw)) <= Cardinality(Loads(x, sv))
      BY <1>1, <2>2, FS_Subset
    <3> QED
      BY <1>1, <1>2, <3>1, <3>2
  <2> QED
    BY <2>1, <2>2
<1>4. Work(x, j, sw, qs) <= WorkLimit
  BY <1>1, <1>2, <1>3, CacheLimits DEF Work
<1> QED
  BY <1>2, <1>4 DEF WorkHeld

LEMMA WorkIsWorking ==
  ASSUME NEW x, NEW i
  PROVE  Working(x, i) = Work(x, i, serve, puts)
  BY DEF Working, Work, Loads, Stores

LEMMA ScheduledHeld ==
  ASSUME NEW x \in Isolates, NEW i, NEW t, NEW bg, NEW tr, IsoHeld(x, i, t, bg, tr),
         WorkHeld(x, i, serve, puts)
  PROVE  LET j == Scheduled(x, i)
         IN  /\ IsoHeld(x, j, t, bg, tr) /\ WorkHeld(x, j, serve, puts)
             /\ j.fence = i.fence /\ j.applied = i.applied
             /\ j.leader = i.leader /\ j.live = i.live /\ j.writing = i.writing
             /\ j.pend = i.pend /\ (j.armed \/ j.refused)
<1> DEFINE a == i.armed \/ Room(x, i)
<1>1. a \in BOOLEAN /\ (~a) \in BOOLEAN
  OBVIOUS
<1> DEFINE j == [i EXCEPT !.armed = a, !.refused = ~a]
<1>2. i \in Isos
  BY DEF IsoHeld
<1>3. Scheduled(x, i) = j
  BY DEF Scheduled
<1> HIDE DEF a
<1>4. /\ j \in Isos /\ j.entry = i.entry /\ j.leader = i.leader /\ j.live = i.live
      /\ j.fence = i.fence /\ j.applied = i.applied /\ j.changing = i.changing
      /\ j.pend = i.pend /\ j.seen = i.seen /\ j.settled = i.settled /\ j.armed = a
      /\ j.writing = i.writing /\ j.refused = ~a
  BY <1>1, <1>2 DEF Isos
<1> HIDE DEF j
<1>5. i.armed => a
  BY DEF a
<1>6. EntryHeld(j, t, bg) /\ LeadsHeld(x, j) /\ ChangesHeld(j, t, tr) /\ FeedbackHeld(j)
  BY <1>4, <1>5 DEF IsoHeld, EntryHeld, LeadsHeld, ChangesHeld, FeedbackHeld, FeedbackOwed
<1>7. i.writing \in SUBSET (0..MaxFeedback) /\ i.armed \in BOOLEAN
  BY <1>2 DEF Isos
<1>8. WorkHeld(x, j, serve, puts)
  <2>1. CASE j.armed = i.armed
    BY <1>4, <1>7, <2>1, SameWork
  <2>2. CASE j.armed # i.armed
    <3>1. ~i.armed /\ Room(x, i)
      BY <1>1, <1>4, <1>5, <1>7, <2>2 DEF a
    <3>2. Work(x, i, serve, puts) < WorkLimit
      BY <3>1, WorkIsWorking DEF Room
    <3>3. /\ Cardinality(Loads(x, serve)) \in Nat /\ Cardinality(Stores(x, puts)) \in Nat
          /\ Cardinality(i.writing) \in Nat
      BY <1>7, WorkParts
    <3>4. Work(x, j, serve, puts) <= WorkLimit
      BY <1>4, <3>1, <3>2, <3>3, CacheLimits DEF Work
    <3> QED
      BY <3>4 DEF WorkHeld
  <2> QED
    BY <2>1, <2>2
<1> QED
  BY <1>3, <1>4, <1>6, <1>8 DEF IsoHeld

-----------------------------------------------------------------------------
(* A step of isolate x and of the tasks A there: nobody else is affected,  *)
(* unless x changes the authority, which its own fence will cover.         *)
LEMMA SoundFrame ==
  ASSUME NEW is, NEW iz, \A y \in Isolates : iz[y].fence = is[y].fence
                                             /\ iz[y].applied = is[y].applied,
         NEW v, NEW a, NEW t, NEW bg, Sound(v, a, is, t, bg)
  PROVE  Sound(v, a, iz, t, bg)
  BY DEF Sound, PastFences

LEMMA SceneStays ==
  ASSUME scene' = scene, scene \in Scenes,
         CacheHeld(iso', serve', colo', puts', now', began', truth')
  PROVE  CacheInv'
<1>1. (\A y \in Isolates : IsoHeld(y, iso[y], now, began, truth))'
  BY DEF CacheHeld, IsoHeld, LeadsHeld, At, Home
<1>2. (\A y \in Isolates : WorkHeld(y, iso[y], serve, puts))'
  BY DEF CacheHeld, WorkHeld, Work, Loads, At, Home
<1>3. (\A k \in ServeTasks : TaskHeld(k, serve[k], iso[At(k)], iso, now, began))'
  BY DEF CacheHeld, At, Home
<1> QED
  BY <1>1, <1>2, <1>3 DEF CacheInv, CacheHeld

LEMMA Turn ==
  ASSUME CacheInv, NEW x \in Isolates, NEW j, NEW A \in SUBSET ServeTasks,
         NEW sv \in [ServeTasks -> Tasks],
         iso' = [iso EXCEPT ![x] = j], serve' = sv, UNCHANGED <<scene, now, began, colo>>,
         TimeHeld(now, began, truth'), truth.n <= truth'.n, IsoHeld(x, j, now, began, truth'),
         j.fence = iso[x].fence, j.applied = iso[x].applied,
         j.leader \in {iso[x].leader, NoTask} \cup A,
         \A k \in ServeTasks \ A : sv[k] = serve[k],
         \A k \in A : At(k) = x /\ TaskHeld(k, sv[k], j, iso, now, began),
         AliveHeld(j, sv), WorkHeld(x, j, sv, puts'), puts' \subseteq Puts,
         \A p \in puts' : p \in puts \/ (p.by = x /\ Sound(p.val, p.at, iso, now, began))
  PROVE  CacheInv'
<1>1. iso'[x] = j /\ \A y \in Isolates : y # x => iso'[y] = iso[y]
  BY Given
<1>2. \A y \in Isolates : iso'[y].fence = iso[y].fence /\ iso'[y].applied = iso[y].applied
  BY <1>1
<1>3. iso' \in [Isolates -> Isos]
  BY Given DEF IsoHeld
<1>4. \A k \in ServeTasks : At(k) \in Isolates /\ k # NoTask
  BY Given, TaskNames
<1>5. Sound(colo.val, colo.at, iso', now, began)
  BY <1>2, Given, SoundFrame
<1>6. ASSUME NEW p \in puts' PROVE Sound(p.val, p.at, iso', now, began)
  <2>1. Sound(p.val, p.at, iso, now, began)
    BY <1>6, Given
  <2> QED
    BY <1>2, <2>1, SoundFrame
<1>7. ASSUME NEW y \in Isolates
      PROVE  /\ IsoHeld(y, iso'[y], now, began, truth') /\ AliveHeld(iso'[y], sv)
             /\ WorkHeld(y, iso'[y], sv, puts')
  <2>1. CASE y = x
    BY <1>1, <2>1
  <2>2. CASE y # x
    <3>1. iso'[y] = iso[y] /\ IsoHeld(y, iso[y], now, began, truth)
          /\ AliveHeld(iso[y], serve) /\ WorkHeld(y, iso[y], serve, puts)
      BY <1>1, <2>2, Given
    <3>2. truth.n \in Int /\ truth'.n \in Int /\ iso[y].applied \in Int
          /\ iso[y].changing \in Int /\ iso[y].writing \in SUBSET (0..MaxFeedback)
      BY <3>1, CacheLimits DEF IsoHeld, Isos, TimeHeld, Values, CacheInv, CacheHeld
    <3>3. ChangesHeld(iso[y], now, truth')
      BY <3>1, <3>2 DEF IsoHeld, ChangesHeld
    <3>4. IsoHeld(y, iso[y], now, began, truth')
      BY <3>1, <3>3 DEF IsoHeld
    <3>5. AliveHeld(iso[y], sv)
      BY <2>2, <3>1 DEF AliveHeld, IsoHeld, LeadsHeld, Isos
    <3>6. Loads(y, sv) \subseteq Loads(y, serve)
      BY <2>2 DEF Loads
    <3>7. Stores(y, puts') \subseteq Stores(y, puts)
      BY <2>2 DEF Stores
    <3>8. WorkHeld(y, iso[y], sv, puts')
      BY <3>1, <3>2, <3>6, <3>7, SameWork
    <3> QED
      BY <3>1, <3>4, <3>5, <3>8
  <2> QED
    BY <2>1, <2>2
<1>8. ASSUME NEW k \in ServeTasks
      PROVE  TaskHeld(k, sv[k], iso'[At(k)], iso', now, began)
  <2>1. TaskHeld(k, sv[k], iso'[At(k)], iso, now, began)
    <3>1. CASE k \in A
      BY <1>1, <3>1
    <3>2. CASE k \notin A
      <4>1. TaskHeld(k, serve[k], iso[At(k)], iso, now, began) /\ sv[k] = serve[k]
        BY <3>2, Given
      <4>2. iso'[At(k)].applied = iso[At(k)].applied
        BY <1>2, <1>4
      <4>3. iso'[At(k)].leader = k => iso[At(k)].leader = k
        BY <1>1, <1>4, <3>2
      <4> QED
        BY <4>1, <4>2, <4>3 DEF TaskHeld
    <3> QED
      BY <3>1, <3>2
  <2>2. \A v, a : Sound(v, a, iso, now, began) => Sound(v, a, iso', now, began)
    BY <1>2, SoundFrame
  <2> QED
    BY <2>1, <2>2 DEF TaskHeld
<1>9. CacheHeld(iso', sv, colo, puts', now, began, truth')
  <2>1. /\ \A y \in Isolates : /\ IsoHeld(y, iso'[y], now, began, truth')
                               /\ AliveHeld(iso'[y], sv) /\ WorkHeld(y, iso'[y], sv, puts')
    BY <1>7
  <2>2. \A k \in ServeTasks : TaskHeld(k, sv[k], iso'[At(k)], iso', now, began)
    BY <1>8
  <2>3. \A p \in puts' : Sound(p.val, p.at, iso', now, began)
    BY <1>6
  <2> QED
    BY <1>3, <1>5, <2>1, <2>2, <2>3, Given DEF CacheHeld
<1> QED
  BY <1>9, Given, SceneStays

(* A step of one task k at its isolate.                                    *)
LEMMA OneTask ==
  ASSUME CacheInv, NEW k \in ServeTasks, NEW s \in Tasks, NEW j,
         iso' = [iso EXCEPT ![At(k)] = j], serve' = [serve EXCEPT ![k] = s],
         UNCHANGED <<scene, now, began, truth, colo>>,
         IsoHeld(At(k), j, now, began, truth),
         j.fence = iso[At(k)].fence, j.applied = iso[At(k)].applied,
         j.leader \in {iso[At(k)].leader, NoTask, k}, TaskHeld(k, s, j, iso, now, began),
         \A m \in j.live : m = k \/ m \in iso[At(k)].live, k \in j.live => s.pc \in Busy,
         k < 0 /\ s.pc \in Busy => serve[k].pc \in Busy, WorkHeld(At(k), j, serve, puts'),
         puts' \subseteq Puts,
         \A p \in puts' : p \in puts \/ (p.by = At(k) /\ Sound(p.val, p.at, iso, now, began))
  PROVE  CacheInv'
<1> DEFINE sv == [serve EXCEPT ![k] = s]
<1>1. sv \in [ServeTasks -> Tasks] /\ sv[k] = s
      /\ \A m \in ServeTasks \ {k} : sv[m] = serve[m]
  BY Given
<1>2. At(k) \in Isolates /\ j.live \subseteq ServeTasks
      /\ j.writing \in SUBSET (0..MaxFeedback)
  BY Given, TaskNames DEF IsoHeld, Isos
<1> HIDE DEF sv
<1>3. AliveHeld(j, sv)
  BY <1>1, <1>2, Given DEF AliveHeld
<1>4. Loads(At(k), sv) \subseteq Loads(At(k), serve)
  BY <1>1 DEF Loads
<1>5. WorkHeld(At(k), j, sv, puts')
  BY <1>2, <1>4, SameWork
<1>6. \A m \in {k} : At(m) = At(k) /\ TaskHeld(m, sv[m], j, iso, now, began)
  BY <1>1
<1>7. TimeHeld(now, began, truth') /\ truth.n <= truth'.n
      /\ IsoHeld(At(k), j, now, began, truth')
  BY Given, CacheLimits DEF Values
<1>8. j.leader \in {iso[At(k)].leader, NoTask} \cup {k} /\ {k} \in SUBSET ServeTasks
      /\ serve' = sv
  BY DEF sv
<1> QED
  BY <1>1, <1>2, <1>3, <1>5, <1>6, <1>7, <1>8, Turn

LEMMA AnsweredFields ==
  ASSUME CacheInv, NEW s \in Tasks, NEW v \in Values, NEW h \in {"none", "cache", "authority"}
  PROVE  LET a == Answered(s, v, h)
         IN  /\ a \in Tasks /\ a.pc = "done" /\ a.got = [val |-> v, at |-> now]
             /\ a.floor = s.floor /\ a.how = h /\ HasValue(a.got)
<1>1. [val |-> v, at |-> now] \in Entries /\ HasValue([val |-> v, at |-> now])
  BY Given, NoValue
<1> QED
  BY <1>1 DEF Answered, Tasks

LEMMA AskingFields ==
  ASSUME CacheInv, NEW s \in Tasks
  PROVE  LET a == Asking(s)
         IN  /\ a \in Tasks /\ a.pc = "asked" /\ a.at = now /\ a.floor = s.floor
             /\ a.how = s.how
<1>1. NoEntry \in Entries /\ now \in 0..MaxTime
  BY Given, NoValue
<1> QED
  BY <1>1 DEF Asking, Tasks, Busy

LEMMA AskingHeld ==
  ASSUME CacheInv, NEW k, NEW s \in Tasks, NEW j, s.floor <= j.applied, s.how # "cache"
  PROVE  TaskHeld(k, Asking(s), j, iso, now, began) /\ Asking(s) \in Tasks
         /\ Asking(s).pc \in Busy
<1>1. /\ Asking(s) \in Tasks /\ Asking(s).pc = "asked" /\ Asking(s).at = now
      /\ Asking(s).floor = s.floor /\ Asking(s).how = s.how
  BY AskingFields
<1>2. Asking(s).at <= now
  BY <1>1, Given
<1> QED
  BY <1>1, <1>2 DEF TaskHeld, AdmissionAnswerHeld, Busy

(* A usable snapshot was current less than the max age ago.                *)
LEMMA RecentEnough ==
  ASSUME CacheInv, NEW e \in Entries, Usable(e), Timely(e.val, e.at, now, began)
  PROVE  began[Max({0, now - MaxAge + 1})] <= e.val.n /\ e.val \in Values
<1> DEFINE m == Max({0, now - MaxAge + 1})
<1>1. now \in Nat /\ e.at \in Nat /\ e.at <= now /\ e.val \in Values /\ now - e.at < MaxAge
      /\ e.val.n \in Int /\ began \in [0..now -> 0..MaxVersion]
  BY Given, NoValue, CacheLimits DEF Usable, Timely, TimeHeld
<1>2. m \in {0, now - MaxAge + 1} /\ 0 <= m /\ now - MaxAge + 1 <= m
  <2>1. 0 \in Int /\ now - MaxAge + 1 \in Int
    BY <1>1, CacheLimits
  <2> QED
    BY <2>1, Larger
<1> HIDE DEF m
<1>3. m \in 0..now /\ e.at \in m..now
  BY <1>1, <1>2, CacheLimits
<1>4. began[m] <= began[e.at] /\ began[m] \in Int /\ began[e.at] \in Int
  BY <1>1, <1>3, Given, CacheLimits DEF TimeHeld
<1>5. began[m] <= e.val.n
  BY <1>1, <1>4 DEF Timely
<1> QED
  BY <1>1, <1>5 DEF m

LEMMA CachedHeld ==
  ASSUME CacheInv, NEW r \in Requests, NEW s \in Tasks, NEW j, NEW e \in Entries, Usable(e),
         Timely(e.val, e.at, now, began), s.floor <= e.val.n, s.floor <= j.applied
  PROVE  TaskHeld(r, Answered(s, e.val, "cache"), j, iso, now, began)
         /\ Answered(s, e.val, "cache") \in Tasks
<1> DEFINE a == Answered(s, e.val, "cache")
<1>1. began[Max({0, now - MaxAge + 1})] <= e.val.n /\ e.val \in Values
  BY RecentEnough
<1>2. scene \in Scenes /\ now <= now
  BY Given
<1>3. r > 0
  BY <1>2, TaskNames
<1>4. a \in Tasks /\ a.pc = "done" /\ a.got = [val |-> e.val, at |-> now]
      /\ a.floor = s.floor /\ a.how = "cache" /\ HasValue(a.got)
  BY <1>1, AnsweredFields
<1>5. a.got.val = e.val /\ a.got.at = now
  BY <1>4
<1> HIDE DEF a
<1>6. AdmissionAnswerHeld(a, now, began)
  BY <1>1, <1>2, <1>4, <1>5 DEF AdmissionAnswerHeld
<1> QED
  BY <1>3, <1>4, <1>6 DEF TaskHeld, a

LEMMA LeadKeeps ==
  ASSUME CacheInv, NEW r \in Requests, NEW i, NEW s \in Tasks,
         IsoHeld(Home[r], i, now, began, truth), i.fence = iso[Home[r]].fence,
         i.applied = iso[Home[r]].applied, i.live \subseteq iso[Home[r]].live,
         WorkHeld(Home[r], i, serve, puts), s.floor <= i.applied, s.how # "cache",
         Lead(r, i, s), UNCHANGED <<scene, now, began, truth, colo, puts>>
  PROVE  CacheInv'
<1>1. r \in ServeTasks /\ ~(r < 0) /\ At(r) = Home[r] /\ Home[r] \in Isolates
  BY TaskAt
<1> DEFINE j == Begin(i, r)
           u == IF Owns(j, r) /\ Manner[r] # "failover" THEN [s EXCEPT !.pc = "colo"]
                ELSE Asking(s)
<1>2. iso' = [iso EXCEPT ![At(r)] = j] /\ serve' = [serve EXCEPT ![r] = u]
  BY <1>1 DEF Lead
<1>3. /\ IsoHeld(Home[r], j, now, began, truth) /\ j.fence = i.fence /\ j.applied = i.applied
      /\ j.leader \in {NoTask, r} /\ j.live \subseteq i.live \cup {r}
      /\ j.writing = i.writing /\ j.armed = i.armed
  BY <1>1, Typed, BeginHeld
<1> HIDE DEF j
<1>4. u \in Tasks /\ u.pc \in Busy /\ TaskHeld(r, u, j, iso, now, began)
  <2>1. CASE Owns(j, r) /\ Manner[r] # "failover"
    <3>1. u \in Tasks /\ u.pc = "colo" /\ u.floor = s.floor /\ u.how = s.how
      BY <2>1 DEF Tasks, Busy
    <3> QED
      BY <1>3, <3>1 DEF TaskHeld, AdmissionAnswerHeld, Busy
  <2>2. CASE ~(Owns(j, r) /\ Manner[r] # "failover")
    BY <1>3, <2>2, AskingHeld
  <2> QED
    BY <2>1, <2>2
<1>5. i.writing \in SUBSET (0..MaxFeedback)
  BY DEF IsoHeld, Isos
<1>6. WorkHeld(Home[r], j, serve, puts)
  BY <1>3, <1>5, SameWork
<1> HIDE DEF u
<1>7. /\ IsoHeld(At(r), j, now, began, truth) /\ j.fence = iso[At(r)].fence
      /\ j.applied = iso[At(r)].applied /\ j.leader \in {iso[At(r)].leader, NoTask, r}
      /\ \A m \in j.live : m = r \/ m \in iso[At(r)].live
      /\ WorkHeld(At(r), j, serve, puts') /\ puts' = puts /\ puts' \subseteq Puts /\ ~(r < 0)
  BY <1>1, <1>3, <1>6, Typed
<1>8. \A p \in puts' : p \in puts
  BY <1>7
<1> QED
  BY <1>1, <1>2, <1>4, <1>7, <1>8, OneTask

LEMMA AnswerFromKeeps ==
  ASSUME CacheInv, NEW r \in Requests, NEW i, NEW s \in Tasks, NEW e \in Entries,
         IsoHeld(Home[r], i, now, began, truth), i.fence = iso[Home[r]].fence,
         i.applied = iso[Home[r]].applied, i.leader \in {iso[Home[r]].leader, NoTask},
         i.live \subseteq iso[Home[r]].live \ {r}, WorkHeld(Home[r], i, serve, puts),
         Usable(e), Timely(e.val, e.at, now, began), s.floor <= e.val.n, s.floor <= i.applied,
         AnswerFrom(r, i, s, e), UNCHANGED <<scene, now, began, truth, colo, puts>>
  PROVE  CacheInv'
<1> DEFINE x == Home[r]
           u == Answered(s, e.val, "cache")
           j == Begin(i, -r)
           sv == [serve EXCEPT ![r] = u, ![-r] = Asking(@)]
<1>1. /\ r \in ServeTasks /\ -r \in ServeTasks /\ ~(r < 0) /\ -r < 0 /\ r # -r
      /\ At(r) = x /\ At(-r) = x /\ x \in Isolates
  BY TaskAt
<1>2. ASSUME NEW m, s.floor <= m.applied
      PROVE  TaskHeld(r, u, m, iso, now, began) /\ u \in Tasks
  BY <1>2, CachedHeld
<1>3. CASE /\ serve' = [serve EXCEPT ![r] = u] /\ iso' = [iso EXCEPT ![x] = i]
  <2>1. TaskHeld(r, u, i, iso, now, began) /\ u \in Tasks
    BY <1>2
  <2>2. i.live \subseteq iso[x].live /\ r \notin i.live
    OBVIOUS
  <2> HIDE DEF x, u
  <2>3. /\ IsoHeld(At(r), i, now, began, truth) /\ i.fence = iso[At(r)].fence
        /\ i.applied = iso[At(r)].applied /\ i.leader \in {iso[At(r)].leader, NoTask, r}
        /\ \A m \in i.live : m = r \/ m \in iso[At(r)].live
        /\ WorkHeld(At(r), i, serve, puts') /\ puts' \subseteq Puts /\ ~(r < 0)
        /\ iso' = [iso EXCEPT ![At(r)] = i] /\ \A p \in puts' : p \in puts
    BY <1>1, <1>3, <2>2, Typed DEF x
  <2> QED
    BY <1>1, <1>3, <2>1, <2>2, <2>3, OneTask
<1>4. CASE /\ i.leader = NoTask /\ Room(x, i) /\ iso' = [iso EXCEPT ![x] = j] /\ serve' = sv
  <2>1. /\ IsoHeld(x, j, now, began, truth) /\ j.fence = i.fence /\ j.applied = i.applied
        /\ j.leader \in {NoTask, -r} /\ j.live \subseteq i.live \cup {-r}
        /\ j.writing = i.writing /\ j.armed = i.armed
    BY <1>1, Typed, BeginHeld
  <2>2. u \in Tasks /\ TaskHeld(r, u, j, iso, now, began)
    BY <1>2, <2>1
  <2>3. /\ serve[-r] \in Tasks /\ serve[-r].floor <= j.applied /\ serve[-r].how # "cache"
    <3>1. TaskHeld(-r, serve[-r], iso[x], iso, now, began) /\ ~(-r > 0)
      BY <1>1, TaskIs, TaskAt
    <3> QED
      BY <1>1, <2>1, <3>1 DEF TaskHeld
  <2>4. /\ Asking(serve[-r]) \in Tasks /\ Asking(serve[-r]).pc \in Busy
        /\ TaskHeld(-r, Asking(serve[-r]), j, iso, now, began)
    BY <2>3, AskingHeld
  <2> HIDE DEF u, j
  <2>5. /\ sv \in [ServeTasks -> Tasks] /\ sv[r] = u /\ sv[-r] = Asking(serve[-r])
        /\ \A k \in ServeTasks \ {r, -r} : sv[k] = serve[k]
    BY <1>1, <2>2, <2>4, Typed
  <2> HIDE DEF sv
  <2>6. AliveHeld(j, sv)
    <3> SUFFICES ASSUME NEW m \in j.live PROVE sv[m].pc \in Busy
      BY DEF AliveHeld
    <3>1. CASE m = -r
      BY <2>4, <2>5, <3>1
    <3>2. CASE m # -r
      <4>1. m \in iso[x].live /\ m # r
        BY <2>1, <3>2
      <4>2. m \in ServeTasks /\ serve[m].pc \in Busy
        BY <1>1, <4>1, IsolateIs DEF AliveHeld
      <4> QED
        BY <2>5, <3>2, <4>1, <4>2
    <3> QED
      BY <3>1, <3>2
  <2>7. WorkHeld(x, j, sv, puts)
    <3>1. Work(x, i, serve, puts) < WorkLimit /\ i.writing \in SUBSET (0..MaxFeedback)
      BY <1>4, WorkIsWorking DEF Room, IsoHeld, Isos
    <3>2. Loads(x, sv) \subseteq Loads(x, serve) \cup {-r}
      <4> SUFFICES ASSUME NEW k \in Loads(x, sv), k # -r PROVE k \in Loads(x, serve)
        OBVIOUS
      <4>1. k \in ServeTasks /\ k < 0 /\ At(k) = x /\ sv[k].pc \in Busy
        BY DEF Loads
      <4>2. k # r
        BY <1>1, <4>1, TaskAt
      <4> QED
        BY <2>5, <4>1, <4>2 DEF Loads
    <3> QED
      BY <2>1, <3>1, <3>2, MoreWork
  <2> DEFINE A == {r, -r}
  <2>8. \A k \in A : At(k) = x /\ TaskHeld(k, sv[k], j, iso, now, began)
    BY <1>1, <2>2, <2>4, <2>5
  <2>9. /\ A \in SUBSET ServeTasks /\ j.leader \in {iso[x].leader, NoTask} \cup A
        /\ j.fence = iso[x].fence /\ j.applied = iso[x].applied
        /\ \A k \in ServeTasks \ A : sv[k] = serve[k]
    BY <1>1, <2>1, <2>5
  <2>10. /\ TimeHeld(now, began, truth') /\ truth.n <= truth'.n
         /\ IsoHeld(x, j, now, began, truth') /\ puts' = puts /\ puts' \subseteq Puts
         /\ WorkHeld(x, j, sv, puts')
    BY <2>1, <2>7, Given, Typed
  <2> HIDE DEF A, x
  <2> QED
    BY <1>1, <1>4, <2>5, <2>6, <2>8, <2>9, <2>10, Turn
<1> QED
  BY <1>3, <1>4 DEF AnswerFrom, Revalidate

LEMMA HeldEntry ==
  ASSUME NEW x, NEW i, IsoHeld(x, i, now, began, truth), Usable(i.entry)
  PROVE  /\ i.entry \in Entries /\ Timely(i.entry.val, i.entry.at, now, began)
         /\ i.applied <= i.entry.val.n
  BY DEF IsoHeld, EntryHeld, Usable, Isos

(* The isolate of a request as the request finds it.                       *)
LEMMA Found ==
  ASSUME CacheInv, NEW x \in Isolates, NEW i \in {iso[x], Peeked(iso[x])}
  PROVE  /\ IsoHeld(x, i, now, began, truth) /\ i.fence = iso[x].fence
         /\ i.applied = iso[x].applied /\ i.leader = iso[x].leader /\ i.live = iso[x].live
         /\ WorkHeld(x, i, serve, puts)
<1>1. /\ IsoHeld(x, iso[x], now, began, truth) /\ WorkHeld(x, iso[x], serve, puts)
      /\ iso[x].writing \in SUBSET (0..MaxFeedback)
  BY IsolateIs
<1>2. /\ IsoHeld(x, i, now, began, truth) /\ i.fence = iso[x].fence
      /\ i.applied = iso[x].applied /\ i.leader = iso[x].leader /\ i.live = iso[x].live
      /\ i.writing = iso[x].writing /\ i.armed = iso[x].armed
  BY <1>1, PeekedHeld
<1>3. WorkHeld(x, i, serve, puts)
  BY <1>1, <1>2, SameWork
<1> QED
  BY <1>2, <1>3

LEMMA NotAnswered ==
  ASSUME CacheInv, NEW k \in ServeTasks, serve[k].pc # "done"
  PROVE  serve[k] \in Tasks /\ serve[k].how # "cache"
         /\ serve[k].floor <= iso[At(k)].applied
         /\ (serve[k].pc \notin Busy => \A x \in Isolates : k \notin iso[x].live)
<1>1. serve[k] \in Tasks /\ TaskHeld(k, serve[k], iso[At(k)], iso, now, began)
  BY TaskIs
<1>2. serve[k].pc \notin Busy => \A x \in Isolates : k \notin iso[x].live
  BY IsolateIs DEF AliveHeld
<1> QED
  BY <1>1, <1>2 DEF TaskHeld, AdmissionAnswerHeld

LEMMA CachedAnswer ==
  ASSUME CacheInv, NEW r \in Requests, NEW i, NEW s \in Tasks, s.floor <= i.applied,
         IsoHeld(Home[r], i, now, began, truth), i.fence = iso[Home[r]].fence,
         i.applied = iso[Home[r]].applied, i.leader = iso[Home[r]].leader,
         i.live = iso[Home[r]].live, r \notin i.live, WorkHeld(Home[r], i, serve, puts),
         Serves(r, i.entry), AnswerFrom(r, Scheduled(Home[r], i), s, i.entry),
         UNCHANGED <<scene, now, began, truth, colo, puts>>
  PROVE  CacheInv'
<1>1. Home[r] \in Isolates
  BY TaskAt
<1> DEFINE j == Scheduled(Home[r], i)
           e == i.entry
<1>2. /\ IsoHeld(Home[r], j, now, began, truth) /\ WorkHeld(Home[r], j, serve, puts)
      /\ j.fence = i.fence /\ j.applied = i.applied
      /\ j.leader = i.leader /\ j.live = i.live
  BY <1>1, ScheduledHeld
<1>3. Usable(e) /\ e \in Entries /\ Timely(e.val, e.at, now, began) /\ i.applied <= e.val.n
  BY HeldEntry DEF Serves
<1>4. e.val.n \in Int /\ s.floor \in Int /\ i.applied \in Int
  BY <1>3, CacheLimits, NoValue DEF Tasks, IsoHeld, Isos, Usable
<1>5. s.floor <= e.val.n
  BY <1>3, <1>4
<1>6. AnswerFrom(r, j, s, e)
  OBVIOUS
<1> HIDE DEF j, e
<1>7. /\ j.fence = iso[Home[r]].fence /\ j.applied = iso[Home[r]].applied
      /\ j.leader \in {iso[Home[r]].leader, NoTask} /\ s.floor <= j.applied
      /\ j.live \subseteq iso[Home[r]].live \ {r}
  BY <1>2
<1> QED
  BY <1>2, <1>3, <1>5, <1>6, <1>7, AnswerFromKeeps

LEMMA ArriveKeeps ==
  ASSUME CacheInv, NEW r \in Requests, Arrive(r)
  PROVE  CacheInv'
<1> DEFINE x == Home[r]
           failover == Manner[r] = "failover"
           i == IF failover THEN iso[x] ELSE Peeked(iso[x])
           s == [serve[r] EXCEPT !.floor = iso[x].applied]
<1>1. serve[r].pc = "idle" /\ UNCHANGED <<scene, now, began, truth, colo, puts>>
  BY DEF Arrive
<1>2. r \in ServeTasks /\ ~(r < 0) /\ At(r) = x /\ x \in Isolates
  BY TaskAt
<1>3. serve[r] \in Tasks /\ serve[r].how # "cache" /\ r \notin iso[x].live
  BY <1>1, <1>2, NotAnswered DEF Busy
<1>4. i \in {iso[x], Peeked(iso[x])}
  OBVIOUS
<1>5. \/ /\ ~failover /\ Serves(r, i.entry) /\ AnswerFrom(r, Scheduled(x, i), s, i.entry)
      \/ /\ ~failover /\ i.leader # NoTask
         /\ serve' = [serve EXCEPT ![r] = [s EXCEPT !.pc = "wait"]]
         /\ iso' = [iso EXCEPT ![x] = i]
      \/ /\ failover \/ i.leader = NoTask
         /\ Lead(r, i, s)
  BY DEF Arrive
<1> HIDE DEF i
<1>6. /\ IsoHeld(x, i, now, began, truth) /\ i.fence = iso[x].fence
      /\ i.applied = iso[x].applied /\ i.leader = iso[x].leader /\ i.live = iso[x].live
      /\ WorkHeld(x, i, serve, puts)
  BY <1>2, <1>4, Found
<1>7. iso[x].applied \in 0..MaxVersion
  BY <1>2, IsolateIs DEF Isos
<1>8. s \in Tasks /\ s.floor = i.applied /\ s.how # "cache" /\ s.pc = "idle"
  BY <1>1, <1>3, <1>6, <1>7 DEF Tasks
<1>9. s.floor <= i.applied
  BY <1>6, <1>7, <1>8, CacheLimits
<1> HIDE DEF s, failover
<1>10. CASE Serves(r, i.entry) /\ AnswerFrom(r, Scheduled(x, i), s, i.entry)
  BY <1>1, <1>3, <1>6, <1>8, <1>9, <1>10, CachedAnswer
<1>11. CASE /\ serve' = [serve EXCEPT ![r] = [s EXCEPT !.pc = "wait"]]
            /\ iso' = [iso EXCEPT ![x] = i]
  <2> DEFINE u == [s EXCEPT !.pc = "wait"]
  <2>1. u \in Tasks /\ u.pc = "wait" /\ u.floor = s.floor /\ u.how = s.how
    BY <1>8 DEF Tasks
  <2>2. serve' = [serve EXCEPT ![r] = u]
    BY <1>11
  <2> HIDE DEF u, x
  <2>3. TaskHeld(r, u, i, iso, now, began) /\ u.pc \notin Busy
    BY <1>8, <1>9, <2>1 DEF TaskHeld, AdmissionAnswerHeld, Busy
  <2>4. /\ IsoHeld(At(r), i, now, began, truth) /\ i.fence = iso[At(r)].fence
        /\ i.applied = iso[At(r)].applied /\ i.leader \in {iso[At(r)].leader, NoTask, r}
        /\ \A m \in i.live : m = r \/ m \in iso[At(r)].live
        /\ WorkHeld(At(r), i, serve, puts') /\ puts' \subseteq Puts /\ r \notin i.live
        /\ iso' = [iso EXCEPT ![At(r)] = i] /\ \A p \in puts' : p \in puts
    BY <1>1, <1>2, <1>3, <1>6, <1>11, Typed
  <2> QED
    BY <1>1, <1>2, <2>1, <2>2, <2>3, <2>4, OneTask
<1>12. CASE Lead(r, i, s)
  <2>1. i.live \subseteq iso[x].live
    BY <1>6
  <2> QED
    BY <1>1, <1>6, <1>8, <1>9, <1>12, <2>1, LeadKeeps
<1> QED
  BY <1>5, <1>10, <1>11, <1>12

LEMMA JoinedKeeps ==
  ASSUME CacheInv, NEW r \in Requests, Joined(r)
  PROVE  CacheInv'
<1> DEFINE x == Home[r]
           i == Peeked(iso[x])
<1>1. serve[r].pc = "wait" /\ UNCHANGED <<scene, now, began, truth, colo, puts>>
  BY DEF Joined
<1>2. r \in ServeTasks /\ ~(r < 0) /\ At(r) = x /\ x \in Isolates
  BY TaskAt
<1>3. serve[r] \in Tasks /\ serve[r].how # "cache" /\ r \notin iso[x].live
      /\ serve[r].floor <= iso[x].applied
  BY <1>1, <1>2, NotAnswered DEF Busy
<1>4. \/ /\ Serves(r, i.entry)
         /\ serve' = [serve EXCEPT ![r] = Answered(@, i.entry.val, "cache")]
         /\ iso' = [iso EXCEPT ![x] = Scheduled(x, i)]
      \/ Lead(r, i, serve[r])
  BY DEF Joined
<1>5. /\ IsoHeld(x, i, now, began, truth) /\ i.fence = iso[x].fence
      /\ i.applied = iso[x].applied /\ i.leader = iso[x].leader /\ i.live = iso[x].live
      /\ WorkHeld(x, i, serve, puts)
  BY <1>2, Found
<1> HIDE DEF i
<1>6. CASE /\ Serves(r, i.entry)
           /\ serve' = [serve EXCEPT ![r] = Answered(@, i.entry.val, "cache")]
           /\ iso' = [iso EXCEPT ![x] = Scheduled(x, i)]
  <2> DEFINE j == Scheduled(x, i)
             u == Answered(serve[r], i.entry.val, "cache")
  <2>1. /\ IsoHeld(x, j, now, began, truth) /\ WorkHeld(x, j, serve, puts)
        /\ j.fence = i.fence /\ j.applied = i.applied
        /\ j.leader = i.leader /\ j.live = i.live
    BY <1>2, <1>5, ScheduledHeld
  <2>2. Usable(i.entry) /\ i.entry \in Entries /\ i.applied <= i.entry.val.n
        /\ Timely(i.entry.val, i.entry.at, now, began)
    BY <1>5, <1>6, HeldEntry DEF Serves
  <2>3. i.entry.val.n \in Int /\ serve[r].floor \in Int /\ i.applied \in Int
    BY <1>3, <1>5, <2>2, CacheLimits, NoValue DEF Tasks, IsoHeld, Isos, Usable
  <2>4. serve[r].floor <= i.entry.val.n /\ serve[r].floor <= j.applied
    BY <1>3, <1>5, <2>1, <2>2, <2>3
  <2>5. TaskHeld(r, u, j, iso, now, began) /\ u \in Tasks
    BY <1>3, <2>2, <2>4, CachedHeld
  <2>6. serve' = [serve EXCEPT ![r] = u] /\ iso' = [iso EXCEPT ![At(r)] = j]
    BY <1>2, <1>6
  <2> HIDE DEF j, u, x
  <2>7. /\ IsoHeld(At(r), j, now, began, truth) /\ j.fence = iso[At(r)].fence
        /\ j.applied = iso[At(r)].applied /\ j.leader \in {iso[At(r)].leader, NoTask, r}
        /\ \A m \in j.live : m = r \/ m \in iso[At(r)].live
        /\ WorkHeld(At(r), j, serve, puts') /\ puts' \subseteq Puts /\ r \notin j.live
        /\ \A p \in puts' : p \in puts
    BY <1>1, <1>2, <1>3, <1>5, <2>1, Typed
  <2> QED
    BY <1>1, <1>2, <2>5, <2>6, <2>7, OneTask
<1>7. CASE Lead(r, i, serve[r])
  <2>1. i.live \subseteq iso[x].live /\ serve[r].floor <= i.applied
    BY <1>3, <1>5
  <2> QED
    BY <1>1, <1>3, <1>5, <1>7, <2>1, LeadKeeps
<1> QED
  BY <1>4, <1>6, <1>7

(* A task that only takes in an answer.                                    *)
LEMMA OnlyTask ==
  ASSUME CacheInv, NEW k \in ServeTasks, NEW s \in Tasks, serve' = [serve EXCEPT ![k] = s],
         UNCHANGED <<scene, now, began, truth, iso, colo, puts>>, serve[k].pc \in Busy,
         s.pc \in Busy, TaskHeld(k, s, iso[At(k)], iso, now, began)
  PROVE  CacheInv'
<1>1. At(k) \in Isolates /\ puts \subseteq Puts /\ iso \in [Isolates -> Isos]
  BY TaskIs, Typed
<1>2. /\ IsoHeld(At(k), iso[At(k)], now, began, truth)
      /\ WorkHeld(At(k), iso[At(k)], serve, puts)
  BY <1>1, IsolateIs
<1> DEFINE j == iso[At(k)]
<1>3. /\ iso' = [iso EXCEPT ![At(k)] = j] /\ j.fence = iso[At(k)].fence
      /\ j.applied = iso[At(k)].applied /\ j.leader \in {iso[At(k)].leader, NoTask, k}
      /\ \A m \in j.live : m = k \/ m \in iso[At(k)].live
      /\ WorkHeld(At(k), j, serve, puts') /\ puts' \subseteq Puts
      /\ \A p \in puts' : p \in puts
  BY <1>1, <1>2
<1> QED
  BY <1>2, <1>3, OneTask

LEMMA ColoReadKeeps ==
  ASSUME CacheInv, NEW r \in Requests, ColoRead(r)
  PROVE  CacheInv'
<1>1. r \in ServeTasks
  BY TaskAt
<1>2. PICK e \in {colo, NoEntry} :
        serve' = [serve EXCEPT ![r] = [@ EXCEPT !.pc = "held", !.got = e]]
  BY DEF ColoRead
<1>3. serve[r].pc = "colo" /\ UNCHANGED <<scene, now, began, truth, iso, colo, puts>>
  BY DEF ColoRead
<1>4. e \in Entries /\ Sound(e.val, e.at, iso, now, began)
  BY Given, NoValue DEF Sound
<1>5. serve[r] \in Tasks /\ serve[r].how # "cache" /\ serve[r].floor <= iso[At(r)].applied
  BY <1>1, <1>3, NotAnswered
<1> DEFINE s == [serve[r] EXCEPT !.pc = "held", !.got = e]
<1>6. /\ s \in Tasks /\ s.pc = "held" /\ s.got = e /\ s.floor = serve[r].floor
      /\ s.how = serve[r].how
  BY <1>4, <1>5 DEF Tasks, Busy
<1>7. serve' = [serve EXCEPT ![r] = s]
  BY <1>2
<1> HIDE DEF s
<1>8. TaskHeld(r, s, iso[At(r)], iso, now, began) /\ s.pc \in Busy /\ serve[r].pc \in Busy
  BY <1>3, <1>4, <1>5, <1>6 DEF TaskHeld, AdmissionAnswerHeld, Busy
<1> QED
  BY <1>1, <1>3, <1>6, <1>7, <1>8, OnlyTask

LEMMA ResolveKeeps ==
  ASSUME CacheInv, NEW k \in ServeTasks, Resolve(k)
  PROVE  CacheInv'
<1> DEFINE e == [val |-> truth, at |-> 0]
           s == [serve[k] EXCEPT !.pc = "read", !.got = e]
<1>1. serve[k].pc = "asked" /\ UNCHANGED <<scene, now, began, truth, iso, colo, puts>>
      /\ serve' = [serve EXCEPT ![k] = s]
  BY DEF Resolve
<1>2. serve[k] \in Tasks /\ serve[k].how # "cache" /\ serve[k].floor <= iso[At(k)].applied
  BY <1>1, NotAnswered
<1>3. truth \in Values /\ TimeHeld(now, began, truth)
  BY Given
<1>4. e \in Entries /\ e.val = truth /\ truth # Nothing
  BY <1>3, NoValue, CacheLimits
<1> HIDE DEF e
<1>5. /\ s \in Tasks /\ s.pc = "read" /\ s.got = e /\ s.floor = serve[k].floor
      /\ s.how = serve[k].how /\ s.at = serve[k].at
  BY <1>2, <1>4 DEF Tasks, Busy
<1> HIDE DEF s
<1>6. s.at \in 0..now /\ serve[k].at \in Nat
  <2>1. serve[k].at <= now
    BY <1>1, TaskIs DEF TaskHeld
  <2>2. serve[k].at \in Nat
    BY <1>2, CacheLimits DEF Tasks
  <2> QED
    BY <1>5, <2>1, <2>2, Typed
<1>7. \A x \in Isolates : iso[x].applied <= truth.n /\ iso[x].applied \in Int
  BY IsolateIs, CacheLimits DEF IsoHeld, ChangesHeld, Isos
<1>8. Sound(truth, s.at, iso, now, began)
  BY <1>3, <1>6, <1>7, Typed DEF Sound, Timely, PastFences, TimeHeld
<1>9. At(k) \in Isolates /\ serve[k].floor \in Int /\ truth.n \in Int
  BY <1>2, TaskIs, Typed, CacheLimits DEF Tasks
<1>10. serve[k].floor <= truth.n
  BY <1>2, <1>7, <1>9
<1>11. TaskHeld(k, s, iso[At(k)], iso, now, began) /\ s.pc \in Busy /\ serve[k].pc \in Busy
  BY <1>1, <1>2, <1>4, <1>5, <1>6, <1>7, <1>8, <1>9, <1>10 DEF TaskHeld, AdmissionAnswerHeld, Busy
<1> QED
  BY <1>1, <1>5, <1>11, OnlyTask

(* A shared entry that passes the fence has what the isolate applied.      *)
LEMMA SharedHeld ==
  ASSUME CacheInv, NEW r \in Requests, serve[r].pc = "held",
         Adoptable(r, iso[Home[r]], serve[r].got)
  PROVE  LET e == serve[r].got
             v == Overlay(iso[Home[r]], e.val)
             j == Publish(iso[Home[r]], r, v, e.at)
         IN  /\ IsoHeld(Home[r], j, now, began, truth) /\ j.fence = iso[Home[r]].fence
             /\ j.applied = iso[Home[r]].applied /\ j.leader = iso[Home[r]].leader
             /\ j.live = iso[Home[r]].live /\ WorkHeld(Home[r], j, serve, puts)
             /\ e \in Entries /\ Usable(e) /\ v \in Values /\ Timely(v, e.at, now, began)
             /\ serve[r].floor <= v.n
<1> DEFINE i == iso[Home[r]]
           e == serve[r].got
           v == Overlay(i, e.val)
           j == Publish(i, r, v, e.at)
<1>1. r \in ServeTasks /\ At(r) = Home[r] /\ Home[r] \in Isolates
  BY TaskAt
<1>2. /\ serve[r] \in Tasks /\ serve[r].floor <= i.applied
      /\ Sound(e.val, e.at, iso, now, began)
  BY <1>1, TaskIs DEF TaskHeld
<1>3. e \in Entries /\ Usable(e) /\ e.at > i.fence
  BY <1>2 DEF Tasks, Adoptable
<1>4. e.val \in Values /\ e.val # Nothing /\ e.at \in 0..MaxTime
  BY <1>3, NoValue DEF Usable, HasValue
<1>5. Timely(e.val, e.at, now, began) /\ i.applied <= e.val.n
  BY <1>1, <1>2, <1>3, <1>4 DEF Sound, PastFences
<1>6. v \in Values /\ v.n = e.val.n /\ (i.pend > 0 => v.cool)
  BY <1>4, OverlaidValue
<1> HIDE DEF v, e
<1>7. Timely(v, e.at, now, began) /\ i.applied <= v.n
  BY <1>5, <1>6 DEF Timely
<1>8. IsoHeld(Home[r], i, now, began, truth) /\ WorkHeld(Home[r], i, serve, puts)
      /\ i.writing \in SUBSET (0..MaxFeedback) /\ i \in Isos
  BY <1>1, IsolateIs
<1> HIDE DEF i
<1>9. /\ IsoHeld(Home[r], j, now, began, truth) /\ j.fence = i.fence
      /\ j.applied = i.applied /\ j.leader = i.leader /\ j.live = i.live
      /\ j.writing = i.writing /\ j.armed = i.armed
  BY <1>1, <1>4, <1>6, <1>7, <1>8, PublishHeld
<1> HIDE DEF j
<1>10. WorkHeld(Home[r], j, serve, puts)
  BY <1>8, <1>9, SameWork
<1>11. serve[r].floor <= v.n
  <2>1. serve[r].floor \in Int /\ i.applied \in Int /\ v.n \in Int
    BY <1>2, <1>6, <1>8, CacheLimits DEF Tasks, Isos, Values
  <2> QED
    BY <1>2, <1>7, <2>1
<1> QED
  BY <1>3, <1>6, <1>7, <1>9, <1>10, <1>11 DEF i, e, v, j

LEMMA AdoptKeeps ==
  ASSUME CacheInv, NEW r \in Requests, Adopt(r)
  PROVE  CacheInv'
<1> DEFINE x == Home[r]
           i == iso[x]
           e == serve[r].got
           v == Overlay(i, e.val)
           j == Publish(i, r, v, e.at)
<1>1. serve[r].pc = "held" /\ UNCHANGED <<scene, now, began, truth, colo, puts>>
  BY DEF Adopt
<1>2. /\ r \in ServeTasks /\ ~(r < 0) /\ r # NoTask /\ At(r) = x /\ x \in Isolates
      /\ puts \subseteq Puts
  BY TaskAt, Typed
<1>3. /\ serve[r] \in Tasks /\ serve[r].how # "cache" /\ serve[r].floor <= iso[x].applied
  BY <1>1, <1>2, NotAnswered
<1>4. \/ /\ Adoptable(r, i, e)
         /\ AnswerFrom(r, End(Scheduled(x, j), r), serve[r], [e EXCEPT !.val = v])
      \/ /\ serve' = [serve EXCEPT ![r] = Asking(@)]
         /\ iso' = [iso EXCEPT ![x] = IF Adoptable(r, i, e) THEN j ELSE @]
  BY DEF Adopt
<1>5. ASSUME Adoptable(r, i, e)
      PROVE  /\ IsoHeld(x, j, now, began, truth) /\ j.fence = i.fence
             /\ j.applied = i.applied /\ j.leader = i.leader /\ j.live = i.live
             /\ WorkHeld(x, j, serve, puts) /\ e \in Entries /\ Usable(e) /\ v \in Values
             /\ Timely(v, e.at, now, began) /\ serve[r].floor <= v.n
  BY <1>1, <1>5, SharedHeld
<1> HIDE DEF i, e, v, j
<1>6. CASE /\ Adoptable(r, i, e)
           /\ AnswerFrom(r, End(Scheduled(x, j), r), serve[r], [e EXCEPT !.val = v])
  <2> DEFINE u == Scheduled(x, j)
             w == End(u, r)
             d == [e EXCEPT !.val = v]
  <2>1. /\ IsoHeld(x, u, now, began, truth) /\ WorkHeld(x, u, serve, puts)
        /\ u.fence = i.fence /\ u.applied = i.applied
        /\ u.leader = i.leader /\ u.live = i.live
    BY <1>2, <1>5, <1>6, ScheduledHeld
  <2>2. u.writing \in SUBSET (0..MaxFeedback)
    BY <2>1 DEF IsoHeld, Isos
  <2> HIDE DEF u
  <2>3. /\ IsoHeld(x, w, now, began, truth) /\ w.fence = i.fence /\ w.applied = i.applied
        /\ w.leader \in {NoTask, i.leader} /\ w.live = i.live \ {r}
        /\ w.writing = u.writing /\ w.armed = u.armed
    BY <1>2, <2>1, EndHeld
  <2> HIDE DEF w
  <2>4. WorkHeld(x, w, serve, puts)
    BY <2>1, <2>2, <2>3, SameWork
  <2>5. d \in Entries /\ d.val = v /\ d.at = e.at /\ Usable(d)
    BY <1>5, <1>6, NoValue DEF Entries, Usable, HasValue
  <2>6. AnswerFrom(r, w, serve[r], d)
    BY <1>6 DEF w, u
  <2> HIDE DEF d
  <2>7. /\ w.fence = iso[x].fence /\ w.applied = iso[x].applied
        /\ w.leader \in {iso[x].leader, NoTask} /\ w.live \subseteq iso[x].live \ {r}
    BY <2>3 DEF i
  <2>8. /\ serve[r].floor <= w.applied /\ serve[r].floor <= d.val.n
        /\ Timely(d.val, d.at, now, began)
    BY <1>3, <1>5, <1>6, <2>5, <2>7
  <2> HIDE DEF x
  <2> QED
    BY <1>1, <1>3, <2>3, <2>4, <2>5, <2>6, <2>7, <2>8, AnswerFromKeeps DEF x
<1>7. CASE /\ serve' = [serve EXCEPT ![r] = Asking(@)]
           /\ iso' = [iso EXCEPT ![x] = IF Adoptable(r, i, e) THEN j ELSE @]
  <2> DEFINE w == IF Adoptable(r, i, e) THEN j ELSE i
  <2>1. /\ IsoHeld(x, i, now, began, truth) /\ WorkHeld(x, i, serve, puts)
    BY <1>2, IsolateIs DEF i
  <2>2. /\ IsoHeld(x, w, now, began, truth) /\ w.fence = i.fence
        /\ w.applied = i.applied /\ w.leader = i.leader /\ w.live = i.live
        /\ WorkHeld(x, w, serve, puts)
    BY <1>5, <2>1
  <2>3. serve' = [serve EXCEPT ![r] = Asking(serve[r])] /\ iso' = [iso EXCEPT ![x] = w]
    BY <1>7 DEF i
  <2> HIDE DEF w
  <2>4. /\ TaskHeld(r, Asking(serve[r]), w, iso, now, began) /\ Asking(serve[r]) \in Tasks
        /\ Asking(serve[r]).pc \in Busy
    BY <1>3, <2>2, AskingHeld DEF i
  <2> HIDE DEF x
  <2>5. /\ iso' = [iso EXCEPT ![At(r)] = w] /\ IsoHeld(At(r), w, now, began, truth)
        /\ w.fence = iso[At(r)].fence /\ w.applied = iso[At(r)].applied
        /\ w.leader \in {iso[At(r)].leader, NoTask, r}
        /\ \A m \in w.live : m = r \/ m \in iso[At(r)].live
        /\ WorkHeld(At(r), w, serve, puts') /\ puts' \subseteq Puts
        /\ \A p \in puts' : p \in puts
    BY <1>1, <1>2, <2>2, <2>3 DEF i
  <2> QED
    BY <1>1, <1>2, <2>3, <2>4, <2>5, OneTask
<1> QED
  BY <1>4, <1>6, <1>7

LEMMA LoadFailsKeeps ==
  ASSUME CacheInv, NEW k \in ServeTasks, LoadFails(k)
  PROVE  CacheInv'
<1> DEFINE x == At(k)
           j == End(iso[x], k)
           s == [serve[k] EXCEPT !.pc = "done", !.got = NoEntry]
<1>1. /\ serve[k].pc = "asked" /\ UNCHANGED <<scene, now, began, truth, colo, puts>>
      /\ iso' = [iso EXCEPT ![x] = j] /\ serve' = [serve EXCEPT ![k] = s]
  BY DEF LoadFails
<1>2. x \in Isolates /\ k # NoTask /\ puts \subseteq Puts
  BY TaskIs, Typed
<1>3. /\ serve[k] \in Tasks /\ serve[k].how # "cache" /\ serve[k].floor <= iso[x].applied
  BY <1>1, NotAnswered
<1>4. /\ s \in Tasks /\ s.pc = "done" /\ s.got = NoEntry /\ s.floor = serve[k].floor
      /\ s.how = serve[k].how
  BY <1>3, NoValue DEF Tasks, Busy
<1> HIDE DEF s
<1>5. /\ IsoHeld(x, iso[x], now, began, truth) /\ WorkHeld(x, iso[x], serve, puts)
      /\ iso[x].writing \in SUBSET (0..MaxFeedback)
  BY <1>2, IsolateIs
<1>6. /\ IsoHeld(x, j, now, began, truth) /\ j.fence = iso[x].fence
      /\ j.applied = iso[x].applied /\ j.leader \in {NoTask, iso[x].leader}
      /\ j.live = iso[x].live \ {k} /\ j.writing = iso[x].writing /\ j.armed = iso[x].armed
  BY <1>2, <1>5, EndHeld
<1> HIDE DEF j
<1>7. WorkHeld(x, j, serve, puts)
  BY <1>5, <1>6, SameWork
<1>8. TaskHeld(k, s, j, iso, now, began) /\ s.pc \notin Busy
  BY <1>3, <1>4, <1>6, NoValue DEF TaskHeld, AdmissionAnswerHeld, Busy
<1>9. /\ j.leader \in {iso[x].leader, NoTask, k} /\ \A m \in j.live : m = k \/ m \in iso[x].live
      /\ k \notin j.live /\ WorkHeld(x, j, serve, puts') /\ puts' \subseteq Puts
      /\ \A p \in puts' : p \in puts
  BY <1>1, <1>2, <1>6, <1>7
<1> QED
  BY <1>1, <1>4, <1>6, <1>8, <1>9, OneTask

(* What an answer of the authority brings to its isolate.                  *)
LEMMA ReadHeld ==
  ASSUME CacheInv, NEW k \in ServeTasks, serve[k].pc = "read"
  PROVE  LET v == Overlay(iso[At(k)], serve[k].got.val)
         IN  /\ v \in Values /\ Timely(v, serve[k].at, now, began)
             /\ serve[k].floor <= v.n /\ (iso[At(k)].pend > 0 => v.cool)
             /\ (iso[At(k)].leader = k => iso[At(k)].applied <= v.n)
             /\ Sound(v, serve[k].at, iso, now, began) /\ serve[k].at \in 0..MaxTime
<1> DEFINE g == serve[k].got.val
           a == serve[k].at
           i == iso[At(k)]
           v == Overlay(i, g)
<1>1. /\ serve[k] \in Tasks /\ g # Nothing /\ Sound(g, a, iso, now, began)
      /\ serve[k].floor <= g.n /\ (i.leader = k => i.applied <= g.n)
  BY TaskIs DEF TaskHeld
<1>2. g \in Values /\ a \in 0..MaxTime
  BY <1>1, NoValue DEF Tasks, HasValue
<1> HIDE DEF g, i
<1>3. v \in Values /\ v.n = g.n /\ (i.pend > 0 => v.cool)
  BY <1>2, OverlaidValue
<1> HIDE DEF a, v
<1>4. Timely(v, a, now, began) /\ Sound(v, a, iso, now, began)
  BY <1>1, <1>3 DEF Sound, Timely, PastFences
<1> QED
  BY <1>1, <1>2, <1>3, <1>4 DEF g, a, i, v

LEMMA LoadedKeeps ==
  ASSUME CacheInv, NEW k \in ServeTasks, Loaded(k)
  PROVE  CacheInv'
<1> DEFINE x == At(k)
           i == iso[x]
           v == Overlay(i, serve[k].got.val)
           a == StoredAt(k)
           stranger == Manner[Caller(k)] = "stranger"
           ok == v.ok /\ ~stranger
           put == [val |-> v, at |-> a, by |-> x]
           Outcome(j) == IF ok THEN Publish(j, k, v, a)
                         ELSE IF stranger THEN j ELSE Discard(j, k)
           s == Answered(serve[k], v, "authority")
<1>1. /\ serve[k].pc = "read" /\ UNCHANGED <<scene, now, began, truth, colo>>
      /\ serve' = [serve EXCEPT ![k] = s]
  BY DEF Loaded
<1>2. PICK j \in {i} \cup (IF ok /\ k > 0 THEN {Scheduled(x, i)} ELSE {}) :
        /\ puts' = IF ok /\ Owns(j, k) /\ Room(x, j) THEN puts \cup {put} ELSE puts
        /\ iso' = [iso EXCEPT ![x] = End(Outcome(j), k)]
  BY DEF Loaded
<1>3. x \in Isolates /\ k # NoTask /\ puts \subseteq Puts
  BY TaskIs, Typed
<1>4. /\ serve[k] \in Tasks /\ serve[k].how # "cache" /\ serve[k].floor <= i.applied
  BY <1>1, NotAnswered
<1>5. /\ v \in Values /\ Timely(v, a, now, began)
      /\ serve[k].floor <= v.n /\ (i.pend > 0 => v.cool) /\ (i.leader = k => i.applied <= v.n)
      /\ Sound(v, a, iso, now, began) /\ a \in 0..MaxTime
  BY <1>1, ReadHeld DEF StoredAt
<1>6. /\ IsoHeld(x, i, now, began, truth) /\ WorkHeld(x, i, serve, puts)
  BY <1>3, IsolateIs
<1>7. j \in {i, Scheduled(x, i)}
  BY <1>2
<1> HIDE DEF i, v, a
<1>8. /\ IsoHeld(x, j, now, began, truth) /\ WorkHeld(x, j, serve, puts)
      /\ j.fence = i.fence /\ j.applied = i.applied /\ j.leader = i.leader
      /\ j.live = i.live /\ j.pend = i.pend
  BY <1>3, <1>6, <1>7, ScheduledHeld
<1>9. j.writing \in SUBSET (0..MaxFeedback)
  BY <1>8 DEF IsoHeld, Isos
<1> DEFINE o == Outcome(j)
           w == End(o, k)
<1> HIDE DEF stranger, x
<1>10. /\ IsoHeld(x, o, now, began, truth) /\ o.fence = j.fence /\ o.applied = j.applied
       /\ o.leader = j.leader /\ o.live = j.live /\ o.writing = j.writing /\ o.armed = j.armed
  <2>1. Outcome(j) \in {j, Discard(j, k), Publish(j, k, v, a)}
    OBVIOUS
  <2>2. CASE o = j
    BY <1>8, <2>2
  <2>3. CASE o = Discard(j, k)
    BY <1>3, <1>8, <2>3, DiscardHeld
  <2>4. CASE o = Publish(j, k, v, a)
    <3> HIDE DEF o
    <3>1. (j.pend > 0 => v.cool) /\ (j.leader = k => j.applied <= v.n)
      BY <1>5, <1>8
    <3> QED
      BY <1>3, <1>5, <1>8, <2>4, <3>1, PublishHeld
  <2> QED
    BY <2>1, <2>2, <2>3, <2>4
<1> HIDE DEF o
<1>11. /\ IsoHeld(x, w, now, began, truth) /\ w.fence = o.fence
       /\ w.applied = o.applied /\ w.leader \in {NoTask, o.leader}
       /\ w.live = o.live \ {k} /\ w.writing = o.writing /\ w.armed = o.armed
  BY <1>3, <1>10, EndHeld
<1> HIDE DEF w
<1>12. s \in Tasks /\ s.pc = "done" /\ s.got = [val |-> v, at |-> now]
       /\ s.floor = serve[k].floor /\ s.how = "authority"
  BY <1>4, <1>5, AnsweredFields
<1> HIDE DEF s
<1>13. TaskHeld(k, s, w, iso, now, began) /\ s.pc \notin Busy
  <2>1. s.got.val = v /\ w.applied = i.applied
    BY <1>8, <1>10, <1>11, <1>12
  <2> QED
    BY <1>4, <1>5, <1>12, <2>1 DEF TaskHeld, AdmissionAnswerHeld, Busy
<1>14. CASE puts' = puts
  <2>1. WorkHeld(x, w, serve, puts')
    BY <1>8, <1>9, <1>10, <1>11, <1>14, SameWork
  <2>2. \A p \in puts' : p \in puts
    BY <1>14
  <2>3. /\ w.fence = iso[x].fence /\ w.applied = iso[x].applied
        /\ w.leader \in {iso[x].leader, NoTask, k}
        /\ (\A m \in w.live : m = k \/ m \in iso[x].live) /\ k \notin w.live
    BY <1>8, <1>10, <1>11 DEF i
  <2>4. iso' = [iso EXCEPT ![x] = w] /\ puts' \subseteq Puts
    BY <1>2, <1>3, <1>14 DEF w, o
  <2> QED
    BY <1>1, <1>11, <1>12, <1>13, <2>1, <2>2, <2>3, <2>4, OneTask DEF x
<1>15. CASE /\ Room(x, j) /\ puts' = puts \cup {put}
  <2>1. put \in Puts /\ put.val = v /\ put.at = a /\ put.by = x
    BY <1>3, <1>5 DEF Puts
  <2> HIDE DEF put
  <2>2. Work(x, j, serve, puts) < WorkLimit
    BY <1>15, WorkIsWorking DEF Room
  <2>3. Stores(x, puts') \subseteq Stores(x, puts) \cup {put}
    BY <1>15 DEF Stores
  <2>4. WorkHeld(x, w, serve, puts')
    BY <1>8, <1>9, <1>10, <1>11, <2>2, <2>3, MoreWork
  <2>5. \A p \in puts' : p \in puts \/ (p.by = x /\ Sound(p.val, p.at, iso, now, began))
    BY <1>5, <1>15, <2>1
  <2>6. /\ w.fence = iso[x].fence /\ w.applied = iso[x].applied
        /\ w.leader \in {iso[x].leader, NoTask, k}
        /\ (\A m \in w.live : m = k \/ m \in iso[x].live) /\ k \notin w.live
    BY <1>8, <1>10, <1>11 DEF i
  <2>7. iso' = [iso EXCEPT ![x] = w] /\ puts' \subseteq Puts
    BY <1>2, <1>3, <1>15, <2>1 DEF w, o
  <2> QED
    BY <1>1, <1>11, <1>12, <1>13, <2>4, <2>5, <2>6, <2>7, OneTask DEF x
<1> QED
  BY <1>2, <1>14, <1>15

LEMMA ColoStoreKeeps ==
  ASSUME CacheInv, NEW p \in puts, ColoStore(p)
  PROVE  CacheInv'
<1>1. /\ puts' = puts \ {p} /\ UNCHANGED <<scene, now, began, truth, iso, serve>>
      /\ colo' \in {[val |-> p.val, at |-> p.at], colo}
  BY DEF ColoStore
<1>2. p \in Puts /\ Sound(p.val, p.at, iso, now, began)
  BY Given
<1>3. colo' \in Entries /\ Sound(colo'.val, colo'.at, iso, now, began)
  <2>1. CASE colo' = colo
    BY <2>1, Given
  <2>2. CASE colo' = [val |-> p.val, at |-> p.at]
    <3>1. p.val \in Values /\ p.at \in 0..MaxTime
      BY <1>2 DEF Puts
    <3>2. colo'.val = p.val /\ colo'.at = p.at /\ colo' \in Entries
      BY <2>2, <3>1, NoValue
    <3> QED
      BY <1>2, <3>2
  <2> QED
    BY <1>1, <2>1, <2>2
<1>4. puts' \subseteq Puts /\ \A q \in puts' : Sound(q.val, q.at, iso, now, began)
  BY <1>1, Given
<1>5. ASSUME NEW x \in Isolates PROVE WorkHeld(x, iso[x], serve, puts')
  <2>1. WorkHeld(x, iso[x], serve, puts) /\ iso[x].writing \in SUBSET (0..MaxFeedback)
    BY IsolateIs
  <2>2. Stores(x, puts') \subseteq Stores(x, puts)
    BY <1>1 DEF Stores
  <2> QED
    BY <2>1, <2>2, SameWork
<1>6. CacheHeld(iso, serve, colo', puts', now, began, truth)
  BY <1>3, <1>4, <1>5, Given DEF CacheHeld
<1> QED
  BY <1>1, <1>6, Typed, SceneStays

(* A step of an isolate that moves no task.                                *)
LEMMA NoTurn ==
  ASSUME CacheInv, NEW x \in Isolates, NEW j, iso' = [iso EXCEPT ![x] = j],
         UNCHANGED <<scene, now, began, serve, colo, puts>>,
         TimeHeld(now, began, truth'), truth.n <= truth'.n, IsoHeld(x, j, now, began, truth'),
         j.fence = iso[x].fence, j.applied = iso[x].applied,
         j.leader = iso[x].leader, j.live = iso[x].live, WorkHeld(x, j, serve, puts)
  PROVE  CacheInv'
<1> DEFINE A == {k \in ServeTasks : FALSE}
<1>1. /\ A \in SUBSET ServeTasks /\ j.leader \in {iso[x].leader, NoTask} \cup A
      /\ \A k \in ServeTasks \ A : serve[k] = serve[k]
      /\ \A k \in A : At(k) = x /\ TaskHeld(k, serve[k], j, iso, now, began)
  OBVIOUS
<1>2. serve \in [ServeTasks -> Tasks] /\ puts \subseteq Puts /\ serve' = serve /\ puts' = puts
  BY Typed
<1>3. AliveHeld(j, serve)
  BY IsolateIs DEF AliveHeld
<1>4. /\ WorkHeld(x, j, serve, puts') /\ puts' \subseteq Puts /\ \A p \in puts' : p \in puts
  BY <1>2
<1> HIDE DEF A
<1> QED
  BY <1>1, <1>2, <1>3, <1>4, Turn

LEMMA ChangeGrantsKeeps ==
  ASSUME CacheInv, NEW x \in Isolates, ChangeGrants(x)
  PROVE  CacheInv'
<1> DEFINE i == iso[x]
           j == [i EXCEPT !.changing = truth.n + 1]
<1>1. /\ truth.n < MaxVersion /\ UNCHANGED <<scene, now, began, serve, colo, puts>>
      /\ iso' = [iso EXCEPT ![x] = j]
  BY DEF ChangeGrants
<1>2. PICK ok \in BOOLEAN : truth' = [truth EXCEPT !.n = @ + 1, !.ok = ok]
  BY ZenonT(60) DEF ChangeGrants
<1>3. truth \in Values /\ truth.n \in Nat /\ truth.n + 1 \in 0..MaxVersion
  BY <1>1, Typed, CacheLimits
<1>4. truth' \in Values /\ truth'.n = truth.n + 1
  BY <1>2, <1>3 DEF Values
<1>5. i \in Isos /\ IsoHeld(x, i, now, began, truth) /\ WorkHeld(x, i, serve, puts)
      /\ i.writing \in SUBSET (0..MaxFeedback)
  BY IsolateIs
<1>6. truth.n + 1 \in -1..MaxVersion
  BY <1>3, CacheLimits
<1> HIDE DEF i
<1>7. /\ j \in Isos /\ j.entry = i.entry /\ j.leader = i.leader /\ j.live = i.live
      /\ j.fence = i.fence /\ j.applied = i.applied /\ j.changing = truth.n + 1
      /\ j.pend = i.pend /\ j.seen = i.seen /\ j.settled = i.settled /\ j.armed = i.armed
      /\ j.writing = i.writing /\ j.refused = i.refused
  BY <1>5, <1>6 DEF Isos
<1> HIDE DEF j
<1>8. TimeHeld(now, began, truth')
  <2>1. TimeHeld(now, began, truth)
    BY Given
  <2>2. \A s \in 0..now : began[s] \in Int
    BY <2>1, CacheLimits DEF TimeHeld
  <2>3. \A s \in 0..now : began[s] <= truth'.n
    BY <1>3, <1>4, <2>1, <2>2 DEF TimeHeld
  <2> QED
    BY <1>4, <2>1, <2>3 DEF TimeHeld
<1>9. ChangesHeld(j, now, truth')
  <2>1. i.applied \in Int /\ i.applied <= truth.n /\ i.fence <= now
    BY <1>5, CacheLimits DEF Isos, IsoHeld, ChangesHeld
  <2> QED
    BY <1>3, <1>4, <1>7, <2>1 DEF ChangesHeld
<1>10. EntryHeld(j, now, began) /\ LeadsHeld(x, j) /\ FeedbackHeld(j)
  BY <1>5, <1>7 DEF IsoHeld, EntryHeld, LeadsHeld, FeedbackHeld, FeedbackOwed
<1>11. IsoHeld(x, j, now, began, truth') /\ WorkHeld(x, j, serve, puts) /\ truth.n <= truth'.n
  BY <1>3, <1>4, <1>5, <1>7, <1>9, <1>10, SameWork DEF IsoHeld
<1> QED
  BY <1>1, <1>7, <1>8, <1>11, NoTurn DEF i

LEMMA InvalidateKeeps ==
  ASSUME CacheInv, NEW x \in Isolates, Invalidate(x)
  PROVE  CacheInv'
<1> DEFINE i == iso[x]
           f == Max({i.fence, now})
           c == i.changing
           j == [i EXCEPT !.entry = NoEntry, !.leader = NoTask, !.fence = f,
                          !.applied = c, !.changing = -1]
<1>1. /\ c >= 0 /\ UNCHANGED <<scene, now, began, truth, serve, colo, puts>>
  BY DEF Invalidate
<1>2. i \in Isos /\ IsoHeld(x, i, now, began, truth) /\ WorkHeld(x, i, serve, puts)
      /\ i.writing \in SUBSET (0..MaxFeedback) /\ AliveHeld(i, serve)
  BY IsolateIs
<1>3. iso' = [iso EXCEPT ![x] = j]
  BY DEF Invalidate, Invalidated
<1>4. now \in 0..MaxTime /\ i.fence \in Nat /\ now \in Nat /\ i.fence <= now
      /\ i.fence \in 0..MaxTime
  <2>1. i.fence <= now /\ i.fence \in 0..MaxTime
    BY <1>2 DEF Isos, IsoHeld, ChangesHeld
  <2> HIDE DEF i
  <2> QED
    BY <2>1, Typed, CacheLimits
<1>5. f \in 0..MaxTime /\ now <= f /\ f <= now
  <2> HIDE DEF i
  <2>1. i.fence \in Int /\ now \in Int
    BY <1>4
  <2>2. f \in {i.fence, now} /\ now <= f
    BY <2>1, Larger
  <2> HIDE DEF f
  <2> QED
    BY <1>4, <2>2
<1>6. c \in 0..MaxVersion /\ i.applied <= c /\ c <= truth.n /\ i.applied \in Int
  BY <1>1, <1>2, CacheLimits DEF Isos, IsoHeld, ChangesHeld
<1> HIDE DEF f, c
<1>7. -1 \in -1..MaxVersion /\ NoEntry \in Entries /\ ~HasValue(NoEntry)
  BY CacheLimits, NoValue
<1> HIDE DEF i
<1>8. /\ j \in Isos /\ j.entry = NoEntry /\ j.leader = NoTask /\ j.live = i.live
      /\ j.fence = f /\ j.applied = c /\ j.changing = -1
      /\ j.pend = i.pend /\ j.seen = i.seen /\ j.settled = i.settled /\ j.armed = i.armed
      /\ j.writing = i.writing /\ j.refused = i.refused
  BY <1>2, <1>5, <1>6, <1>7 DEF Isos
<1> HIDE DEF j
<1>9. EntryHeld(j, now, began) /\ LeadsHeld(x, j) /\ ChangesHeld(j, now, truth)
      /\ FeedbackHeld(j)
  BY <1>2, <1>5, <1>6, <1>7, <1>8
     DEF IsoHeld, EntryHeld, LeadsHeld, ChangesHeld, FeedbackHeld, FeedbackOwed
<1>10. IsoHeld(x, j, now, began, truth) /\ AliveHeld(j, serve) /\ WorkHeld(x, j, serve, puts)
  BY <1>2, <1>8, <1>9, SameWork DEF IsoHeld, AliveHeld
<1>11. iso'[x] = j /\ (\A y \in Isolates : y # x => iso'[y] = iso[y])
       /\ iso' \in [Isolates -> Isos]
  BY <1>3, <1>8, Typed
<1>12. ASSUME NEW v, NEW a \in 0..MaxTime, Sound(v, a, iso, now, began)
       PROVE  Sound(v, a, iso', now, began)
  <2> SUFFICES ASSUME v # Nothing, NEW y \in Isolates, a > iso'[y].fence
               PROVE  iso'[y].applied <= v.n
    BY <1>12 DEF Sound, PastFences
  <2>1. a <= now /\ a \in Int
    BY <1>12 DEF Sound, Timely
  <2>2. y # x
    BY <1>4, <1>5, <1>8, <1>11, <2>1, CacheLimits
  <2> QED
    BY <1>11, <1>12, <2>2 DEF Sound, PastFences
<1>13. ASSUME NEW k \in ServeTasks
       PROVE  TaskHeld(k, serve[k], iso'[At(k)], iso', now, began)
  <2>1. /\ TaskHeld(k, serve[k], iso[At(k)], iso, now, began) /\ serve[k] \in Tasks
        /\ At(k) \in Isolates /\ k # NoTask
    BY TaskIs
  <2>2. serve[k].floor <= iso'[At(k)].applied
    <3>1. serve[k].floor \in Int /\ serve[k].floor <= iso[At(k)].applied
      BY <2>1, CacheLimits DEF Tasks, TaskHeld
    <3> QED
      BY <1>6, <1>8, <1>11, <2>1, <3>1 DEF i
  <2>3. iso'[At(k)].leader = k => iso'[At(k)] = iso[At(k)]
    BY <1>8, <1>11, <2>1
  <2>4. serve[k].at \in 0..MaxTime /\ serve[k].got.at \in 0..MaxTime
    BY <2>1, NoValue DEF Tasks
  <2> QED
    BY <1>12, <2>1, <2>2, <2>3, <2>4 DEF TaskHeld
<1>14. /\ Sound(colo.val, colo.at, iso', now, began)
       /\ \A p \in puts : Sound(p.val, p.at, iso', now, began)
  <2>1. colo.at \in 0..MaxTime /\ \A p \in puts : p.at \in 0..MaxTime
    BY Given, NoValue DEF Puts
  <2> QED
    BY <1>12, <2>1, Given
<1>15. \A y \in Isolates : /\ IsoHeld(y, iso'[y], now, began, truth)
                           /\ AliveHeld(iso'[y], serve) /\ WorkHeld(y, iso'[y], serve, puts)
  BY <1>10, <1>11, IsolateIs
<1>16. CacheHeld(iso', serve, colo, puts, now, began, truth)
  BY <1>11, <1>13, <1>14, <1>15, Given DEF CacheHeld
<1> QED
  BY <1>1, <1>16, Typed, SceneStays

(* A flush takes the place of its timer in the registry; what has settled  *)
(* leaves it.                                                              *)
LEMMA ShiftedWork ==
  ASSUME NEW x, NEW i, NEW j, NEW sv, NEW ps,
         i.writing \in SUBSET (0..MaxFeedback), j.writing \in SUBSET (0..MaxFeedback),
         WorkHeld(x, i, sv, ps),
         Cardinality(j.writing) + (IF j.armed THEN 1 ELSE 0)
           <= Cardinality(i.writing) + (IF i.armed THEN 1 ELSE 0)
  PROVE  WorkHeld(x, j, sv, ps)
<1> DEFINE a == IF i.armed THEN 1 ELSE 0
           b == IF j.armed THEN 1 ELSE 0
<1>1. /\ Cardinality(Loads(x, sv)) \in Nat /\ Cardinality(Stores(x, ps)) \in Nat
      /\ Cardinality(i.writing) \in Nat /\ Cardinality(j.writing) \in Nat
  BY WorkParts, Writes
<1>2. a \in Nat /\ b \in Nat /\ Cardinality(j.writing) + b <= Cardinality(i.writing) + a
  OBVIOUS
<1>3. /\ Work(x, i, sv, ps) = Cardinality(Loads(x, sv)) + Cardinality(Stores(x, ps))
                                + Cardinality(i.writing) + a
      /\ Work(x, j, sv, ps) = Cardinality(Loads(x, sv)) + Cardinality(Stores(x, ps))
                                + Cardinality(j.writing) + b
  BY DEF Work
<1> HIDE DEF a, b
<1>4. Work(x, j, sv, ps) <= Work(x, i, sv, ps)
  BY <1>1, <1>2, <1>3
<1>5. Work(x, i, sv, ps) \in Nat /\ Work(x, j, sv, ps) \in Nat
  BY <1>1, <1>2, <1>3
<1>6. Work(x, i, sv, ps) <= WorkLimit
  BY DEF WorkHeld
<1> QED
  BY <1>4, <1>5, <1>6, CacheLimits DEF WorkHeld

LEMMA ObserveFeedbackKeeps ==
  ASSUME CacheInv, NEW x \in Isolates, ObserveFeedback(x)
  PROVE  CacheInv'
<1> DEFINE i == iso[x]
           e == [i.entry EXCEPT !.val.cool = @ \/ HasValue(i.entry)]
           n == i.seen + 1
           m == [i EXCEPT !.entry = e, !.seen = n, !.pend = n]
           l == [i EXCEPT !.entry = e, !.seen = n, !.pend = n, !.refused = TRUE]
<1>1. /\ i.seen < MaxFeedback /\ UNCHANGED <<scene, now, began, truth, serve, colo, puts>>
      /\ iso' = [iso EXCEPT ![x] = Scheduled(x, [i EXCEPT
                   !.entry.val.cool = @ \/ HasValue(i.entry),
                   !.seen = @ + 1, !.pend = i.seen + 1])]
  BY DEF ObserveFeedback
<1>2. i \in Isos /\ IsoHeld(x, i, now, began, truth) /\ WorkHeld(x, i, serve, puts)
      /\ i.writing \in SUBSET (0..MaxFeedback)
  BY IsolateIs
<1> HIDE DEF i
<1>3. n \in 0..MaxFeedback
  BY <1>1, <1>2, CacheLimits DEF Isos
<1>4. iso' = [iso EXCEPT ![x] = Scheduled(x, m)]
  BY <1>1, <1>2 DEF Isos
<1>5. i.entry \in Entries
  BY <1>2 DEF Isos
<1>6. /\ e \in Entries /\ e.at = i.entry.at /\ e.val.n = i.entry.val.n
      /\ (HasValue(e) => HasValue(i.entry) /\ e.val.cool)
  <2> DEFINE g == i.entry
             c == g.val.cool \/ HasValue(g)
             u == [g.val EXCEPT !.cool = c]
  <2>1. c \in BOOLEAN
    OBVIOUS
  <2>2. HasValue(g) => c
    OBVIOUS
  <2> HIDE DEF c
  <2>3. e.val = u /\ e.at = g.at /\ e = [val |-> u, at |-> g.at]
    BY <1>5 DEF c, Entries
  <2>4. CASE HasValue(g)
    <3>1. g.val \in Values /\ g.at \in 0..MaxTime
      BY <1>5, <2>4, NoValue
    <3>2. u \in Values /\ u.n = g.val.n /\ u.cool = c
      BY <2>1, <3>1 DEF Values
    <3> HIDE DEF u, e
    <3> QED
      BY <2>2, <2>3, <2>4, <3>1, <3>2, NoValue
  <2>5. CASE ~HasValue(g)
    <3>1. g.val = Nothing /\ g.at \in 0..MaxTime
      BY <2>5, <1>5, NoValue DEF HasValue
    <3>2. c = FALSE
      BY <2>1, <2>5, <3>1 DEF c, Nothing
    <3>3. u = [Nothing EXCEPT !.cool = FALSE]
      BY <3>1, <3>2
    <3>4. [Nothing EXCEPT !.cool = FALSE] = Nothing
      <4>1. Nothing.cool = FALSE
        BY DEF Nothing
      <4>2. Nothing = [f \in {"n", "ok", "cool"} |-> Nothing[f]]
        BY DEF Nothing
      <4> QED
        BY <4>1, <4>2
    <3> HIDE DEF u, e
    <3> QED
      BY <2>3, <3>1, <3>3, <3>4 DEF Entries, HasValue
  <2> QED
    BY <2>4, <2>5
<1> HIDE DEF e, n
<1>7. /\ l \in Isos /\ l.entry = e /\ l.leader = i.leader /\ l.live = i.live
      /\ l.fence = i.fence /\ l.applied = i.applied /\ l.changing = i.changing
      /\ l.pend = n /\ l.seen = n /\ l.settled = i.settled /\ l.armed = i.armed
      /\ l.writing = i.writing /\ l.refused = TRUE
  BY <1>2, <1>3, <1>6 DEF Isos
<1>8. Scheduled(x, m) = Scheduled(x, l)
  <2>1. m.armed = i.armed /\ m.writing = i.writing
    BY <1>2 DEF Isos
  <2>2. Room(x, m) = Room(x, l)
    BY <1>7, <2>1 DEF Room, Working
  <2> DEFINE a == i.armed \/ Room(x, l)
  <2>3. /\ Scheduled(x, m) = [m EXCEPT !.armed = a, !.refused = ~a]
        /\ Scheduled(x, l) = [l EXCEPT !.armed = a, !.refused = ~a]
    BY <1>7, <2>1, <2>2 DEF Scheduled
  <2> HIDE DEF a
  <2>4. [m EXCEPT !.armed = a, !.refused = ~a] = [l EXCEPT !.armed = a, !.refused = ~a]
    BY <1>2 DEF Isos
  <2> QED
    BY <2>3, <2>4
<1> HIDE DEF m, l
<1>9. EntryHeld(l, now, began) /\ LeadsHeld(x, l) /\ ChangesHeld(l, now, truth)
      /\ FeedbackHeld(l)
  BY <1>2, <1>6, <1>7
     DEF IsoHeld, EntryHeld, LeadsHeld, ChangesHeld, FeedbackHeld, FeedbackOwed, Timely
<1>10. IsoHeld(x, l, now, began, truth) /\ WorkHeld(x, l, serve, puts)
  BY <1>2, <1>7, <1>9, SameWork DEF IsoHeld
<1> DEFINE j == Scheduled(x, l)
<1>11. /\ IsoHeld(x, j, now, began, truth) /\ WorkHeld(x, j, serve, puts)
       /\ j.fence = i.fence /\ j.applied = i.applied /\ j.leader = i.leader
       /\ j.live = i.live
  BY <1>7, <1>10, ScheduledHeld
<1>12. iso' = [iso EXCEPT ![x] = j]
  BY <1>4, <1>8
<1> HIDE DEF j
<1>13. TimeHeld(now, began, truth') /\ truth.n <= truth'.n
       /\ IsoHeld(x, j, now, began, truth')
  BY <1>1, <1>11, Given, CacheLimits DEF Values
<1> QED
  BY <1>1, <1>11, <1>12, <1>13, NoTurn DEF i

LEMMA FlushKeeps ==
  ASSUME CacheInv, NEW x \in Isolates, Flush(x)
  PROVE  CacheInv'
<1> DEFINE i == iso[x]
           w == i.writing \cup {i.pend}
           j == [i EXCEPT !.armed = FALSE, !.writing = w]
<1>1. /\ i.armed /\ i.pend \notin i.writing
      /\ UNCHANGED <<scene, now, began, truth, serve, colo, puts>>
  BY DEF Flush
<1>2. i \in Isos /\ IsoHeld(x, i, now, began, truth) /\ WorkHeld(x, i, serve, puts)
      /\ i.writing \in SUBSET (0..MaxFeedback)
  BY IsolateIs
<1>3. iso' = [iso EXCEPT ![x] = j]
  BY DEF Flush
<1> HIDE DEF i
<1>4. /\ w \in SUBSET (0..MaxFeedback) /\ \A s : s \in w <=> s \in i.writing \/ s = i.pend
  BY <1>2 DEF Isos
<1>5. Cardinality(w) = Cardinality(i.writing) + 1 /\ Cardinality(i.writing) \in Nat
  BY <1>1, <1>2, Writes, FS_AddElement
<1> HIDE DEF w
<1>6. /\ j \in Isos /\ j.entry = i.entry /\ j.leader = i.leader /\ j.live = i.live
      /\ j.fence = i.fence /\ j.applied = i.applied /\ j.changing = i.changing
      /\ j.pend = i.pend /\ j.seen = i.seen /\ j.settled = i.settled /\ j.armed = FALSE
      /\ j.writing = w /\ j.refused = i.refused
  BY <1>2, <1>4 DEF Isos
<1> HIDE DEF j
<1>7. EntryHeld(j, now, began) /\ LeadsHeld(x, j) /\ ChangesHeld(j, now, truth)
      /\ FeedbackHeld(j)
  BY <1>2, <1>4, <1>6 DEF IsoHeld, EntryHeld, LeadsHeld, ChangesHeld, FeedbackHeld, FeedbackOwed
<1>8. WorkHeld(x, j, serve, puts)
  BY <1>1, <1>2, <1>4, <1>5, <1>6, ShiftedWork
<1>9. TimeHeld(now, began, truth') /\ truth.n <= truth'.n
      /\ IsoHeld(x, j, now, began, truth')
  BY <1>1, <1>6, <1>7, Given, CacheLimits DEF Values, IsoHeld
<1> QED
  BY <1>1, <1>3, <1>6, <1>8, <1>9, NoTurn DEF i

LEMMA FlushEndsKeeps ==
  ASSUME CacheInv, NEW x \in Isolates, FlushEnds(x)
  PROVE  CacheInv'
<1> DEFINE i == iso[x]
<1>1. PICK k \in i.writing :
        /\ iso' = [iso EXCEPT ![x] =
             [Forgotten(iso[x], k) EXCEPT !.settled = Max({@, k})]]
        /\ truth' \in {truth} \cup (IF k > 0 THEN {[truth EXCEPT !.cool = TRUE]} ELSE {})
        /\ UNCHANGED <<scene, now, began, serve, colo, puts>>
  BY DEF FlushEnds
<1> DEFINE w == i.writing \ {k}
           p == IF i.pend = k THEN 0 ELSE i.pend
           m == Max({i.settled, k})
           j == [i EXCEPT !.writing = w, !.pend = p, !.settled = m]
<1>2. i \in Isos /\ IsoHeld(x, i, now, began, truth) /\ WorkHeld(x, i, serve, puts)
      /\ i.writing \in SUBSET (0..MaxFeedback)
  BY IsolateIs
<1>3. iso' = [iso EXCEPT ![x] = j]
  BY <1>1, <1>2 DEF Forgotten, Isos
<1> HIDE DEF i
<1>4. /\ w \in SUBSET (0..MaxFeedback) /\ p \in 0..MaxFeedback
      /\ \A s : s \in w <=> s \in i.writing /\ s # k
  BY <1>2, CacheLimits DEF Isos
<1>5. i.settled \in 0..MaxFeedback /\ k \in 0..MaxFeedback /\ i.seen \in Int
  BY <1>2, CacheLimits DEF Isos
<1>6. m \in {i.settled, k} /\ i.settled <= m /\ k <= m
  <2>1. i.settled \in Int /\ k \in Int
    BY <1>5, CacheLimits
  <2> QED
    BY <2>1, Larger
<1>7. Cardinality(w) <= Cardinality(i.writing) /\ Cardinality(w) \in Nat
      /\ Cardinality(i.writing) \in Nat
  BY <1>2, <1>4, Writes, FS_Subset
<1>8. i.pend # k => p = i.pend
  OBVIOUS
<1> HIDE DEF w, p, m
<1>9. /\ j \in Isos /\ j.entry = i.entry /\ j.leader = i.leader /\ j.live = i.live
      /\ j.fence = i.fence /\ j.applied = i.applied /\ j.changing = i.changing
      /\ j.pend = p /\ j.seen = i.seen /\ j.settled = m /\ j.armed = i.armed
      /\ j.writing = w /\ j.refused = i.refused
  BY <1>2, <1>4, <1>5, <1>6 DEF Isos
<1> HIDE DEF j
<1>10. FeedbackHeld(j)
  <2> SUFFICES ASSUME FeedbackOwed(j)
               PROVE  /\ j.pend = j.seen /\ (HasValue(j.entry) => j.entry.val.cool)
                      /\ j.armed \/ j.seen \in j.writing \/ j.refused
    BY DEF FeedbackHeld
  <2>1. i.seen > m
    BY <1>9 DEF FeedbackOwed
  <2>2. i.seen > i.settled /\ i.seen # k
    BY <1>5, <1>6, <2>1, CacheLimits
  <2>3. /\ i.pend = i.seen /\ (HasValue(i.entry) => i.entry.val.cool)
        /\ i.armed \/ i.seen \in i.writing \/ i.refused
    BY <1>2, <2>2 DEF IsoHeld, FeedbackHeld, FeedbackOwed
  <2> QED
    BY <1>4, <1>8, <1>9, <2>2, <2>3
<1>11. truth' \in Values /\ truth'.n = truth.n /\ truth.n \in Nat
  BY <1>1, Typed DEF Values
<1>12. TimeHeld(now, began, truth') /\ truth.n <= truth'.n
  <2>1. TimeHeld(now, began, truth)
    BY Given
  <2>2. \A s \in 0..now : began[s] <= truth'.n /\ \A u \in s..now : began[s] <= began[u]
    BY <1>11, <2>1, Zenon DEF TimeHeld
  <2>3. truth.n <= truth'.n
    BY <1>11
  <2>4. now \in 0..MaxTime /\ began \in [0..now -> 0..MaxVersion]
    BY <2>1 DEF TimeHeld
  <2> QED
    BY <1>11, <2>2, <2>3, <2>4, Zenon DEF TimeHeld
<1>13. EntryHeld(j, now, began) /\ LeadsHeld(x, j) /\ ChangesHeld(j, now, truth')
  BY <1>2, <1>9, <1>11 DEF IsoHeld, EntryHeld, LeadsHeld, ChangesHeld
<1>14. WorkHeld(x, j, serve, puts)
  <2>1. Cardinality(j.writing) + (IF j.armed THEN 1 ELSE 0)
          <= Cardinality(i.writing) + (IF i.armed THEN 1 ELSE 0)
    BY <1>7, <1>9
  <2> QED
    BY <1>2, <1>4, <1>9, <2>1, ShiftedWork
<1>15. IsoHeld(x, j, now, began, truth')
  BY <1>9, <1>10, <1>13 DEF IsoHeld
<1> QED
  BY <1>1, <1>3, <1>9, <1>12, <1>14, <1>15, NoTurn DEF i

(* The clock: what was current stays on the record.                        *)
LEMMA TickKeeps ==
  ASSUME CacheInv, Tick
  PROVE  CacheInv'
<1> DEFINE n == now + 1
           bg == [t \in 0..n |-> IF t = n THEN truth.n ELSE began[t]]
<1>1. /\ now < MaxTime /\ now' = n /\ began' = bg
      /\ UNCHANGED <<scene, truth, iso, serve, colo, puts>>
  BY DEF Tick
<1>2. TimeHeld(now, began, truth) /\ now \in Nat /\ truth.n \in 0..MaxVersion
  BY Given, Typed DEF Values
<1>3. n \in 0..MaxTime /\ n \in Nat /\ now <= n /\ now \in 0..n
  BY <1>1, <1>2, CacheLimits
<1>4. \A a \in 0..now : a \in 0..n /\ a # n
  BY <1>2
<1>5. \A a \in 0..now : bg[a] = began[a] /\ began[a] \in 0..MaxVersion
  BY <1>2, <1>4 DEF TimeHeld
<1>6. bg[n] = truth.n /\ \A a \in 0..n : a = n \/ a \in 0..now
  BY <1>2, <1>3
<1>7. bg \in [0..n -> 0..MaxVersion]
  BY <1>2, <1>5, <1>6
<1> HIDE DEF bg, n
<1>8. TimeHeld(n, bg, truth)
  <2>1. \A s \in 0..n : bg[s] <= truth.n
    BY <1>2, <1>5, <1>6, CacheLimits DEF TimeHeld
  <2>2. ASSUME NEW s \in 0..n, NEW u \in s..n PROVE bg[s] <= bg[u]
    <3>1. u \in 0..n
      BY <1>3
    <3>2. CASE u = n
      BY <1>6, <2>1, <3>2
    <3>3. CASE u \in 0..now
      <4>1. s \in 0..now /\ u \in s..now
        BY <1>3, <3>3
      <4> QED
        BY <1>2, <1>5, <3>3, <4>1 DEF TimeHeld
    <3> QED
      BY <1>6, <3>1, <3>2, <3>3
  <2> QED
    BY <1>2, <1>3, <1>7, <2>1, <2>2 DEF TimeHeld
<1>9. ASSUME NEW v, NEW a \in 0..MaxTime, Timely(v, a, now, began)
      PROVE  Timely(v, a, n, bg)
  <2>1. a \in 0..now /\ a <= n
    BY <1>2, <1>3, <1>9, CacheLimits DEF Timely
  <2> QED
    BY <1>5, <1>9, <2>1 DEF Timely
<1>10. ASSUME NEW v, NEW a \in 0..MaxTime, Sound(v, a, iso, now, began)
       PROVE  Sound(v, a, iso, n, bg)
  BY <1>9, <1>10 DEF Sound
<1>11. ASSUME NEW x \in Isolates PROVE IsoHeld(x, iso[x], n, bg, truth)
  <2>1. IsoHeld(x, iso[x], now, began, truth) /\ iso[x] \in Isos
    BY IsolateIs
  <2>2. EntryHeld(iso[x], n, bg)
    BY <1>9, <2>1, NoValue DEF IsoHeld, EntryHeld, Isos
  <2>3. ChangesHeld(iso[x], n, truth)
    <3>1. iso[x].fence \in Int /\ iso[x].fence <= now
      BY <2>1, CacheLimits DEF Isos, IsoHeld, ChangesHeld
    <3>2. iso[x].fence <= n
      BY <1>2, <1>3, <3>1
    <3> QED
      BY <2>1, <3>2 DEF IsoHeld, ChangesHeld
  <2> QED
    BY <2>1, <2>2, <2>3 DEF IsoHeld
<1>12. ASSUME NEW k \in ServeTasks PROVE TaskHeld(k, serve[k], iso[At(k)], iso, n, bg)
  <2> DEFINE s == serve[k]
  <2>1. TaskHeld(k, s, iso[At(k)], iso, now, began) /\ s \in Tasks
    BY TaskIs
  <2>2. s.at \in 0..MaxTime /\ s.got.at \in 0..MaxTime /\ s.got \in Entries
    BY <2>1, NoValue DEF Tasks
  <2> HIDE DEF s
  <2>3. AdmissionAnswerHeld(s, n, bg)
    <3>1. AdmissionAnswerHeld(s, now, began)
      BY <2>1 DEF TaskHeld
    <3>2. ASSUME s.how = "cache"
          PROVE  s.got.at <= n /\ bg[Max({0, s.got.at - MaxAge + 1})] <= s.got.val.n
      <4> DEFINE b == s.got.at - MaxAge + 1
                 m == Max({0, b})
      <4>1. s.got.at <= now /\ began[m] <= s.got.val.n
        BY <3>1, <3>2 DEF AdmissionAnswerHeld
      <4>2. b \in Int /\ b <= now /\ s.got.at <= n
        BY <1>2, <1>3, <2>2, <4>1, CacheLimits
      <4> HIDE DEF b
      <4>3. m \in {0, b} /\ 0 <= m
        BY <4>2, Larger
      <4> HIDE DEF m
      <4>4. m \in 0..now
        BY <1>2, <4>2, <4>3
      <4> QED
        BY <1>5, <4>1, <4>2, <4>4 DEF m, b
    <3> QED
      BY <3>1, <3>2 DEF AdmissionAnswerHeld
  <2>4. s.pc \in {"asked", "read"} => s.at <= n
    <3>1. s.pc \in {"asked", "read"} => s.at <= now
      BY <2>1 DEF TaskHeld
    <3> QED
      BY <1>2, <1>3, <2>2, <3>1, CacheLimits
  <2>5. s.pc = "held" => Sound(s.got.val, s.got.at, iso, n, bg)
    BY <1>10, <2>1, <2>2 DEF TaskHeld
  <2>6. s.pc = "read" => Sound(s.got.val, s.at, iso, n, bg)
    BY <1>10, <2>1, <2>2 DEF TaskHeld
  <2>7. TaskHeld(k, s, iso[At(k)], iso, n, bg)
    BY <2>1, <2>3, <2>4, <2>5, <2>6 DEF TaskHeld
  <2> QED
    BY <2>7 DEF s
<1>13. /\ Sound(colo.val, colo.at, iso, n, bg)
       /\ \A p \in puts : Sound(p.val, p.at, iso, n, bg)
  <2>1. colo.at \in 0..MaxTime /\ \A p \in puts : p.at \in 0..MaxTime
    BY Given, NoValue DEF Puts
  <2> QED
    BY <1>10, <2>1, Given
<1>14. CacheHeld(iso, serve, colo, puts, n, bg, truth)
  BY <1>8, <1>11, <1>12, <1>13, Given DEF CacheHeld
<1> QED
  BY <1>1, <1>14, Typed, SceneStays

LEMMA CacheStarts ==
  ASSUME CacheInit
  PROVE  CacheInv
<1>1. /\ scene \in Scenes /\ now = 0 /\ began = [t \in {0} |-> 0]
      /\ truth = [n |-> 0, ok |-> TRUE, cool |-> FALSE] /\ colo = NoEntry /\ puts = {}
  BY DEF CacheInit
<1>2. 0 \in 0..MaxTime /\ 0 \in 0..MaxVersion /\ 0 \in 0..MaxFeedback /\ 0..0 = {0}
      /\ -1 \in -1..MaxVersion
  BY CacheLimits
<1>3. TimeHeld(now, began, truth)
  <2>1. truth \in Values /\ truth.n = 0
    BY <1>1, <1>2 DEF Values
  <2>2. began \in [0..0 -> 0..MaxVersion] /\ began[0] = 0
    BY <1>1, <1>2
  <2> QED
    BY <1>1, <1>2, <2>1, <2>2 DEF TimeHeld
<1> DEFINE i == [entry |-> NoEntry, leader |-> NoTask, live |-> {}, fence |-> 0,
                 pend |-> 0, seen |-> 0, settled |-> 0, armed |-> FALSE, writing |-> {},
                 refused |-> FALSE, changing |-> -1, applied |-> 0]
           s == [pc |-> "idle", at |-> 0, got |-> NoEntry, floor |-> 0, how |-> "none"]
<1>4. iso = [x \in Isolates |-> i] /\ serve = [k \in ServeTasks |-> s]
  BY DEF CacheInit
<1>5. /\ i \in Isos /\ i.entry = NoEntry /\ i.leader = NoTask /\ i.live = {}
      /\ i.fence = 0 /\ i.applied = 0 /\ i.changing = -1 /\ i.seen = 0 /\ i.settled = 0
      /\ i.armed = FALSE /\ i.writing = {}
  BY <1>2, NoValue DEF Isos
<1>6. /\ s \in Tasks /\ s.pc = "idle" /\ s.floor = 0 /\ s.how = "none"
  BY <1>2, NoValue DEF Tasks
<1> HIDE DEF i, s
<1>7. IsFiniteSet({}) /\ Cardinality({}) = 0
  BY FS_EmptySet
<1>8. ASSUME NEW x \in Isolates
      PROVE  /\ IsoHeld(x, iso[x], now, began, truth)
             /\ AliveHeld(iso[x], serve) /\ WorkHeld(x, iso[x], serve, puts)
  <2>1. iso[x] = i
    BY <1>4
  <2>2. EntryHeld(i, now, began) /\ FeedbackHeld(i)
    BY <1>5, NoValue DEF EntryHeld, FeedbackHeld, FeedbackOwed
  <2>3. LeadsHeld(x, i) /\ ChangesHeld(i, now, truth)
    BY <1>1, <1>5, <1>7, CacheLimits DEF LeadsHeld, ChangesHeld
  <2>4. AliveHeld(i, serve)
    BY <1>5 DEF AliveHeld
  <2>5. Loads(x, serve) = {} /\ Stores(x, puts) = {}
    BY <1>1, <1>4, <1>6 DEF Loads, Stores, Busy
  <2>6. WorkHeld(x, i, serve, puts)
    BY <1>5, <1>7, <2>5, CacheLimits DEF WorkHeld, Work
  <2> QED
    BY <1>5, <2>1, <2>2, <2>3, <2>4, <2>6 DEF IsoHeld
<1>9. ASSUME NEW k \in ServeTasks
      PROVE  TaskHeld(k, serve[k], iso[At(k)], iso, now, began)
  <2>1. iso[At(k)] = i /\ serve[k] = s
    BY <1>1, <1>4, TaskNames
  <2> QED
    BY <1>5, <1>6, <2>1 DEF TaskHeld, AdmissionAnswerHeld
<1>10. colo \in Entries /\ Sound(colo.val, colo.at, iso, now, began)
  BY <1>1, NoValue DEF Sound
<1>11. iso \in [Isolates -> Isos] /\ serve \in [ServeTasks -> Tasks] /\ puts \subseteq Puts
  BY <1>1, <1>4, <1>5, <1>6
<1>12. \A p \in puts : Sound(p.val, p.at, iso, now, began)
  BY <1>1
<1> QED
  BY <1>1, <1>3, <1>8, <1>9, <1>10, <1>11, <1>12 DEF CacheInv, CacheHeld

LEMMA CacheStays ==
  ASSUME CacheInv, [CacheNext]_cacheVars
  PROVE  CacheInv'
<1>1. CASE UNCHANGED cacheVars
  <2>1. CacheHeld(iso', serve', colo', puts', now', began', truth') /\ scene' = scene
    BY <1>1 DEF cacheVars, CacheInv
  <2> QED
    BY <2>1, Typed, SceneStays
<1>2. CASE CacheNext
  BY <1>2, ArriveKeeps, JoinedKeeps, ColoReadKeeps, AdoptKeeps, ResolveKeeps, LoadedKeeps,
     LoadFailsKeeps, ColoStoreKeeps, ChangeGrantsKeeps, InvalidateKeeps,
     ObserveFeedbackKeeps, FlushKeeps, FlushEndsKeeps, TickKeeps DEF CacheNext
<1> QED
  BY <1>1, <1>2

LEMMA CacheSound ==
  ASSUME CacheInv
  PROVE  CacheCurrent /\ FeedbackKept
<1>1. CacheTypeOK
  <2>1. ASSUME NEW x \in Isolates
        PROVE  /\ iso[x].entry \in Entries
               /\ iso[x].leader \in ServeTasks \cup {NoTask}
               /\ iso[x].live \subseteq {t \in ServeTasks : At(t) = x}
               /\ Cardinality(iso[x].live) <= LeaderLimit
               /\ Working(x, iso[x]) <= WorkLimit
               /\ iso[x].writing \subseteq 0..MaxFeedback
    <3>1. /\ iso[x] \in Isos /\ LeadsHeld(x, iso[x]) /\ WorkHeld(x, iso[x], serve, puts)
          /\ iso[x].live \subseteq ServeTasks /\ iso[x].writing \in SUBSET (0..MaxFeedback)
      BY IsolateIs DEF IsoHeld
    <3>2. iso[x].entry \in Entries /\ iso[x].leader \in ServeTasks \cup {NoTask}
      BY <3>1 DEF Isos
    <3>3. Working(x, iso[x]) <= WorkLimit
      BY <3>1, WorkIsWorking DEF WorkHeld
    <3> QED
      BY <3>1, <3>2, <3>3 DEF LeadsHeld
  <2>2. ASSUME NEW k \in ServeTasks
        PROVE  serve[k].pc \in Busy \cup {"idle", "wait", "done"} /\ serve[k].got \in Entries
    BY TaskIs DEF Tasks
  <2> QED
    BY <2>1, <2>2, Given DEF CacheTypeOK, TimeHeld, Puts
<1>2. OwnChangesApply
  <2>1. ASSUME NEW x \in Isolates, HasValue(iso[x].entry)
        PROVE  iso[x].entry.val.n >= iso[x].applied
    <3>1. iso[x] \in Isos /\ iso[x].applied <= iso[x].entry.val.n
      BY <2>1, IsolateIs DEF IsoHeld, EntryHeld
    <3>2. iso[x].entry.val \in Values /\ iso[x].applied \in Int
      BY <2>1, <3>1, NoValue, CacheLimits DEF Isos
    <3> QED
      BY <3>1, <3>2, CacheLimits DEF Values
  <2>2. ASSUME NEW r \in Requests, HasValue(serve[r].got), serve[r].pc = "done"
        PROVE  serve[r].got.val.n >= serve[r].floor
    <3>1. serve[r] \in Tasks /\ serve[r].floor <= serve[r].got.val.n
      BY <2>2, TaskAt, TaskIs DEF TaskHeld, AdmissionAnswerHeld
    <3>2. serve[r].got.val \in Values /\ serve[r].floor \in Int
      BY <2>2, <3>1, NoValue, CacheLimits DEF Tasks
    <3> QED
      BY <3>1, <3>2, CacheLimits DEF Values
  <2> QED
    BY <2>1, <2>2 DEF OwnChangesApply
<1>3. StalenessBounded
  <2> SUFFICES ASSUME NEW r \in Requests, serve[r].how = "cache"
               PROVE  serve[r].got.val.n >= began[Max({0, serve[r].got.at - MaxAge + 1})]
    BY DEF StalenessBounded
  <2> DEFINE g == serve[r].got
             b == g.at - MaxAge + 1
             m == Max({0, b})
  <2>1. serve[r] \in Tasks /\ HasValue(g) /\ g.at <= now /\ began[m] <= g.val.n
    BY TaskAt, TaskIs DEF TaskHeld, AdmissionAnswerHeld
  <2>2. g.val \in Values /\ g.at \in 0..MaxTime
    BY <2>1, NoValue DEF Tasks
  <2> HIDE DEF g
  <2>3. b \in Int /\ b <= now
    BY <2>1, <2>2, Typed, CacheLimits
  <2> HIDE DEF b
  <2>4. m \in {0, b} /\ 0 <= m
    BY <2>3, Larger
  <2>5. m \in 0..now
    BY <2>3, <2>4, Typed
  <2> HIDE DEF m
  <2>6. began[m] \in Int /\ g.val.n \in Int
    BY <2>2, <2>5, Given, CacheLimits DEF TimeHeld, Values
  <2> QED
    BY <2>1, <2>6 DEF m, b, g
<1>4. PendingIsOverlaid /\ FeedbackScheduled
  BY IsolateIs DEF IsoHeld, FeedbackHeld, PendingIsOverlaid, FeedbackScheduled
<1>5. LeadersAlive
  BY IsolateIs DEF IsoHeld, LeadsHeld, AliveHeld, LeadersAlive
<1> QED
  BY <1>1, <1>2, <1>3, <1>4, <1>5 DEF CacheCurrent, FeedbackKept

-----------------------------------------------------------------------------
LEMMA CacheInvHolds == CacheSpec => []CacheInv
  BY CacheStarts, CacheStays, PTL DEF CacheSpec

(* A cached admission is never older than the isolate's own changes nor    *)
(* than the max age (hot-cache.ts publications and fence, colo-cache.ts    *)
(* adopted under the original fetch time), within the limits of both       *)
(* registries.                                                             *)
THEOREM CachedAdmissionsAreRecent == CacheSpec => []CacheCurrent
<1>1. CacheInv => CacheCurrent
  BY CacheSound
<1> QED
  BY <1>1, CacheInvHolds, PTL

(* An observed rejection stays on the cached admission until its write has *)
(* settled, that write is armed, in flight or refused by a full registry,  *)
(* and every leader is alive (admission-cache.ts queueGrantRuntime and     *)
(* flushSelections, hot-cache.ts publications).                            *)
THEOREM ObservationsAreKept == CacheSpec => []FeedbackKept
<1>1. CacheInv => FeedbackKept
  BY CacheSound
<1> QED
  BY <1>1, CacheInvHolds, PTL

-----------------------------------------------------------------------------
(***************************************************************************)
(* Realtime sessions. What upstream is sent is funded and each unit is     *)
(* settled once, for any number of units, any buffer and any number of     *)
(* waiting responses.                                                      *)
(***************************************************************************)

Sessions == [closed : BOOLEAN, cleaned : BOOLEAN, ready : BOOLEAN, pending : BOOLEAN,
             policy : Policies, active : Owners, funded : BOOLEAN, sent : BOOLEAN,
             response : BOOLEAN, settled : BOOLEAN,
             inputBuffer : Owners, inputSent : BOOLEAN, inputUnits : SUBSET Units,
             buffer : 0..MaxBuffer, end : 0..MaxBuffer,
             speech : BOOLEAN, commitPending : BOOLEAN, commitReady : BOOLEAN,
             clearPending : BOOLEAN, autoPending : 0..MaxAuto]
Places == {"idle", "update", "toggle", "append", "fundInput", "appendGuard",
           "fund", "createGuard", "abandon", "done", "cleared", "transcribed"}
Runs == [at : Places, unit : Owners]

NoneWaits(x) == x.autoPending > 0 /\ ~x.closed => x.active # NoUnit

(* The session x and the place at where its handler waits.                 *)
SessionHeld(x, at) ==
  /\ ~x.closed /\ at # "cleared" => x.end <= x.buffer
  /\ at \in {"update", "cleared"} => x.buffer = 0
  /\ x.active # NoUnit => x.active # x.inputBuffer
  /\ x.policy.asr /\ x.buffer > 0 /\ ~x.closed => x.inputBuffer # NoUnit
  /\ at = "appendGuard" => x.inputBuffer # NoUnit

(* The receipts and the books of accounting; out is what upstream got.     *)
BooksHeld(units, book, out) ==
  \A u \in Units :
    /\ units[u] \in {"none", "funded"} => book[u] = <<>>
    /\ units[u] = "settled" => book[u] \in {<<"free">>, <<"billed">>}
    /\ units[u] = "none" \/ book[u] = <<"free">> => u \notin out

(* The units of a session: the one of the media in upstream's buffer, of   *)
(* its items, of its response and the one being funded (u).                *)
ReceiptsHeld(x, at, u, units, out) ==
  /\ x.inputBuffer # NoUnit =>
       /\ units[x.inputBuffer] # "none" /\ x.inputBuffer \notin x.inputUnits
       /\ ~x.inputSent => x.inputBuffer \notin out
       /\ ~x.closed /\ at # "cleared" => units[x.inputBuffer] = "funded"
  /\ \A v \in x.inputUnits : units[v] # "none"
  /\ x.active # NoUnit /\ ~x.sent => x.active \notin out
  /\ at = "fundInput" =>
       u \in Units /\ units[u] = "none" /\ u # x.active /\ x.inputBuffer = NoUnit
  /\ at = "fund" => u = x.active /\ u \in Units /\ units[u] = "none" /\ ~x.sent
  /\ at \in {"abandon", "createGuard"} =>
       x.active \in Units /\ units[x.active] = "funded" /\ ~x.sent

Held(x, r, units, book, out) ==
  /\ x \in Sessions /\ r.at \in Places /\ r.unit \in Owners
  /\ units \in [Units -> {"none", "funded", "settled"}]
  /\ book \in [Units -> Seq({"free", "billed"})] /\ out \subseteq Units
  /\ NoneWaits(x) /\ SessionHeld(x, r.at) /\ BooksHeld(units, book, out)
  /\ ReceiptsHeld(x, r.at, r.unit, units, out)

RealtimeInv == Held(rt, run, unit, ledger, egress)

LEMMA Ledgers ==
  /\ \A b \in {"free", "billed"} :
       /\ Append(<<>>, b) = <<b>> /\ <<b>> \in Seq({"free", "billed"}) /\ Len(<<b>>) = 1
  /\ <<>> \in Seq({"free", "billed"}) /\ Len(<<>>) = 0
  /\ <<"free">> # <<"billed">> /\ <<>> # <<"free">> /\ <<>> # <<"billed">>
  OBVIOUS

LEMMA Bounds == MaxBuffer \in Nat /\ MaxAuto \in Nat
  BY RealtimeAssumption

(* What a step that leaves the session at x and its handler at at shows.   *)
LEMMA Becomes ==
  ASSUME NEW x \in Sessions, NEW at \in Places, NEW u \in Owners, rt' = x, run' = Await(at, u),
         unit' \in [Units -> {"none", "funded", "settled"}],
         ledger' \in [Units -> Seq({"free", "billed"})], egress' \subseteq Units,
         NoneWaits(x), SessionHeld(x, at), BooksHeld(unit', ledger', egress'),
         ReceiptsHeld(x, at, u, unit', egress')
  PROVE  RealtimeInv'
<1>1. run'.at = at /\ run'.unit = u
  BY DEF Await
<1>2. Held(x, run', unit', ledger', egress')
  BY <1>1 DEF Held
<1> QED
  BY <1>2 DEF RealtimeInv

LEMMA Rests == Idle = Await("idle", NoUnit)
  BY DEF Idle, Await

(* A change of the session alone.                                          *)
LEMMA OnlySession ==
  ASSUME RealtimeInv, UNCHANGED <<unit, ledger, egress>>,
         NEW x \in Sessions, NEW at \in Places, NEW u \in Owners, rt' = x, run' = Await(at, u),
         NoneWaits(x), SessionHeld(x, at), ReceiptsHeld(x, at, u, unit, egress)
  PROVE  RealtimeInv'
<1>1. BooksHeld(unit', ledger', egress') /\ ReceiptsHeld(x, at, u, unit', egress')
  BY DEF RealtimeInv, Held
<1>2. /\ unit' \in [Units -> {"none", "funded", "settled"}]
      /\ ledger' \in [Units -> Seq({"free", "billed"})] /\ egress' \subseteq Units
  BY DEF RealtimeInv, Held
<1> QED
  BY <1>1, <1>2, Becomes

LEMMA ShutHeld ==
  ASSUME NEW x \in Sessions
  PROVE  /\ Shut(x) \in Sessions /\ Shut(x).closed /\ NoneWaits(Shut(x))
         /\ Shut(x).active = x.active /\ Shut(x).inputBuffer = x.inputBuffer
         /\ Shut(x).inputSent = x.inputSent /\ Shut(x).inputUnits = x.inputUnits
         /\ Shut(x).sent = x.sent /\ Shut(x).buffer = x.buffer
  BY DEF Shut, Sessions, NoneWaits

(* What the invariant says, unfolded.                                      *)
LEMMA Known ==
  ASSUME RealtimeInv
  PROVE  /\ rt \in Sessions /\ run.at \in Places /\ run.unit \in Owners
         /\ unit \in [Units -> {"none", "funded", "settled"}]
         /\ ledger \in [Units -> Seq({"free", "billed"})] /\ egress \subseteq Units
         /\ NoneWaits(rt) /\ SessionHeld(rt, run.at) /\ BooksHeld(unit, ledger, egress)
         /\ ReceiptsHeld(rt, run.at, run.unit, unit, egress)
  BY DEF RealtimeInv, Held

LEMMA CloseKeeps == RealtimeInv /\ CloseRealtime => RealtimeInv'
<1> SUFFICES ASSUME RealtimeInv, CloseRealtime PROVE RealtimeInv'
  OBVIOUS
<1>1. rt' = Shut(rt) /\ run' = run /\ UNCHANGED <<unit, ledger, egress>>
  BY DEF CloseRealtime
<1>2. SessionHeld(Shut(rt), run.at) /\ ReceiptsHeld(Shut(rt), run.at, run.unit, unit, egress)
  BY ShutHeld, Known DEF SessionHeld, ReceiptsHeld
<1>3. Held(Shut(rt), run, unit, ledger, egress)
  BY <1>2, Known, ShutHeld DEF Held
<1> QED
  BY <1>1, <1>3 DEF RealtimeInv

(* A session that closes while its handler gives up.                       *)
LEMMA ShutRests ==
  ASSUME RealtimeInv, rt' = Shut(rt), run' = Idle, UNCHANGED <<unit, ledger, egress>>
  PROVE  RealtimeInv'
<1>1. SessionHeld(Shut(rt), "idle") /\ ReceiptsHeld(Shut(rt), "idle", NoUnit, unit, egress)
  BY ShutHeld, Known DEF SessionHeld, ReceiptsHeld
<1> QED
  BY <1>1, ShutHeld, Known, Rests, OnlySession DEF Owners, Places

LEMMA GuardFailsKeeps == RealtimeInv /\ GuardFails => RealtimeInv'
  BY Known, ShutRests DEF GuardFails

LEMMA UpdateKeeps == RealtimeInv /\ Update => RealtimeInv'
<1> SUFFICES ASSUME RealtimeInv, Update PROVE RealtimeInv'
  OBVIOUS
<1>1. /\ rt' = rt /\ run' = Await("update", NoUnit) /\ rt.buffer = 0
      /\ run.at = "idle" /\ UNCHANGED <<unit, ledger, egress>>
  BY DEF Update, Open, Idle
<1>2. SessionHeld(rt, "update") /\ ReceiptsHeld(rt, "update", NoUnit, unit, egress)
  BY <1>1, Known DEF SessionHeld, ReceiptsHeld
<1> QED
  BY <1>1, <1>2, Known, OnlySession DEF Places, Owners

LEMMA AwaitsKeep == RealtimeInv /\ (Toggle \/ AppendAudio) => RealtimeInv'
<1> SUFFICES ASSUME RealtimeInv, Toggle \/ AppendAudio PROVE RealtimeInv'
  OBVIOUS
<1>1. PICK at \in {"toggle", "append"} :
        /\ rt' = rt /\ run' = Await(at, NoUnit) /\ run.at = "idle"
        /\ UNCHANGED <<unit, ledger, egress>>
  BY DEF Toggle, AppendAudio, Ready, Open, Idle
<1>2. SessionHeld(rt, at) /\ ReceiptsHeld(rt, at, NoUnit, unit, egress)
  BY <1>1, Known DEF SessionHeld, ReceiptsHeld
<1> QED
  BY <1>1, <1>2, Known, OnlySession DEF Places, Owners

(* An event or a guard that leaves the receipts and the audio as they are. *)
LEMMA Minor ==
  ASSUME RealtimeInv, run.at # "cleared", NEW x \in Sessions, x.closed = rt.closed,
         x.active = rt.active, x.sent = rt.sent, x.inputBuffer = rt.inputBuffer,
         x.inputSent = rt.inputSent, x.inputUnits = rt.inputUnits, x.buffer = rt.buffer,
         x.autoPending = rt.autoPending, x.policy.asr = rt.policy.asr \/ x.buffer = 0,
         x.end = rt.end \/ x.end <= x.buffer,
         rt' = x, run' = Idle, UNCHANGED <<unit, ledger, egress>>
  PROVE  RealtimeInv'
<1>1. x.buffer \in Nat /\ (x.buffer > 0 => x.buffer # 0)
  BY Bounds DEF Sessions
<1>2. SessionHeld(x, "idle")
  BY <1>1, Known DEF SessionHeld
<1>3. NoneWaits(x) /\ ReceiptsHeld(x, "idle", NoUnit, unit, egress)
  BY Known DEF NoneWaits, ReceiptsHeld
<1> QED
  BY <1>2, <1>3, Rests, OnlySession DEF Places, Owners

LEMMA UpdateGuardedKeeps == RealtimeInv /\ UpdateGuarded => RealtimeInv'
<1> SUFFICES ASSUME RealtimeInv, UpdateGuarded PROVE RealtimeInv'
  OBVIOUS
<1>1. run.at = "update" /\ run' = Idle /\ UNCHANGED <<unit, ledger, egress>> /\ rt.buffer = 0
  BY Known, ZenonT(60) DEF UpdateGuarded, SessionHeld
<1>2. CASE rt.closed
  BY <1>1, <1>2, Known, Minor DEF UpdateGuarded
<1>3. CASE ~rt.closed
  <2>1. PICK p \in Policies : rt' = [rt EXCEPT !.pending = TRUE, !.policy = p]
    BY <1>3, ZenonT(60) DEF UpdateGuarded
  <2> DEFINE x == [rt EXCEPT !.pending = TRUE, !.policy = p]
  <2>2. /\ x \in Sessions /\ x.closed = rt.closed /\ x.active = rt.active /\ x.sent = rt.sent
        /\ x.inputBuffer = rt.inputBuffer /\ x.inputSent = rt.inputSent
        /\ x.inputUnits = rt.inputUnits /\ x.buffer = rt.buffer
        /\ x.autoPending = rt.autoPending /\ x.end = rt.end
    BY Known DEF Sessions
  <2> HIDE DEF x
  <2> QED
    BY <1>1, <2>1, <2>2, Minor DEF x
<1> QED
  BY <1>2, <1>3

LEMMA ToggleGuardedKeeps == RealtimeInv /\ ToggleGuarded => RealtimeInv'
<1> SUFFICES ASSUME RealtimeInv, ToggleGuarded PROVE RealtimeInv'
  OBVIOUS
<1>1. run.at = "toggle" /\ run' = Idle /\ UNCHANGED <<unit, ledger, egress>>
  BY DEF ToggleGuarded
<1>2. CASE rt.closed
  BY <1>1, <1>2, Known, Minor DEF ToggleGuarded
<1>3. CASE ~rt.closed
  <2> DEFINE x == [rt EXCEPT !.policy.auto = ~@]
  <2>1. x = [rt EXCEPT !.policy = [rt.policy EXCEPT !.auto = ~rt.policy.auto]]
    BY Known DEF Sessions, Policies
  <2>2. rt.policy \in Policies
    BY Known DEF Sessions
  <2>3. [rt.policy EXCEPT !.auto = ~rt.policy.auto] \in Policies
        /\ [rt.policy EXCEPT !.auto = ~rt.policy.auto].asr = rt.policy.asr
    BY <2>2 DEF Policies
  <2>4. /\ x \in Sessions /\ x.closed = rt.closed /\ x.active = rt.active /\ x.sent = rt.sent
        /\ x.inputBuffer = rt.inputBuffer /\ x.inputSent = rt.inputSent
        /\ x.inputUnits = rt.inputUnits /\ x.buffer = rt.buffer
        /\ x.autoPending = rt.autoPending /\ x.end = rt.end /\ x.policy.asr = rt.policy.asr
    BY <2>1, <2>3, Known DEF Sessions
  <2>5. rt' = x
    BY <1>3 DEF ToggleGuarded
  <2> HIDE DEF x
  <2> QED
    BY <1>1, <2>4, <2>5, Minor
<1> QED
  BY <1>2, <1>3

LEMMA EventsKeep ==
  RealtimeInv /\ (Updated \/ CommitAudio \/ ClearAudio \/ SpeechStarted \/ SpeechStopped
                  \/ ResponseCreated) => RealtimeInv'
<1> SUFFICES ASSUME RealtimeInv, Updated \/ CommitAudio \/ ClearAudio \/ SpeechStarted
                                 \/ SpeechStopped \/ ResponseCreated PROVE RealtimeInv'
  OBVIOUS
<1>1. /\ run.at = "idle" /\ run.at # "cleared" /\ run' = Idle
      /\ UNCHANGED <<unit, ledger, egress>>
  BY DEF Updated, CommitAudio, ClearAudio, SpeechStarted, SpeechStopped, ResponseCreated,
         Ready, Open, Idle
<1>2. rt' \in Sessions /\ rt'.closed = rt.closed
      /\ rt'.active = rt.active /\ rt'.sent = rt.sent /\ rt'.inputBuffer = rt.inputBuffer
      /\ rt'.inputSent = rt.inputSent /\ rt'.inputUnits = rt.inputUnits
      /\ rt'.buffer = rt.buffer /\ rt'.autoPending = rt.autoPending /\ rt'.policy = rt.policy
      /\ (rt'.end = rt.end \/ rt'.end <= rt'.buffer)
  <2>1. CASE Updated
    BY <2>1, Known, ZenonT(60) DEF Updated, Sessions
  <2>2. CASE CommitAudio
    BY <2>2, Known DEF CommitAudio, Sessions
  <2>3. CASE ClearAudio
    BY <2>3, Known DEF ClearAudio, Sessions
  <2>4. CASE SpeechStarted
    <3>1. rt' = [rt EXCEPT !.speech = TRUE, !.end = 0] /\ 0 \in 0..MaxBuffer
      BY <2>4, Bounds DEF SpeechStarted
    <3>2. rt.buffer \in 0..MaxBuffer /\ 0 <= rt.buffer
      BY Known, Bounds DEF Sessions
    <3> QED
      BY <3>1, <3>2, Known DEF Sessions
  <2>5. CASE SpeechStopped
    <3>1. PICK k \in 1..rt.buffer : rt' = [rt EXCEPT !.end = k]
      BY <2>5 DEF SpeechStopped
    <3>2. rt.buffer \in 0..MaxBuffer
      BY Known DEF Sessions
    <3>3. k \in 0..MaxBuffer /\ k <= rt.buffer
      BY <3>2, Bounds
    <3> QED
      BY <3>1, <3>3, Known DEF Sessions
  <2>6. CASE ResponseCreated
    BY <2>6, Known DEF ResponseCreated, Sessions
  <2> QED
    BY <2>1, <2>2, <2>3, <2>4, <2>5, <2>6
<1>3. PICK x : x = rt'
  OBVIOUS
<1> QED
  BY <1>1, <1>2, <1>3, Minor

(* Settling the units S: each that is open closes, once, and as free only  *)
(* when upstream keeps no work under it.                                   *)
LEMMA Settles ==
  ASSUME RealtimeInv, NEW S, NEW billed, Settle(S, billed), egress' \subseteq egress,
         \A u \in Units : u \in S /\ u \notin billed /\ unit[u] = "funded" => u \notin egress'
  PROVE  /\ unit' \in [Units -> {"none", "funded", "settled"}]
         /\ ledger' \in [Units -> Seq({"free", "billed"})] /\ egress' \subseteq Units
         /\ BooksHeld(unit', ledger', egress')
         /\ \A u \in Units : /\ unit'[u] = "none" <=> unit[u] = "none"
                             /\ u \notin S => unit'[u] = unit[u]
<1> DEFINE due == {u \in S : unit[u] = "funded"}
<1>1. /\ unit' = [u \in Units |-> IF u \in due THEN "settled" ELSE unit[u]]
      /\ ledger' = [u \in Units |->
                      IF u \in due
                      THEN Append(ledger[u], IF u \in billed THEN "billed" ELSE "free")
                      ELSE ledger[u]]
  BY DEF Settle
<1>2. ASSUME NEW u \in Units, u \in due
      PROVE  /\ ledger'[u] \in {<<"free">>, <<"billed">>} /\ ledger'[u] \in Seq({"free", "billed"})
             /\ ledger'[u] = <<"free">> => u \notin billed
  <2>1. ledger[u] = <<>> /\ unit[u] = "funded"
    BY <1>2, Known DEF BooksHeld
  <2>2. ledger'[u] = Append(<<>>, IF u \in billed THEN "billed" ELSE "free")
    BY <1>1, <1>2, <2>1
  <2> QED
    BY <2>2, Ledgers
<1>3. ASSUME NEW u \in Units, u \notin due
      PROVE  unit'[u] = unit[u] /\ ledger'[u] = ledger[u]
  BY <1>1, <1>3
<1>4. \A u \in Units : u \in due => unit'[u] = "settled" /\ unit[u] = "funded" /\ u \in S
  BY <1>1
<1>5. unit' \in [Units -> {"none", "funded", "settled"}]
  BY <1>1, Known
<1>6. ledger' \in [Units -> Seq({"free", "billed"})]
  <2>1. \A u \in Units : ledger'[u] \in Seq({"free", "billed"})
    BY <1>2, <1>3, Known
  <2> QED
    BY <1>1, <2>1
<1>7. BooksHeld(unit', ledger', egress')
  <2> SUFFICES ASSUME NEW u \in Units
               PROVE  /\ unit'[u] \in {"none", "funded"} => ledger'[u] = <<>>
                      /\ unit'[u] = "settled" => ledger'[u] \in {<<"free">>, <<"billed">>}
                      /\ unit'[u] = "none" \/ ledger'[u] = <<"free">> => u \notin egress'
    BY DEF BooksHeld
  <2>1. CASE u \in due
    BY <1>2, <1>4, <2>1
  <2>2. CASE u \notin due
    BY <1>3, <2>2, Known DEF BooksHeld
  <2> QED
    BY <2>1, <2>2
<1> HIDE DEF due
<1>8. \A u \in Units : /\ unit'[u] = "none" <=> unit[u] = "none"
                       /\ u \notin S => unit'[u] = unit[u]
  BY <1>3, <1>4
<1>9. egress' \subseteq Units
  BY Known
<1> QED
  BY <1>5, <1>6, <1>7, <1>8, <1>9

(* Funding a unit that was not used before, or settling it as free at once.*)
LEMMA Opens ==
  ASSUME RealtimeInv, NEW u \in Units, unit[u] = "none", egress' \subseteq egress \cup {u},
         \/ unit' = [unit EXCEPT ![u] = "funded"] /\ UNCHANGED ledger
         \/ /\ unit' = [unit EXCEPT ![u] = "settled"]
            /\ ledger' = [ledger EXCEPT ![u] = Append(@, "free")] /\ egress' = egress
  PROVE  /\ unit' \in [Units -> {"none", "funded", "settled"}]
         /\ ledger' \in [Units -> Seq({"free", "billed"})] /\ egress' \subseteq Units
         /\ BooksHeld(unit', ledger', egress') /\ unit'[u] # "none"
         /\ \A v \in Units : v # u => unit'[v] = unit[v]
<1>1. ledger[u] = <<>> /\ u \notin egress
  BY Known DEF BooksHeld
<1>2. \A v \in Units : v # u => unit'[v] = unit[v] /\ ledger'[v] = ledger[v]
  BY Known
<1>3. \/ unit'[u] = "funded" /\ ledger'[u] = <<>>
      \/ unit'[u] = "settled" /\ ledger'[u] = <<"free">> /\ egress' = egress
  <2>1. CASE unit' = [unit EXCEPT ![u] = "funded"] /\ UNCHANGED ledger
    BY <2>1, <1>1, Known
  <2>2. CASE /\ unit' = [unit EXCEPT ![u] = "settled"]
             /\ ledger' = [ledger EXCEPT ![u] = Append(@, "free")] /\ egress' = egress
    <3>1. unit'[u] = "settled" /\ ledger'[u] = Append(<<>>, "free")
      BY <2>2, <1>1, Known
    <3> QED
      BY <2>2, <3>1, Ledgers
  <2> QED
    BY <2>1, <2>2
<1>4. unit' \in [Units -> {"none", "funded", "settled"}]
  BY Known
<1>5. ledger' \in [Units -> Seq({"free", "billed"})]
  <2>1. ledger'[u] \in Seq({"free", "billed"}) /\ DOMAIN ledger' = Units
    BY <1>3, Ledgers, Known
  <2>2. \A v \in Units : ledger'[v] \in Seq({"free", "billed"})
    BY <1>2, <2>1, Known
  <2>3. ledger' = [v \in Units |-> ledger'[v]]
    BY Known
  <2> QED
    BY <2>2, <2>3
<1>6. BooksHeld(unit', ledger', egress')
  <2> SUFFICES ASSUME NEW v \in Units
               PROVE  /\ unit'[v] \in {"none", "funded"} => ledger'[v] = <<>>
                      /\ unit'[v] = "settled" => ledger'[v] \in {<<"free">>, <<"billed">>}
                      /\ unit'[v] = "none" \/ ledger'[v] = <<"free">> => v \notin egress'
    BY DEF BooksHeld
  <2>1. CASE v = u
    BY <2>1, <1>1, <1>3, Ledgers
  <2>2. CASE v # u
    BY <2>2, <1>2, Known DEF BooksHeld
  <2> QED
    BY <2>1, <2>2
<1> QED
  BY <1>2, <1>3, <1>4, <1>5, <1>6, Known

LEMMA CleanupKeeps == RealtimeInv /\ Cleanup => RealtimeInv'
<1> SUFFICES ASSUME RealtimeInv, Cleanup PROVE RealtimeInv'
  OBVIOUS
<1> DEFINE x == [rt EXCEPT !.cleaned = TRUE]
           heard == IF rt.active # NoUnit /\ rt.funded /\ ~rt.settled THEN {rt.active} ELSE {}
           input == {rt.inputBuffer} \ {NoUnit}
           S == rt.inputUnits \cup input \cup heard
           billed == rt.inputUnits \cup (IF rt.inputSent THEN input ELSE {})
                     \cup (IF rt.sent THEN heard ELSE {})
<1>1. /\ rt.closed /\ run.at = "idle" /\ rt' = x /\ run' = Await("idle", NoUnit)
      /\ Settle(S, billed) /\ egress' = egress
  BY Rests DEF Cleanup, Idle
<1>2. /\ x \in Sessions /\ x.closed /\ x.active = rt.active /\ x.sent = rt.sent
      /\ x.inputBuffer = rt.inputBuffer /\ x.inputSent = rt.inputSent
      /\ x.inputUnits = rt.inputUnits
  BY <1>1, Known DEF Sessions
<1>3. \A u \in Units : u \in S /\ u \notin billed => u \notin egress
  BY Known DEF ReceiptsHeld
<1> HIDE DEF x, heard, input, S, billed
<1>4. NoneWaits(x) /\ SessionHeld(x, "idle")
  BY <1>1, <1>2, Known DEF NoneWaits, SessionHeld
<1>5. /\ unit' \in [Units -> {"none", "funded", "settled"}]
      /\ ledger' \in [Units -> Seq({"free", "billed"})] /\ egress' \subseteq Units
      /\ BooksHeld(unit', ledger', egress')
      /\ \A u \in Units : unit'[u] = "none" <=> unit[u] = "none"
  <2>1. /\ Settle(S, billed) /\ egress' \subseteq egress
        /\ \A u \in Units : u \in S /\ u \notin billed /\ unit[u] = "funded" => u \notin egress'
    BY <1>1, <1>3
  <2> QED
    BY <2>1, Settles
<1>6. rt.inputBuffer \in Owners /\ rt.inputUnits \subseteq Units
  BY Known DEF Sessions
<1>7. ReceiptsHeld(x, "idle", NoUnit, unit', egress')
  BY <1>1, <1>2, <1>5, <1>6, Known DEF ReceiptsHeld, Owners
<1> QED
  BY <1>1, <1>2, <1>4, <1>5, <1>7, Becomes DEF Places, Owners

LEMMA TranscribedKeeps == RealtimeInv /\ Transcribed => RealtimeInv'
<1> SUFFICES ASSUME RealtimeInv, Transcribed PROVE RealtimeInv'
  OBVIOUS
<1>1. PICK u \in rt.inputUnits : Settle({u}, {u}) /\ run' = Await("transcribed", u)
  BY DEF Transcribed
<1>2. run.at = "idle" /\ ~rt.closed /\ rt' = rt /\ egress' = egress
  BY DEF Transcribed, Open, Idle
<1>3. rt.inputBuffer \in Owners /\ rt.inputUnits \subseteq Units /\ u \in Owners
  BY Known DEF Sessions, Owners
<1>4. NoneWaits(rt) /\ SessionHeld(rt, "transcribed")
  BY <1>2, Known DEF SessionHeld
<1>5. /\ unit' \in [Units -> {"none", "funded", "settled"}]
      /\ ledger' \in [Units -> Seq({"free", "billed"})] /\ egress' \subseteq Units
      /\ BooksHeld(unit', ledger', egress')
      /\ \A v \in Units : /\ unit'[v] = "none" <=> unit[v] = "none"
                          /\ v # u => unit'[v] = unit[v]
  BY <1>1, <1>2, Settles
<1>6. ReceiptsHeld(rt, "transcribed", u, unit', egress')
  BY <1>1, <1>2, <1>3, <1>5, Known DEF ReceiptsHeld, Owners
<1> QED
  BY <1>1, <1>2, <1>3, <1>4, <1>5, <1>6, Known, Becomes DEF Places

LEMMA TranscribedReturnsKeeps == RealtimeInv /\ TranscribedReturns => RealtimeInv'
<1> SUFFICES ASSUME RealtimeInv, TranscribedReturns PROVE RealtimeInv'
  OBVIOUS
<1>1. run.at = "transcribed" /\ run' = Idle /\ UNCHANGED <<unit, ledger, egress>>
  BY DEF TranscribedReturns
<1>2. CASE rt' = Shut(rt)
  BY <1>1, <1>2, Known, ShutRests
<1>3. CASE rt' = [rt EXCEPT !.inputUnits = @ \ {run.unit}]
  <2> DEFINE x == [rt EXCEPT !.inputUnits = @ \ {run.unit}]
  <2>1. /\ x \in Sessions /\ x.closed = rt.closed /\ x.active = rt.active /\ x.sent = rt.sent
        /\ x.inputBuffer = rt.inputBuffer /\ x.inputSent = rt.inputSent
        /\ x.inputUnits \subseteq rt.inputUnits /\ x.buffer = rt.buffer /\ x.end = rt.end
        /\ x.autoPending = rt.autoPending /\ x.policy = rt.policy
    BY Known DEF Sessions
  <2> HIDE DEF x
  <2>2. NoneWaits(x) /\ SessionHeld(x, "idle") /\ ReceiptsHeld(x, "idle", NoUnit, unit, egress)
    BY <1>1, <2>1, Known DEF NoneWaits, SessionHeld, ReceiptsHeld
  <2> QED
    BY <1>1, <1>3, <2>1, <2>2, Rests, OnlySession DEF Places, Owners, x
<1> QED
  BY <1>2, <1>3 DEF TranscribedReturns

LEMMA ClearedKeeps == RealtimeInv /\ Cleared => RealtimeInv'
<1> SUFFICES ASSUME RealtimeInv, Cleared PROVE RealtimeInv'
  OBVIOUS
<1> DEFINE x == [rt EXCEPT !.clearPending = FALSE, !.buffer = 0]
           S == {rt.inputBuffer} \ {NoUnit}
           billed == IF rt.inputSent THEN {rt.inputBuffer} ELSE {}
<1>1. /\ run.at = "idle" /\ ~rt.closed /\ rt' = x /\ run' = Await("cleared", NoUnit)
      /\ Settle(S, billed) /\ egress' = egress
  BY DEF Cleared, Open, Idle
<1>2. 0 \in 0..MaxBuffer
  BY Bounds
<1>3. /\ x \in Sessions /\ ~x.closed /\ x.active = rt.active /\ x.sent = rt.sent
      /\ x.inputBuffer = rt.inputBuffer /\ x.inputSent = rt.inputSent /\ x.buffer = 0
      /\ x.inputUnits = rt.inputUnits /\ x.autoPending = rt.autoPending
  BY <1>1, <1>2, Known DEF Sessions
<1>4. \A u \in Units : u \in S /\ u \notin billed => u \notin egress
  BY Known DEF ReceiptsHeld
<1> HIDE DEF x, S, billed
<1>5. /\ unit' \in [Units -> {"none", "funded", "settled"}]
      /\ ledger' \in [Units -> Seq({"free", "billed"})] /\ egress' \subseteq Units
      /\ BooksHeld(unit', ledger', egress')
      /\ \A u \in Units : unit'[u] = "none" <=> unit[u] = "none"
  BY <1>1, <1>4, Settles
<1>6. NoneWaits(x) /\ SessionHeld(x, "cleared")
  BY <1>1, <1>3, Known DEF NoneWaits, SessionHeld
<1>7. rt.inputBuffer \in Owners /\ rt.inputUnits \subseteq Units
  BY Known DEF Sessions
<1>8. ReceiptsHeld(x, "cleared", NoUnit, unit', egress')
  BY <1>1, <1>3, <1>5, <1>7, Known DEF ReceiptsHeld, Owners
<1> QED
  BY <1>1, <1>3, <1>5, <1>6, <1>8, Becomes DEF Places, Owners

LEMMA ClearedReturnsKeeps == RealtimeInv /\ ClearedReturns => RealtimeInv'
<1> SUFFICES ASSUME RealtimeInv, ClearedReturns PROVE RealtimeInv'
  OBVIOUS
<1>1. run.at = "cleared" /\ run' = Idle /\ UNCHANGED <<unit, ledger, egress>> /\ rt.buffer = 0
  BY Known DEF ClearedReturns, SessionHeld
<1>2. CASE rt' = Shut(rt)
  BY <1>1, <1>2, Known, ShutRests
<1>3. CASE rt' = [rt EXCEPT !.inputBuffer = NoUnit, !.speech = FALSE, !.end = 0]
  <2> DEFINE x == [rt EXCEPT !.inputBuffer = NoUnit, !.speech = FALSE, !.end = 0]
  <2>1. 0 \in 0..MaxBuffer /\ NoUnit \in Owners
    BY Bounds DEF Owners
  <2>2. /\ x \in Sessions /\ x.closed = rt.closed /\ x.active = rt.active /\ x.sent = rt.sent
        /\ x.inputBuffer = NoUnit /\ x.inputUnits = rt.inputUnits /\ x.buffer = 0 /\ x.end = 0
        /\ x.autoPending = rt.autoPending
    BY <1>1, <2>1, Known, ZenonT(60) DEF Sessions
  <2> HIDE DEF x
  <2>3. NoneWaits(x) /\ SessionHeld(x, "idle") /\ ReceiptsHeld(x, "idle", NoUnit, unit, egress)
    BY <1>1, <2>2, Known DEF NoneWaits, SessionHeld, ReceiptsHeld
  <2> QED
    BY <1>1, <1>3, <2>2, <2>3, Rests, OnlySession DEF Places, Owners, x
<1> QED
  BY <1>2, <1>3 DEF ClearedReturns

LEMMA AbandonKeeps == RealtimeInv /\ Abandon => RealtimeInv'
<1> SUFFICES ASSUME RealtimeInv, Abandon PROVE RealtimeInv'
  OBVIOUS
<1> DEFINE x == [rt EXCEPT !.settled = TRUE]
<1>1. /\ run.at = "abandon" /\ rt' = x /\ run' = Await("idle", NoUnit)
      /\ Settle({rt.active}, {}) /\ egress' = egress
  BY Rests DEF Abandon
<1>2. /\ x \in Sessions /\ x.closed = rt.closed /\ x.active = rt.active /\ x.sent = rt.sent
      /\ x.inputBuffer = rt.inputBuffer /\ x.inputSent = rt.inputSent
      /\ x.inputUnits = rt.inputUnits /\ x.buffer = rt.buffer /\ x.end = rt.end
      /\ x.autoPending = rt.autoPending /\ x.policy = rt.policy
  BY Known DEF Sessions
<1> HIDE DEF x
<1>3. rt.active \in Units /\ ~rt.sent /\ rt.active \notin egress /\ rt.active # rt.inputBuffer
      /\ rt.inputBuffer \in Owners /\ rt.inputUnits \subseteq Units
  <2>1. rt.active # NoUnit
    BY <1>1, Known, RealtimeAssumption DEF ReceiptsHeld
  <2> QED
    BY <1>1, <2>1, Known DEF ReceiptsHeld, SessionHeld, Sessions
<1>4. /\ unit' \in [Units -> {"none", "funded", "settled"}]
      /\ ledger' \in [Units -> Seq({"free", "billed"})] /\ egress' \subseteq Units
      /\ BooksHeld(unit', ledger', egress')
      /\ \A u \in Units : /\ unit'[u] = "none" <=> unit[u] = "none"
                          /\ u # rt.active => unit'[u] = unit[u]
  BY <1>1, <1>3, Settles
<1>5. NoneWaits(x) /\ SessionHeld(x, "idle")
  BY <1>1, <1>2, Known DEF NoneWaits, SessionHeld
<1>6. ReceiptsHeld(x, "idle", NoUnit, unit', egress')
  BY <1>1, <1>2, <1>3, <1>4, Known DEF ReceiptsHeld, Owners
<1> QED
  BY <1>1, <1>2, <1>4, <1>5, <1>6, Becomes DEF Places, Owners

LEMMA ResponseEndsKeeps == RealtimeInv /\ ResponseEnds => RealtimeInv'
<1> SUFFICES ASSUME RealtimeInv, ResponseEnds PROVE RealtimeInv'
  OBVIOUS
<1> DEFINE x == [rt EXCEPT !.settled = TRUE]
<1>1. /\ run.at = "idle" /\ rt' = x /\ run' = Await("done", NoUnit) /\ rt.sent
      /\ rt.active # NoUnit
  BY DEF ResponseEnds, Open, Idle
<1>2. /\ x \in Sessions /\ x.closed = rt.closed /\ x.active = rt.active /\ x.sent = rt.sent
      /\ x.inputBuffer = rt.inputBuffer /\ x.inputSent = rt.inputSent
      /\ x.inputUnits = rt.inputUnits /\ x.buffer = rt.buffer /\ x.end = rt.end
      /\ x.autoPending = rt.autoPending /\ x.policy = rt.policy
  BY Known DEF Sessions
<1> HIDE DEF x
<1>3. rt.active # rt.inputBuffer /\ rt.inputBuffer \in Owners /\ rt.inputUnits \subseteq Units
  BY <1>1, Known DEF SessionHeld, Sessions
<1>4. PICK billed \in {{}, {rt.active}} :
        /\ Settle({rt.active}, billed) /\ egress' \subseteq egress
        /\ billed = {} => rt.active \notin egress'
  BY DEF ResponseEnds
<1>5. \A u \in Units : u \in {rt.active} /\ u \notin billed /\ unit[u] = "funded" => u \notin egress'
  BY <1>4
<1>6. /\ unit' \in [Units -> {"none", "funded", "settled"}]
      /\ ledger' \in [Units -> Seq({"free", "billed"})] /\ egress' \subseteq Units
      /\ BooksHeld(unit', ledger', egress')
      /\ \A u \in Units : /\ unit'[u] = "none" <=> unit[u] = "none"
                          /\ u # rt.active => unit'[u] = unit[u]
  BY <1>4, <1>5, Settles
<1>7. NoneWaits(x) /\ SessionHeld(x, "done")
  BY <1>1, <1>2, Known DEF NoneWaits, SessionHeld
<1>8. ReceiptsHeld(x, "done", NoUnit, unit', egress')
  BY <1>1, <1>2, <1>3, <1>4, <1>6, Known DEF ReceiptsHeld, Owners
<1> QED
  BY <1>1, <1>2, <1>6, <1>7, <1>8, Becomes DEF Places, Owners

LEMMA FundInputKeeps == RealtimeInv /\ FundInput => RealtimeInv'
<1> SUFFICES ASSUME RealtimeInv, FundInput PROVE RealtimeInv'
  OBVIOUS
<1> DEFINE x == [rt EXCEPT !.inputBuffer = run.unit, !.inputSent = FALSE]
<1>1. PICK at \in {"idle", "appendGuard"} : run' = Await(at, NoUnit)
  BY Rests DEF FundInput
<1>2. /\ run.at = "fundInput" /\ rt' = x /\ unit' = [unit EXCEPT ![run.unit] = "funded"]
      /\ UNCHANGED <<ledger, egress>>
  BY DEF FundInput
<1>3. run.unit \in Units /\ unit[run.unit] = "none" /\ run.unit # rt.active
      /\ run.unit # NoUnit /\ run.unit \notin rt.inputUnits /\ run.unit \notin egress
      /\ rt.inputUnits \subseteq Units
  BY <1>2, Known, RealtimeAssumption DEF ReceiptsHeld, BooksHeld, Sessions
<1>4. /\ x \in Sessions /\ x.closed = rt.closed /\ x.active = rt.active /\ x.sent = rt.sent
      /\ x.inputBuffer = run.unit /\ x.inputSent = FALSE
      /\ x.inputUnits = rt.inputUnits /\ x.buffer = rt.buffer /\ x.end = rt.end
      /\ x.autoPending = rt.autoPending /\ x.policy = rt.policy
  BY Known DEF Sessions
<1> HIDE DEF x
<1>5. /\ unit' \in [Units -> {"none", "funded", "settled"}]
      /\ ledger' \in [Units -> Seq({"free", "billed"})] /\ egress' \subseteq Units
      /\ BooksHeld(unit', ledger', egress')
      /\ \A v \in Units : v # run.unit => unit'[v] = unit[v]
  BY <1>2, <1>3, Opens
<1>6. unit'[run.unit] = "funded"
  BY <1>2, <1>3, Known
<1>7. NoneWaits(x) /\ SessionHeld(x, at)
  BY <1>2, <1>3, <1>4, Known DEF NoneWaits, SessionHeld
<1>8. ReceiptsHeld(x, at, NoUnit, unit', egress')
  BY <1>2, <1>3, <1>4, <1>5, <1>6, Known DEF ReceiptsHeld
<1> QED
  BY <1>1, <1>2, <1>4, <1>5, <1>7, <1>8, Becomes DEF Places, Owners

LEMMA FundedKeeps == RealtimeInv /\ Funded => RealtimeInv'
<1> SUFFICES ASSUME RealtimeInv, Funded PROVE RealtimeInv'
  OBVIOUS
<1> DEFINE x == [rt EXCEPT !.funded = TRUE]
<1>1. PICK at \in {"abandon", "createGuard"} : run' = Await(at, NoUnit)
  BY DEF Funded
<1>2. /\ run.at = "fund" /\ rt' = x /\ unit' = [unit EXCEPT ![run.unit] = "funded"]
      /\ UNCHANGED <<ledger, egress>>
  BY DEF Funded
<1>3. /\ run.unit \in Units /\ unit[run.unit] = "none" /\ run.unit = rt.active
      /\ run.unit # NoUnit /\ run.unit # rt.inputBuffer /\ ~rt.sent
      /\ rt.inputUnits \subseteq Units /\ rt.inputBuffer \in Owners
  BY <1>2, Known, RealtimeAssumption DEF ReceiptsHeld, SessionHeld, Sessions
<1>4. /\ x \in Sessions /\ x.closed = rt.closed /\ x.active = rt.active /\ x.sent = rt.sent
      /\ x.inputBuffer = rt.inputBuffer /\ x.inputSent = rt.inputSent
      /\ x.inputUnits = rt.inputUnits /\ x.buffer = rt.buffer /\ x.end = rt.end
      /\ x.autoPending = rt.autoPending /\ x.policy = rt.policy
  BY Known DEF Sessions
<1> HIDE DEF x
<1>5. /\ unit' \in [Units -> {"none", "funded", "settled"}]
      /\ ledger' \in [Units -> Seq({"free", "billed"})] /\ egress' \subseteq Units
      /\ BooksHeld(unit', ledger', egress')
      /\ \A v \in Units : v # run.unit => unit'[v] = unit[v]
  BY <1>2, <1>3, Opens
<1>6. unit'[run.unit] = "funded"
  BY <1>2, <1>3, Known
<1>7. NoneWaits(x) /\ SessionHeld(x, at)
  BY <1>2, <1>4, Known DEF NoneWaits, SessionHeld
<1>8. ReceiptsHeld(x, at, NoUnit, unit', egress')
  BY <1>2, <1>3, <1>4, <1>5, <1>6, Known DEF ReceiptsHeld, Owners
<1> QED
  BY <1>1, <1>2, <1>4, <1>5, <1>7, <1>8, Becomes, ZenonT(60) DEF Places, Owners

LEMMA FundFailsKeeps == RealtimeInv /\ FundFails => RealtimeInv'
<1> SUFFICES ASSUME RealtimeInv, FundFails PROVE RealtimeInv'
  OBVIOUS
<1>1. /\ run.at \in {"fundInput", "fund"} /\ rt' = Shut(rt) /\ run' = Await("idle", NoUnit)
      /\ egress' = egress
  BY Rests DEF FundFails
<1>2. CASE UNCHANGED <<unit, ledger>>
  BY <1>1, <1>2, Rests, Known, ShutRests
<1>3. CASE /\ unit' = [unit EXCEPT ![run.unit] = "settled"]
           /\ ledger' = [ledger EXCEPT ![run.unit] = Append(@, "free")]
  <2>1. run.unit \in Units /\ unit[run.unit] = "none"
    BY <1>1, Known DEF ReceiptsHeld
  <2>2. /\ unit' \in [Units -> {"none", "funded", "settled"}]
        /\ ledger' \in [Units -> Seq({"free", "billed"})] /\ egress' \subseteq Units
        /\ BooksHeld(unit', ledger', egress') /\ unit'[run.unit] # "none"
        /\ \A v \in Units : v # run.unit => unit'[v] = unit[v]
    BY <1>1, <1>3, <2>1, Opens
  <2>3. rt.inputBuffer \in Owners /\ rt.inputUnits \subseteq Units
    BY Known DEF Sessions
  <2>4. SessionHeld(Shut(rt), "idle")
    BY ShutHeld, Known DEF SessionHeld
  <2>5. ReceiptsHeld(Shut(rt), "idle", NoUnit, unit', egress')
    BY <1>1, <2>2, <2>3, ShutHeld, Known DEF ReceiptsHeld, Owners
  <2> QED
    BY <1>1, <2>2, <2>4, <2>5, ShutHeld, Known, Becomes DEF Places, Owners
<1> QED
  BY <1>2, <1>3 DEF FundFails

(* Bytes leave under the unit of the buffer, which is open.                *)
LEMMA ForwardKeeps ==
  ASSUME RealtimeInv, run.at \in {"append", "appendGuard"}, Forward, UNCHANGED <<unit, ledger>>,
         ~rt.closed => ~Unfunded
  PROVE  RealtimeInv'
<1>1. run' = Await("idle", NoUnit)
  BY Rests DEF Forward
<1>2. CASE rt.closed
  <2>1. rt' = rt /\ UNCHANGED <<unit, ledger, egress>>
    BY <1>2 DEF Forward
  <2> QED
    BY <1>1, <2>1, Rests, Known, Minor
<1>3. CASE ~rt.closed /\ rt.buffer >= MaxBuffer
  <2>1. rt' = Shut(rt) /\ UNCHANGED <<unit, ledger, egress>>
    BY <1>3 DEF Forward
  <2> QED
    BY <1>1, <2>1, Rests, Known, ShutRests
<1>4. CASE ~rt.closed /\ ~(rt.buffer >= MaxBuffer)
  <2> DEFINE x == [rt EXCEPT !.buffer = @ + 1, !.inputSent = rt.inputBuffer # NoUnit]
  <2>1. rt' = x /\ egress' = egress \cup ({rt.inputBuffer} \ {NoUnit})
    BY <1>4 DEF Forward
  <2>2. PICK n : n = rt.buffer + 1
    OBVIOUS
  <2>3. n \in 0..MaxBuffer /\ (rt.end <= rt.buffer => rt.end <= n)
    BY <1>4, <2>2, Known, Bounds DEF Sessions
  <2>4. PICK b \in BOOLEAN : b <=> rt.inputBuffer # NoUnit
    OBVIOUS
  <2>5. x = [rt EXCEPT !.buffer = n, !.inputSent = b]
    BY <2>2, <2>4, Known DEF Sessions
  <2>6. /\ x \in Sessions /\ x.closed = rt.closed /\ x.active = rt.active /\ x.sent = rt.sent
        /\ x.inputBuffer = rt.inputBuffer /\ (x.inputSent <=> rt.inputBuffer # NoUnit)
        /\ x.inputUnits = rt.inputUnits /\ x.buffer = n /\ x.end = rt.end
        /\ x.autoPending = rt.autoPending /\ x.policy = rt.policy
    BY <2>3, <2>4, <2>5, Known, ZenonT(60) DEF Sessions
  <2> HIDE DEF x
  <2>7. rt.inputBuffer \in Owners
    BY Known DEF Sessions
  <2>8. rt.policy.asr => rt.inputBuffer # NoUnit
    BY <1>4 DEF Unfunded
  <2>9. NoneWaits(x) /\ SessionHeld(x, "idle")
    BY <1>4, <2>3, <2>6, <2>8, Known DEF NoneWaits, SessionHeld
  <2>10. rt.inputBuffer # NoUnit => unit[rt.inputBuffer] = "funded"
    BY <1>4, Known DEF ReceiptsHeld
  <2>11. BooksHeld(unit', ledger', egress') /\ egress' \subseteq Units
    <3>1. \A u \in Units : u \in egress' => u \in egress \/ unit[u] = "funded"
      BY <2>1, <2>10
    <3> QED
      BY <2>1, <2>7, <3>1, Known, Ledgers DEF BooksHeld, Owners
  <2>12. ReceiptsHeld(x, "idle", NoUnit, unit', egress')
    BY <1>4, <2>1, <2>6, Known DEF ReceiptsHeld, SessionHeld
  <2>13. /\ unit' \in [Units -> {"none", "funded", "settled"}]
         /\ ledger' \in [Units -> Seq({"free", "billed"})]
    BY Known
  <2> QED
    BY <1>1, <2>1, <2>6, <2>9, <2>11, <2>12, <2>13, Becomes DEF Places, Owners
<1> QED
  BY <1>2, <1>3, <1>4

LEMMA AppendFundedGuardedKeeps == RealtimeInv /\ AppendFundedGuarded => RealtimeInv'
<1> SUFFICES ASSUME RealtimeInv, AppendFundedGuarded PROVE RealtimeInv'
  OBVIOUS
<1>1. run.at = "appendGuard" /\ Forward /\ UNCHANGED <<unit, ledger>> /\ ~Unfunded
  BY Known DEF AppendFundedGuarded, SessionHeld, Unfunded
<1> QED
  BY <1>1, ForwardKeeps

LEMMA AppendGuardedKeeps == RealtimeInv /\ AppendGuarded => RealtimeInv'
<1> SUFFICES ASSUME RealtimeInv, AppendGuarded PROVE RealtimeInv'
  OBVIOUS
<1>1. run.at = "append" /\ UNCHANGED <<unit, ledger>>
  BY DEF AppendGuarded
<1>2. CASE ~rt.closed /\ Unfunded
  <2>1. PICK u \in Units : Fresh(rt, u) /\ run' = Await("fundInput", u) /\ UNCHANGED <<rt, egress>>
    BY <1>2 DEF AppendGuarded
  <2>2. unit[u] = "none" /\ u # rt.active /\ rt.inputBuffer = NoUnit
    BY <1>2, <2>1 DEF Fresh, Unused, Unfunded
  <2>3. NoneWaits(rt) /\ SessionHeld(rt, "fundInput")
    BY <1>1, Known DEF SessionHeld
  <2>4. ReceiptsHeld(rt, "fundInput", u, unit, egress)
    BY <1>1, <2>2, Known DEF ReceiptsHeld
  <2> QED
    BY <1>1, <2>1, <2>3, <2>4, Known, OnlySession DEF Places, Owners
<1>3. CASE ~(~rt.closed /\ Unfunded)
  BY <1>1, <1>3, ForwardKeeps DEF AppendGuarded
<1> QED
  BY <1>2, <1>3

LEMMA CreateGuardedKeeps == RealtimeInv /\ CreateGuarded => RealtimeInv'
<1> SUFFICES ASSUME RealtimeInv, CreateGuarded PROVE RealtimeInv'
  OBVIOUS
<1>1. run.at = "createGuard" /\ run' = Await("idle", NoUnit) /\ UNCHANGED <<unit, ledger>>
  BY Rests DEF CreateGuarded
<1>2. CASE rt.closed
  <2>1. rt' = rt /\ UNCHANGED <<unit, ledger, egress>>
    BY <1>1, <1>2 DEF CreateGuarded
  <2> QED
    BY <1>1, <2>1, Rests, Known, Minor
<1>3. CASE ~rt.closed
  <2> DEFINE x == [rt EXCEPT !.sent = TRUE, !.commitReady = FALSE]
  <2>1. rt' = x /\ egress' = egress \cup {rt.active}
    BY <1>3 DEF CreateGuarded
  <2>2. /\ x \in Sessions /\ x.closed = rt.closed /\ x.active = rt.active /\ x.sent = TRUE
        /\ x.inputBuffer = rt.inputBuffer /\ x.inputSent = rt.inputSent
        /\ x.inputUnits = rt.inputUnits /\ x.buffer = rt.buffer /\ x.end = rt.end
        /\ x.autoPending = rt.autoPending /\ x.policy = rt.policy
    BY Known DEF Sessions
  <2> HIDE DEF x
  <2>3. rt.active \in Units /\ unit[rt.active] = "funded" /\ rt.active # rt.inputBuffer
    <3>1. rt.active # NoUnit
      BY <1>1, Known, RealtimeAssumption DEF ReceiptsHeld
    <3> QED
      BY <1>1, <3>1, Known DEF ReceiptsHeld, SessionHeld
  <2>4. NoneWaits(x) /\ SessionHeld(x, "idle")
    BY <1>1, <2>2, Known DEF NoneWaits, SessionHeld
  <2>5. BooksHeld(unit', ledger', egress') /\ egress' \subseteq Units
    BY <1>1, <2>1, <2>3, Known, Ledgers DEF BooksHeld
  <2>6. ReceiptsHeld(x, "idle", NoUnit, unit', egress')
    BY <1>1, <2>1, <2>2, <2>3, Known DEF ReceiptsHeld
  <2>7. /\ unit' \in [Units -> {"none", "funded", "settled"}]
        /\ ledger' \in [Units -> Seq({"free", "billed"})]
    BY <1>1, Known
  <2> QED
    BY <1>1, <2>1, <2>2, <2>4, <2>5, <2>6, <2>7, Becomes DEF Places, Owners
<1> QED
  BY <1>2, <1>3

(* createResponse up to its await, for a unit that was never used.         *)
LEMMA CreatingHeld ==
  ASSUME NEW x \in Sessions, NEW n \in 0..MaxAuto, NEW u \in Units, u # x.inputBuffer,
         NEW units, NEW out, units[u] = "none", u \notin out,
         SessionHeld(x, "idle"), ReceiptsHeld(x, "idle", NoUnit, units, out)
  PROVE  /\ Creating([x EXCEPT !.autoPending = n], u) \in Sessions
         /\ NoneWaits(Creating([x EXCEPT !.autoPending = n], u))
         /\ SessionHeld(Creating([x EXCEPT !.autoPending = n], u), "fund")
         /\ ReceiptsHeld(Creating([x EXCEPT !.autoPending = n], u), "fund", u, units, out)
<1> DEFINE y == Creating([x EXCEPT !.autoPending = n], u)
<1>1. u \in Owners /\ u # NoUnit
  BY RealtimeAssumption DEF Owners
<1>2. /\ y \in Sessions /\ y.closed = x.closed /\ y.active = u /\ y.sent = FALSE
      /\ y.inputBuffer = x.inputBuffer /\ y.inputSent = x.inputSent
      /\ y.inputUnits = x.inputUnits /\ y.buffer = x.buffer /\ y.end = x.end
      /\ y.policy = x.policy
  BY <1>1 DEF Sessions, Creating
<1> HIDE DEF y
<1>3. NoneWaits(y) /\ SessionHeld(y, "fund")
  BY <1>1, <1>2 DEF NoneWaits, SessionHeld
<1>4. ReceiptsHeld(y, "fund", u, units, out)
  BY <1>2 DEF ReceiptsHeld
<1> QED
  BY <1>2, <1>3, <1>4 DEF y

(* automaticResponse: the next one that waits starts with a new unit.      *)
LEMMA AutomaticKeeps ==
  ASSUME NEW x \in Sessions, Automatic(x),
         unit' \in [Units -> {"none", "funded", "settled"}],
         ledger' \in [Units -> Seq({"free", "billed"})], egress' \subseteq Units,
         BooksHeld(unit', ledger', egress'), SessionHeld(x, "idle"),
         ReceiptsHeld(x, "idle", NoUnit, unit', egress'),
         \A u \in Units : unit[u] = "none" /\ u # x.inputBuffer => unit'[u] = "none"
  PROVE  RealtimeInv'
<1>1. CASE x.closed \/ x.active # NoUnit \/ x.autoPending = 0
  <2>1. rt' = x /\ run' = Await("idle", NoUnit)
    BY <1>1, Rests DEF Automatic
  <2>2. NoneWaits(x)
    BY <1>1, Bounds DEF NoneWaits, Sessions
  <2> QED
    BY <2>1, <2>2, Becomes DEF Places, Owners
<1>2. CASE ~(x.closed \/ x.active # NoUnit \/ x.autoPending = 0)
  <2>1. PICK u \in Units : /\ Fresh(x, u)
                           /\ rt' = Creating([x EXCEPT !.autoPending = @ - 1], u)
                           /\ run' = Await("fund", u)
    BY <1>2 DEF Automatic
  <2>2. u # x.inputBuffer /\ unit'[u] = "none" /\ u \notin egress'
    BY <2>1 DEF Fresh, Unused, BooksHeld
  <2>3. PICK n : n = x.autoPending - 1
    OBVIOUS
  <2>4. n \in 0..MaxAuto /\ [x EXCEPT !.autoPending = @ - 1] = [x EXCEPT !.autoPending = n]
    BY <1>2, <2>3, Bounds DEF Sessions
  <2> DEFINE y == Creating([x EXCEPT !.autoPending = n], u)
  <2>5. /\ y \in Sessions /\ NoneWaits(y) /\ SessionHeld(y, "fund")
        /\ ReceiptsHeld(y, "fund", u, unit', egress')
    BY <2>2, <2>4, CreatingHeld
  <2>6. rt' = y
    BY <2>1, <2>4
  <2> HIDE DEF y
  <2> QED
    BY <2>1, <2>5, <2>6, Becomes DEF Places, Owners
<1> QED
  BY <1>1, <1>2

LEMMA CreateResponseKeeps == RealtimeInv /\ CreateResponse => RealtimeInv'
<1> SUFFICES ASSUME RealtimeInv, CreateResponse PROVE RealtimeInv'
  OBVIOUS
<1>1. PICK u \in Units : Fresh(rt, u) /\ rt' = Creating(rt, u) /\ run' = Await("fund", u)
  BY DEF CreateResponse
<1>2. run.at = "idle" /\ UNCHANGED <<unit, ledger, egress>>
  BY DEF CreateResponse, Ready, Open, Idle
<1>3. unit[u] = "none" /\ u # rt.inputBuffer /\ u \notin egress
  BY <1>1, Known DEF Fresh, Unused, BooksHeld
<1>4. rt.autoPending \in 0..MaxAuto /\ rt = [rt EXCEPT !.autoPending = rt.autoPending]
  BY Known DEF Sessions
<1>5. SessionHeld(rt, "idle") /\ ReceiptsHeld(rt, "idle", NoUnit, unit, egress)
  BY <1>2, Known DEF ReceiptsHeld
<1> DEFINE y == Creating([rt EXCEPT !.autoPending = rt.autoPending], u)
<1>6. /\ y \in Sessions /\ NoneWaits(y) /\ SessionHeld(y, "fund")
      /\ ReceiptsHeld(y, "fund", u, unit, egress)
  BY <1>3, <1>4, <1>5, Known, CreatingHeld
<1>7. rt' = y
  BY <1>1, <1>4
<1> HIDE DEF y
<1> QED
  BY <1>1, <1>2, <1>6, <1>7, OnlySession DEF Places, Owners

LEMMA EndReturnsKeeps == RealtimeInv /\ EndReturns => RealtimeInv'
<1> SUFFICES ASSUME RealtimeInv, EndReturns PROVE RealtimeInv'
  OBVIOUS
<1> DEFINE x == [rt EXCEPT !.active = NoUnit, !.funded = FALSE, !.sent = FALSE,
                           !.response = FALSE, !.settled = FALSE]
<1>1. run.at = "done" /\ SettleReturns(x) /\ UNCHANGED <<unit, ledger, egress>>
  BY DEF EndReturns
<1>2. NoUnit \in Owners
  BY DEF Owners
<1>3. /\ x \in Sessions /\ x.closed = rt.closed /\ x.active = NoUnit
      /\ x.inputBuffer = rt.inputBuffer /\ x.inputSent = rt.inputSent
      /\ x.inputUnits = rt.inputUnits /\ x.buffer = rt.buffer /\ x.end = rt.end
      /\ x.policy = rt.policy
  BY <1>2, Known DEF Sessions
<1> HIDE DEF x
<1>4. CASE Automatic(x)
  <2>1. SessionHeld(x, "idle") /\ ReceiptsHeld(x, "idle", NoUnit, unit', egress')
    BY <1>1, <1>3, Known DEF SessionHeld, ReceiptsHeld
  <2>2. /\ unit' \in [Units -> {"none", "funded", "settled"}]
        /\ ledger' \in [Units -> Seq({"free", "billed"})] /\ egress' \subseteq Units
        /\ BooksHeld(unit', ledger', egress')
    BY <1>1, Known
  <2> QED
    BY <1>1, <1>3, <1>4, <2>1, <2>2, AutomaticKeeps
<1>5. CASE rt' = Shut(rt) /\ run' = Idle
  BY <1>1, <1>5, Known, ShutRests
<1> QED
  BY <1>1, <1>4, <1>5 DEF SettleReturns

(* input_audio_buffer.committed, once the child receipt, if any, is open.  *)
LEMMA CommittedKeeps == RealtimeInv /\ Committed => RealtimeInv'
<1> SUFFICES ASSUME RealtimeInv, Committed PROVE RealtimeInv'
  OBVIOUS
<1> DEFINE explicit == rt.commitPending
           automatic == ~explicit /\ rt.policy.auto
           rest == IF explicit THEN 0 ELSE rt.buffer - rt.end
           owned == {rt.inputBuffer} \ {NoUnit}
           after(child) ==
             [rt EXCEPT !.buffer = rest, !.inputUnits = @ \cup owned, !.inputBuffer = child,
                        !.inputSent = child # NoUnit,
                        !.speech = FALSE, !.end = 0, !.commitPending = FALSE,
                        !.commitReady = TRUE,
                        !.autoPending = IF automatic THEN @ + 1 ELSE @]
           goOn(x) == IF automatic THEN Automatic(x) ELSE rt' = x /\ run' = Idle
<1>1. /\ run.at = "idle" /\ ~rt.closed /\ (automatic => rt.autoPending < MaxAuto)
      /\ UNCHANGED ledger
  BY ZenonT(60) DEF Committed, Open, Idle
<1>2. IF owned # {} /\ rest > 0
      THEN \E u \in Units : /\ Fresh(rt, u)
                            /\ unit' = [unit EXCEPT ![u] = "funded"]
                            /\ egress' = egress \cup {u}
                            /\ goOn(after(u))
      ELSE UNCHANGED <<unit, egress>> /\ goOn(after(NoUnit))
  BY ZenonT(60) DEF Committed
<1>3. rest \in 0..MaxBuffer /\ 0 \in 0..MaxBuffer /\ (rest > 0 => rt.buffer > 0) /\ 0 <= rest
      /\ (rest > 0 <=> rest # 0)
  BY <1>1, Known, Bounds DEF SessionHeld, Sessions
<1>4. PICK n : n = IF automatic THEN rt.autoPending + 1 ELSE rt.autoPending
  OBVIOUS
<1>5. n \in 0..MaxAuto /\ (~automatic => n = rt.autoPending)
  BY <1>1, <1>4, Known, Bounds DEF Sessions
<1>6. owned \subseteq Units
  BY Known DEF Sessions, Owners
<1>7. ASSUME NEW c \in Owners
      PROVE  LET x == after(c)
             IN  /\ x \in Sessions /\ x.closed = rt.closed /\ x.active = rt.active
                 /\ x.sent = rt.sent /\ x.inputBuffer = c /\ (x.inputSent <=> c # NoUnit)
                 /\ x.inputUnits = rt.inputUnits \cup owned /\ x.buffer = rest /\ x.end = 0
                 /\ x.autoPending = n /\ x.policy = rt.policy
  <2> HIDE DEF rest, owned, automatic
  <2>1. PICK b \in BOOLEAN : b <=> c # NoUnit
    OBVIOUS
  <2>2. PICK i : i = rt.inputUnits \cup owned
    OBVIOUS
  <2>3. i \in SUBSET Units
    BY <1>6, <2>2, Known DEF Sessions
  <2>4. after(c) =
          [rt EXCEPT !.buffer = rest, !.inputUnits = i, !.inputBuffer = c, !.inputSent = b,
                     !.speech = FALSE, !.end = 0, !.commitPending = FALSE, !.commitReady = TRUE,
                     !.autoPending = n]
    BY <1>4, <2>1, <2>2, Known DEF Sessions
  <2> DEFINE y == [rt EXCEPT !.buffer = rest, !.inputUnits = i, !.inputBuffer = c,
                             !.inputSent = b, !.speech = FALSE, !.end = 0,
                             !.commitPending = FALSE, !.commitReady = TRUE, !.autoPending = n]
  <2>5. rest \in 0..MaxBuffer /\ 0 \in 0..MaxBuffer /\ n \in 0..MaxAuto /\ rt \in Sessions
    BY <1>3, <1>5, Known
  <2>6. y \in Sessions
    BY <2>3, <2>5, ZenonT(60) DEF Sessions
  <2>7. /\ y.closed = rt.closed /\ y.active = rt.active /\ y.sent = rt.sent
        /\ y.inputBuffer = c /\ y.inputSent = b /\ y.inputUnits = i /\ y.buffer = rest
        /\ y.end = 0 /\ y.autoPending = n /\ y.policy = rt.policy
    BY <2>5 DEF Sessions
  <2> HIDE DEF after, y
  <2>8. after(c) = y
    BY <2>4 DEF y
  <2> QED
    BY <2>1, <2>2, <2>6, <2>7, <2>8
<1> HIDE DEF after
<1>8. \A v \in rt.inputUnits \cup owned : v \in Units /\ unit[v] # "none"
  BY <1>6, Known DEF ReceiptsHeld, Sessions
<1>9. rt.active # NoUnit /\ ~rt.sent => rt.active \notin egress
  BY Known DEF ReceiptsHeld
<1>10. ASSUME NEW c \in Owners, goOn(after(c)),
              unit' \in [Units -> {"none", "funded", "settled"}],
              ledger' \in [Units -> Seq({"free", "billed"})], egress' \subseteq Units,
              BooksHeld(unit', ledger', egress'), c # NoUnit => c # rt.active,
              rt.policy.asr /\ rest > 0 => c # NoUnit,
              ReceiptsHeld(after(c), "idle", NoUnit, unit', egress'),
              \A u \in Units : unit[u] = "none" /\ u # c => unit'[u] = "none"
       PROVE  RealtimeInv'
  <2> DEFINE x == after(c)
  <2> HIDE DEF rest, owned, x
  <2>1. /\ x \in Sessions /\ x.closed = rt.closed /\ x.active = rt.active
        /\ x.inputBuffer = c /\ x.buffer = rest /\ x.end = 0
        /\ x.autoPending = n /\ x.policy = rt.policy
    BY <1>7 DEF x
  <2>2. SessionHeld(x, "idle")
    BY <1>3, <1>10, <2>1 DEF SessionHeld
  <2>3. CASE automatic
    <3>1. Automatic(x)
      BY <1>10, <2>3 DEF x
    <3>2. ReceiptsHeld(x, "idle", NoUnit, unit', egress')
      BY <1>10 DEF x
    <3> QED
      BY <1>10, <2>1, <2>2, <3>1, <3>2, AutomaticKeeps
  <2>4. CASE ~automatic
    <3>1. rt' = x /\ run' = Await("idle", NoUnit)
      BY <1>10, <2>4, Rests DEF x
    <3>2. NoneWaits(x)
      BY <1>5, <2>1, <2>4, Known DEF NoneWaits
    <3>3. ReceiptsHeld(x, "idle", NoUnit, unit', egress')
      BY <1>10 DEF x
    <3> QED
      BY <1>10, <2>1, <2>2, <3>1, <3>2, <3>3, Becomes DEF Places, Owners
  <2> QED
    BY <2>3, <2>4
<1>11. CASE owned # {} /\ rest > 0
  <2>1. PICK u \in Units : /\ Fresh(rt, u) /\ unit' = [unit EXCEPT ![u] = "funded"]
                           /\ egress' = egress \cup {u} /\ goOn(after(u))
    BY <1>2, <1>11
  <2>2. unit[u] = "none" /\ u # rt.active /\ u # NoUnit /\ u \in Owners /\ u \notin egress
    BY <2>1, Known, RealtimeAssumption DEF Fresh, Unused, BooksHeld, Owners
  <2>3. /\ unit' \in [Units -> {"none", "funded", "settled"}]
        /\ ledger' \in [Units -> Seq({"free", "billed"})] /\ egress' \subseteq Units
        /\ BooksHeld(unit', ledger', egress') /\ unit'[u] = "funded"
        /\ \A v \in Units : v # u => unit'[v] = unit[v]
    BY <1>1, <2>1, <2>2, Opens, Known
  <2> DEFINE x == after(u)
  <2> HIDE DEF x, owned, rest, automatic, goOn
  <2>4. /\ x.active = rt.active /\ x.sent = rt.sent /\ x.inputBuffer = u
        /\ x.inputSent /\ x.inputUnits = rt.inputUnits \cup owned
    BY <1>7, <2>2 DEF x
  <2>5. \A v \in rt.inputUnits \cup owned : v # u /\ unit'[v] # "none"
    BY <1>8, <2>2, <2>3
  <2>6. ReceiptsHeld(x, "idle", NoUnit, unit', egress')
    BY <1>9, <2>1, <2>2, <2>3, <2>4, <2>5 DEF ReceiptsHeld
  <2> QED
    BY <1>10, <2>1, <2>2, <2>3, <2>6 DEF x
<1>12. CASE ~(owned # {} /\ rest > 0)
  <2>1. UNCHANGED <<unit, egress>> /\ goOn(after(NoUnit))
    BY <1>2, <1>12
  <2>2. rt.policy.asr => ~(rest > 0)
    BY <1>1, <1>3, <1>12, Known DEF SessionHeld
  <2> DEFINE x == after(NoUnit)
  <2> HIDE DEF x, owned, rest, automatic, goOn
  <2>3. /\ x.active = rt.active /\ x.sent = rt.sent /\ x.inputBuffer = NoUnit
        /\ x.inputUnits = rt.inputUnits \cup owned /\ NoUnit \in Owners
    BY <1>7 DEF x, Owners
  <2>4. ReceiptsHeld(x, "idle", NoUnit, unit', egress')
    BY <1>8, <1>9, <2>1, <2>3 DEF ReceiptsHeld
  <2>5. /\ unit' \in [Units -> {"none", "funded", "settled"}]
        /\ ledger' \in [Units -> Seq({"free", "billed"})] /\ egress' \subseteq Units
        /\ BooksHeld(unit', ledger', egress')
    BY <1>1, <2>1, Known
  <2> QED
    BY <1>10, <2>1, <2>2, <2>3, <2>4, <2>5 DEF x
<1> QED
  BY <1>11, <1>12

-----------------------------------------------------------------------------
LEMMA RealtimeStarts == RealtimeInit => RealtimeInv
<1> SUFFICES ASSUME RealtimeInit PROVE RealtimeInv
  OBVIOUS
<1>1. 0 \in 0..MaxBuffer /\ 0 \in 0..MaxAuto /\ NoUnit \in Owners /\ NoPolicy \in Policies
  BY Bounds DEF Owners, NoPolicy, Policies
<1>2. /\ rt \in Sessions /\ ~rt.closed /\ rt.active = NoUnit /\ rt.inputBuffer = NoUnit
      /\ rt.inputUnits = {} /\ rt.buffer = 0 /\ rt.end = 0 /\ rt.autoPending = 0
  BY <1>1 DEF RealtimeInit, Sessions
<1>3. run.at = "idle" /\ run.unit = NoUnit /\ egress = {}
      /\ unit \in [Units -> {"none", "funded", "settled"}]
      /\ ledger \in [Units -> Seq({"free", "billed"})]
  BY Ledgers DEF RealtimeInit, Idle
<1>4. BooksHeld(unit, ledger, egress)
  BY <1>3 DEF RealtimeInit, BooksHeld
<1>5. NoneWaits(rt) /\ SessionHeld(rt, "idle") /\ ReceiptsHeld(rt, "idle", NoUnit, unit, egress)
  BY <1>2 DEF NoneWaits, SessionHeld, ReceiptsHeld
<1> QED
  BY <1>1, <1>2, <1>3, <1>4, <1>5 DEF RealtimeInv, Held, Places

LEMMA RealtimeStays == RealtimeInv /\ [RealtimeNext]_realtimeVars => RealtimeInv'
<1> SUFFICES ASSUME RealtimeInv, [RealtimeNext]_realtimeVars PROVE RealtimeInv'
  OBVIOUS
<1>1. CASE RealtimeStep
  BY <1>1, UpdateGuardedKeeps, ToggleGuardedKeeps, AppendGuardedKeeps, FundInputKeeps,
     AppendFundedGuardedKeeps, GuardFailsKeeps, FundFailsKeeps, FundedKeeps, AbandonKeeps,
     CreateGuardedKeeps, TranscribedReturnsKeeps, ClearedReturnsKeeps, EndReturnsKeeps,
     CleanupKeeps DEF RealtimeStep
<1>2. CASE \/ CloseRealtime \/ Update \/ Updated \/ Toggle \/ AppendAudio \/ CommitAudio
           \/ ClearAudio \/ CreateResponse \/ SpeechStarted \/ SpeechStopped \/ Committed
           \/ Transcribed \/ Cleared \/ ResponseCreated \/ ResponseEnds
  BY <1>2, CloseKeeps, UpdateKeeps, AwaitsKeep, EventsKeep, CreateResponseKeeps, CommittedKeeps,
     TranscribedKeeps, ClearedKeeps, ResponseEndsKeeps
<1>3. CASE UNCHANGED realtimeVars
  BY <1>3 DEF realtimeVars, RealtimeInv
<1> QED
  BY <1>1, <1>2, <1>3 DEF RealtimeNext

(* Whatever closes a session and whenever, its units are settled at most   *)
(* once and as free only when nothing stayed under them, transcribed media *)
(* is in upstream's buffer under an open receipt of its own, and no        *)
(* automatic response is forgotten (worker/realtime-session.ts).           *)
THEOREM RealtimeUnitsAreFunded == RealtimeSpec => []UnitsFunded
<1>1. RealtimeInv => UnitsFunded
  <2> SUFFICES ASSUME RealtimeInv PROVE UnitsFunded
    OBVIOUS
  <2>1. RealtimeTypeOK
    BY Known DEF RealtimeTypeOK, Sessions, Places
  <2>2. UnitsSettledOnce
    <3> SUFFICES ASSUME NEW u \in Units
                 PROVE  Len(ledger[u]) <= 1 /\ (ledger[u] = <<"free">> => u \notin egress)
      BY DEF UnitsSettledOnce
    <3>1. ledger[u] = <<>> \/ ledger[u] = <<"free">> \/ ledger[u] = <<"billed">>
      BY Known DEF BooksHeld
    <3>2. ledger[u] = <<"free">> => u \notin egress
      BY Known DEF BooksHeld
    <3>3. Len(<<>>) = 0 /\ Len(<<"free">>) = 1 /\ Len(<<"billed">>) = 1
      BY Ledgers
    <3>4. Len(ledger[u]) = 0 \/ Len(ledger[u]) = 1
      BY <3>1, <3>3
    <3> QED
      BY <3>2, <3>4, 0 <= 1, 1 <= 1
  <2>3. MediaIsFunded
    <3> SUFFICES ASSUME rt.policy.asr, rt.buffer > 0, ~rt.closed
                 PROVE  /\ rt.inputBuffer # NoUnit /\ unit[rt.inputBuffer] = "funded"
                        /\ rt.inputBuffer \notin rt.inputUnits
      BY DEF MediaIsFunded
    <3>1. run.at = "cleared" => rt.buffer = 0
      BY Known DEF SessionHeld
    <3>2. run.at # "cleared"
      BY <3>1
    <3> QED
      BY <3>2, Known DEF SessionHeld, ReceiptsHeld
  <2>4. NoLostAutomatic
    BY Known DEF NoLostAutomatic, NoneWaits, Open
  <2> QED
    BY <2>1, <2>2, <2>3, <2>4 DEF UnitsFunded
<1> QED
  BY <1>1, RealtimeStarts, RealtimeStays, PTL DEF RealtimeSpec
=============================================================================
