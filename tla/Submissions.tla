---------------------------- MODULE Submissions ----------------------------
(***************************************************************************)
(* Pool contribution by a one-time ticket: the route                       *)
(* (worker/pool-submissions.ts), the ticket on the authority object        *)
(* (putSubmissionTicket, claim, complete and release, worker/authority.ts) *)
(* and the credential owner's /put, of which only the committed bundle     *)
(* matters here.                                                           *)
(*                                                                         *)
(* One ticket.  A bundle is known by its canonical digest.  Every call to  *)
(* an object may be carried out and its reply be lost.                     *)
(***************************************************************************)
EXTENDS Integers

CONSTANTS Contributions,   \* requests to /v1/pool-submissions
          Bundles,         \* digests of submitted bundles
          MaxClaims        \* bound: claims numbered

NoBundle == "none"

ASSUME SubmissionsType == NoBundle \notin Bundles /\ MaxClaims \in Nat

VARIABLES ticket,      \* the row
          sub,         \* the requests
          slot,        \* the bundle the credential owner holds
          installed    \* bundles the owner has ever stored for the ticket

ticketVars == <<ticket, sub, slot, installed>>

SubmitInit ==
  /\ ticket = [state |-> "ready", digest |-> NoBundle, claim |-> 0, last |-> 0,
               receipt |-> NoBundle, expired |-> FALSE]
  /\ sub = [c \in Contributions |-> [pc |-> "idle", digest |-> NoBundle, claim |-> 0,
                                     receipt |-> NoBundle]]
  /\ slot = NoBundle /\ installed = {}

SubmitEnds(c, pc) == sub' = [sub EXCEPT ![c].pc = pc]

(***************************************************************************)
(* /submission-tickets/claim.  A ready ticket takes the digest and a new   *)
(* claim; the digest of a claimed one gets that claim again, the digest of *)
(* a consumed one its receipt, any other is denied.  A lost reply ends the *)
(* request, which has no claim to release.                                 *)
(***************************************************************************)
ClaimGranted(c, d, claim) ==
  \/ sub' = [sub EXCEPT ![c] = [@ EXCEPT !.pc = "claimed", !.digest = d, !.claim = claim]]
  \/ SubmitEnds(c, "failed")
MutSameBundle(d) == TRUE
SameBundle(d) == ticket.digest = d
Claim(c, d) ==
  /\ sub[c].pc = "idle"
  /\ \/ /\ ticket.expired /\ ticket.state # "gone"
        /\ SubmitEnds(c, "expired") /\ UNCHANGED ticket
     \/ /\ ticket.state = "gone" /\ SubmitEnds(c, "denied") /\ UNCHANGED ticket
     \/ /\ ~ticket.expired /\ ticket.state = "consumed" /\ UNCHANGED ticket
        /\ IF SameBundle(d)
           THEN sub' = [sub EXCEPT ![c] = [@ EXCEPT !.pc = "recovered", !.digest = d,
                                                    !.receipt = ticket.receipt]]
           ELSE SubmitEnds(c, "denied")
     \/ /\ ~ticket.expired /\ ticket.state = "claimed" /\ UNCHANGED ticket
        /\ IF SameBundle(d) THEN ClaimGranted(c, d, ticket.claim) ELSE SubmitEnds(c, "denied")
     \/ /\ ~ticket.expired /\ ticket.state = "ready" /\ ticket.last < MaxClaims
        /\ ticket' = [ticket EXCEPT !.state = "claimed", !.digest = d,
                                    !.claim = ticket.last + 1, !.last = @ + 1]
        /\ ClaimGranted(c, d, ticket.last + 1)
  /\ UNCHANGED <<slot, installed>>

(* storeSubmission: the bundle is refused, or the owner commits it and the *)
(* reply arrives or not.                                                   *)
Store(c) ==
  /\ sub[c].pc = "claimed"
  /\ \/ SubmitEnds(c, "releasing") /\ UNCHANGED <<slot, installed>>
     \/ /\ slot' = sub[c].digest /\ installed' = installed \cup {sub[c].digest}
        /\ SubmitEnds(c, "stored") \/ SubmitEnds(c, "releasing")
  /\ UNCHANGED ticket

(***************************************************************************)
(* complete: consumes the ticket for the request whose claim is current;   *)
(* release: hands a claim back whose bundle was not stored.  Neither acts  *)
(* for a claim that is not the ticket's.                                   *)
(***************************************************************************)
MutCurrent(c) == ticket.state \in {"claimed", "consumed"}
Current(c) == ticket.state = "claimed" /\ ticket.claim = sub[c].claim
Complete(c) ==
  /\ sub[c].pc = "stored"
  /\ IF Current(c)
     THEN /\ ticket' = [ticket EXCEPT !.state = "consumed", !.receipt = sub[c].digest,
                                      !.claim = 0]
          /\ \/ sub' = [sub EXCEPT ![c].pc = "accepted", ![c].receipt = sub[c].digest]
             \/ SubmitEnds(c, "failed")
     ELSE SubmitEnds(c, "failed") /\ UNCHANGED ticket
  /\ UNCHANGED <<slot, installed>>

Release(c) ==
  /\ sub[c].pc = "releasing"
  /\ SubmitEnds(c, "failed")
  /\ \/ /\ Current(c)
        /\ ticket' = [ticket EXCEPT !.state = "ready", !.digest = NoBundle, !.claim = 0]
     \/ UNCHANGED ticket     \* not its claim, or the call itself was lost
  /\ UNCHANGED <<slot, installed>>

TicketExpires ==
  /\ ~ticket.expired
  /\ ticket' = [ticket EXCEPT !.expired = TRUE]
  /\ UNCHANGED <<sub, slot, installed>>

(* Issuing another ticket removes the expired ones.                        *)
TicketPurged ==
  /\ ticket.expired /\ ticket.state # "gone"
  /\ ticket' = [ticket EXCEPT !.state = "gone", !.digest = NoBundle, !.claim = 0,
                              !.receipt = NoBundle]
  /\ UNCHANGED <<sub, slot, installed>>

SubmitNext ==
  \/ \E c \in Contributions :
       \/ \E d \in Bundles : Claim(c, d)
       \/ Store(c)
       \/ Complete(c)
       \/ Release(c)
  \/ TicketExpires
  \/ TicketPurged

SubmitSpec == SubmitInit /\ [][SubmitNext]_ticketVars

-----------------------------------------------------------------------------

(* The row is ready, claimed for a bundle, consumed with its receipt or    *)
(* removed.                                                                *)
TicketTypeOK ==
  /\ ticket.state \in {"ready", "claimed", "consumed", "gone"}
  /\ ticket.state = "claimed" <=> ticket.claim \in 1..MaxClaims
  /\ ticket.state \in {"ready", "gone"} <=> ticket.digest = NoBundle
  /\ ticket.state = "consumed" <=> ticket.receipt # NoBundle

(* One contribution is accepted: every request that was answered with a    *)
(* receipt, the first or a retry after a lost reply, was answered with the *)
(* same one, for its own bundle, and that bundle was stored.               *)
OneReceipt ==
  TicketTypeOK /\ LET Answered == {c \in Contributions : sub[c].pc \in {"accepted", "recovered"}}
  IN \A c, e \in Answered : /\ sub[c].receipt = sub[e].receipt
                            /\ sub[c].receipt = sub[c].digest
                            /\ sub[c].receipt \in installed

(* The guide's "An interrupted identical retry is safe; a different replay *)
(* ... is rejected" (docs/deploy-cloudflare.md): once the owner stored a   *)
(* bundle for the ticket, no other bundle is stored through it.            *)
DifferentReplayRejected ==
  \A d, e \in installed : d = e

=============================================================================
