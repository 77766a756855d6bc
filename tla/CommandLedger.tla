--------------------------- MODULE CommandLedger ---------------------------
(***************************************************************************)
(* What the command boundary of Quorune promises its clients, with no      *)
(* actor, mailbox, cache or disk in sight.                                 *)
(*                                                                         *)
(* The game is a ledger of commands.  A command identifier of a principal  *)
(* enters the ledger at most once, the ledger only grows, and a client     *)
(* that has been answered once about a request is told the same thing for  *)
(* ever: an accepted request is in the ledger at the position its receipt  *)
(* names, a declined one never enters it.                                  *)
(***************************************************************************)
EXTENDS Naturals, Sequences

CONSTANTS Principals,   \* the authenticated seats
          Envelopes     \* the requests a client may send

VARIABLES ledger,       \* the sequence of commands that count
          acked         \* every receipt a client has been given

LedgerEntry(p, e) == [principal |-> p, envelope |-> e]

Receipt(code, revision) == [code |-> code, revision |-> revision]

Ack(p, e, receipt) == [principal |-> p, envelope |-> e, receipt |-> receipt]

(* The commands of one principal that use the same identifier.             *)
SameCommand(p, e, entry) ==
  /\ entry.principal = p
  /\ entry.envelope.command_id = e.command_id

Init ==
  /\ ledger = <<>>
  /\ acked = {}

(* A request becomes part of the game: its identifier is unused, and no    *)
(* client has been told that the request was declined.                     *)
Commit(p, e) ==
  /\ \A i \in DOMAIN ledger : ~SameCommand(p, e, ledger[i])
  /\ \A a \in acked : ~(a.principal = p /\ a.envelope = e)
  /\ ledger' = Append(ledger, LedgerEntry(p, e))
  /\ UNCHANGED acked

(* A client is told that its request is the revision-th command.           *)
Confirm(p, e, revision) ==
  /\ revision \in DOMAIN ledger
  /\ ledger[revision] = LedgerEntry(p, e)
  /\ acked' = acked \cup {Ack(p, e, Receipt("accepted", revision))}
  /\ UNCHANGED ledger

(* A client is told that its request was declined.                         *)
Decline(p, e, receipt) ==
  /\ receipt.code # "accepted"
  /\ \A i \in DOMAIN ledger : ledger[i] # LedgerEntry(p, e)
  /\ \A a \in acked : (a.principal = p /\ a.envelope = e) => a.receipt = receipt
  /\ acked' = acked \cup {Ack(p, e, receipt)}
  /\ UNCHANGED ledger

Next ==
  \E p \in Principals, e \in Envelopes :
    \/ Commit(p, e)
    \/ \E revision \in DOMAIN ledger : Confirm(p, e, revision)
    \/ \E a \in acked' : Decline(p, e, a.receipt)

Spec == Init /\ [][Next]_<<ledger, acked>>
=============================================================================
