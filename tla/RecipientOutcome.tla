-------------------------- MODULE RecipientOutcome --------------------------
(***************************************************************************)
(* What outbound delivery promises for one recipient of one message, with  *)
(* no workers, leases, tokens or administrators: an attempt is announced   *)
(* before it is made, the next hop takes at most one copy, and an outcome  *)
(* is recorded only when it is what happened.  OutboundDelivery implements *)
(* this specification.                                                     *)
(***************************************************************************)
EXTENDS Integers

CONSTANTS Jobs, Recipients

VARIABLES
    ledger,   \* the recorded state of each recipient
    copies    \* the copies its next hop has taken

vars == <<ledger, copies>>

\* A new recipient, or one whose history predates the ledger.
Init ==
    /\ ledger \in [Jobs -> [Recipients -> {"pending", "accepted", "uncertain"}]]
    /\ copies \in [Jobs -> [Recipients -> 0..1]]
    /\ \A j \in Jobs, r \in Recipients :
          /\ ledger[j][r] = "pending" => copies[j][r] = 0
          /\ ledger[j][r] = "accepted" => copies[j][r] = 1

\* The attempt is announced: from here on its outcome is unknown.
Announce(j, r) ==
    /\ ledger[j][r] \in {"pending", "temporary"}
    /\ ledger' = [ledger EXCEPT ![j][r] = "uncertain"]
    /\ UNCHANGED copies

\* The next hop takes the message.
Take(j, r) ==
    /\ ledger[j][r] = "uncertain"
    /\ copies[j][r] = 0
    /\ copies' = [copies EXCEPT ![j][r] = 1]
    /\ UNCHANGED ledger

\* True outcomes are recorded for some of a message's recipients.
Record(j) ==
    /\ \E after \in [Recipients -> {"pending", "accepted", "temporary", "permanent", "uncertain"}] :
          /\ ledger' = [ledger EXCEPT ![j] = after]
          /\ \A r \in Recipients :
                \/ after[r] = ledger[j][r]
                \/ /\ ledger[j][r] = "uncertain"
                   /\ after[r] \in {"accepted", "temporary", "permanent"}
                   /\ after[r] = "accepted" <=> copies[j][r] = 1
    /\ UNCHANGED copies

Next ==
    \E j \in Jobs :
       \/ \E r \in Recipients : Announce(j, r) \/ Take(j, r)
       \/ Record(j)

Spec == Init /\ [][Next]_vars
=============================================================================
