---------------------------- MODULE TokenLedger -----------------------------
(***************************************************************************)
(* What a client may rely on about the daemon's one-time tokens, whichever *)
(* map they are kept in and whichever handlers use them: a token is new    *)
(* when a promise is made under it; a promise is never altered, prolonged  *)
(* or made again; it can be dropped at any time, and is redeemed at most   *)
(* once, which ends it.  DaemonService implements this specification.      *)
(***************************************************************************)
EXTENDS Naturals

VARIABLES
  next,   \* the next unused token
  live,   \* the promises that hold, records with a field token
  spent   \* the tokens that were redeemed

ledger == <<next, live, spent>>

Init == next = 1 /\ live = {} /\ spent = {}

\* A promise is made under a new token; others may be dropped for it.
Promise ==
  /\ next' = next + 1
  /\ \E p \in live' : p.token = next /\ live' \ {p} \subseteq live
  /\ UNCHANGED spent

\* A promise that holds is redeemed, and no promise under its token is left.
Redeem ==
  /\ UNCHANGED next
  /\ \E p \in live :
       /\ spent' = spent \cup {p.token}
       /\ live' \subseteq {q \in live : q.token # p.token}

Drop ==
  /\ UNCHANGED <<next, spent>>
  /\ live' \subseteq live

Next == Drop \/ Promise \/ Redeem

Spec == Init /\ [][Next]_ledger

=============================================================================
