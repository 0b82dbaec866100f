--------------------------- MODULE RoleAuthority ----------------------------
(***************************************************************************)
(* What the coordination package promises about a role, with no clock, no  *)
(* log and no message: a register of the current token, the member that    *)
(* holds it if any, and the ledger of lease records that became visible.   *)
(* The token only grows, and a record enters the ledger only for the       *)
(* member that holds the current token, behind every record already there. *)
(***************************************************************************)
EXTENDS FencingToken

CONSTANTS Member, NoMember

VARIABLES current,  \* the token of the role
          holder,   \* the member that holds it, or NoMember
          ledger    \* visible lease records: [offset, member, token]

vars == <<current, holder, ledger>>

Init == current = NoEpoch /\ holder = NoMember /\ ledger = {}

\* A member takes the role: its token supersedes every earlier one.
Take(m) ==
  /\ Supersedes(current', current)
  /\ holder' = m
  /\ UNCHANGED ledger

\* The token advances and no member gets it (a lost answer, a timeout).
Void ==
  /\ Supersedes(current', current)
  /\ holder' = NoMember
  /\ UNCHANGED ledger

\* The holder stops.
Leave ==
  /\ holder' = NoMember
  /\ UNCHANGED <<current, ledger>>

\* Lease records of the holder become visible behind the ledger.
Publish(m) ==
  /\ holder = m
  /\ UNCHANGED <<current, holder>>
  /\ ledger \subseteq ledger'
  /\ \A r \in ledger' \ ledger :
       /\ r.member = m /\ r.token = current
       /\ \A s \in ledger : s.offset < r.offset

Next == (\E m \in Member : Take(m) \/ Publish(m)) \/ Void \/ Leave

Spec == Init /\ [][Next]_vars
=============================================================================
