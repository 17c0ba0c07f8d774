--------------------------- MODULE NameRegistry ----------------------------
(***************************************************************************)
(* What dynamic updates from DHCP promise about forward names, whatever    *)
(* the network and the order of the requests: a name has at most one       *)
(* owner, only a free name is claimed, only its owner changes what the     *)
(* name stands for or gives it up, and a name of the administrator is      *)
(* never touched.  bundy-d2 has no registry: the owner of a name is the    *)
(* client whose DHCID record the name has.                                 *)
(***************************************************************************)
CONSTANTS
  Clients,    \* who may own a name
  Names,
  Addresses,
  Nobody,     \* the owner of a free name
  Admin       \* the owner of a name that was set up by hand

VARIABLES
  owner,      \* the owner of each name
  addresses   \* the addresses each name stands for

vars == <<owner, addresses>>

TypeOK == /\ owner \in [Names -> Clients \cup {Nobody, Admin}]
          /\ addresses \in [Names -> SUBSET Addresses]

Init == /\ owner \in [Names -> {Nobody, Admin}]
        /\ addresses \in [Names -> SUBSET Addresses]
        /\ \A n \in Names : owner[n] = Nobody => addresses[n] = {}

Claim(c, n, a) ==
  /\ owner[n] = Nobody
  /\ owner' = [owner EXCEPT ![n] = c]
  /\ addresses' = [addresses EXCEPT ![n] = {a}]

(* The owner puts an address in the place of some of the others. *)
Replace(c, n, a, keep) ==
  /\ owner[n] = c
  /\ keep \subseteq addresses[n]
  /\ addresses' = [addresses EXCEPT ![n] = keep \cup {a}]
  /\ UNCHANGED owner

Withdraw(c, n, a) ==
  /\ owner[n] = c
  /\ addresses' = [addresses EXCEPT ![n] = @ \ {a}]
  /\ UNCHANGED owner

Release(c, n) ==
  /\ owner[n] = c
  /\ addresses[n] = {}
  /\ owner' = [owner EXCEPT ![n] = Nobody]
  /\ UNCHANGED addresses

Next == \E c \in Clients, n \in Names :
          \/ \E a \in Addresses : Claim(c, n, a) \/ Withdraw(c, n, a)
          \/ \E a \in Addresses, keep \in SUBSET Addresses :
               Replace(c, n, a, keep)
          \/ Release(c, n)

Spec == Init /\ [][Next]_vars
=============================================================================
