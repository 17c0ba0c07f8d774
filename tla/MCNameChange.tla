---------------------------- MODULE MCNameChange ---------------------------
(* Small instances of NameChange for TLC. *)
EXTENDS NameChange

CONSTANTS c1, c2, host, printer, x1, x2, y1

(* printer was set up by hand. *)
PrinterIsStatic == [n \in Fqdns |-> IF n = printer THEN {<<"A", x2>>} ELSE {}]

Ncr(type, d, n, ip, fwd, rev) ==
  [change_type |-> type, dhcid |-> d, fqdn |-> n, ip |-> ip,
   forward |-> fwd, reverse |-> rev]

AddNcr(d, n, ip, rev) == Ncr("CHG_ADD", d, n, ip, TRUE, rev)
RemoveNcr(d, n, ip, rev) == Ncr("CHG_REMOVE", d, n, ip, TRUE, rev)

Story(to_session, ncrs) == [session |-> to_session, requests |-> ncrs]

(* A name changes hands while both clients are busy; a client has an       *)
(* address of each family, and gives up one; a client renews a lease, then *)
(* wants the name of the printer; requests without a forward change or     *)
(* without a domain.                                                       *)
Stories ==
  {Story(FALSE, <<AddNcr(c1, host, x1, FALSE), RemoveNcr(c1, host, x1, TRUE),
                  AddNcr(c2, host, x2, FALSE)>>),
   Story(TRUE, <<AddNcr(c1, host, x1, FALSE), AddNcr(c1, host, y1, FALSE),
                 RemoveNcr(c1, host, x1, FALSE)>>),
   Story(FALSE, <<AddNcr(c1, host, x1, FALSE), AddNcr(c1, host, x1, TRUE),
                  AddNcr(c2, printer, x2, TRUE)>>),
   Story(TRUE, <<Ncr("CHG_ADD", c1, host, x1, FALSE, TRUE), RemoveNcr(c1, host, y1, TRUE),
                 Ncr("CHG_REMOVE", c1, host, x1, FALSE, TRUE)>>)}

(* In these stories no two clients ask for the same reverse name. *)
ASSUME StoriesAssumption == \A ip \in Ips : OfOneClient(ip)
=============================================================================
