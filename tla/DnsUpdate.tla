----------------------------- MODULE DnsUpdate -----------------------------
(***************************************************************************)
(* DNS UPDATE messages: how bundy-d2 builds them (src/bin/d2/nc_add.cc,    *)
(* nc_remove.cc) and how a DNS server processes them                       *)
(* (src/lib/python/bundy/ddns/session.py, diff.py).                        *)
(*                                                                         *)
(* A resource record is a pair <<type, rdata>>; the data of a zone at a    *)
(* name is a set of records.  TTLs, classes and the zone section are left  *)
(* out: all the names of a request are in its zone.  The reverse name of   *)
(* an address is written as the address itself.                            *)
(***************************************************************************)
EXTENDS Naturals

CONSTANTS
  Dhcids,        \* the DHCP clients, known by their DHCID
  Fqdns,         \* forward names
  Ips,           \* lease addresses, and so the reverse names
  V4             \* the IPv4 addresses of Ips

ASSUME FamilyAssumption == V4 \subseteq Ips
ASSUME NamesAssumption == Fqdns \cap Ips = {}

Types == {"A", "AAAA", "DHCID", "PTR"}
Owners == Fqdns \cup Ips
Rdata == Dhcids \cup Fqdns \cup Ips
Records == Types \X Rdata
Rcodes == {"NOERROR", "YXDOMAIN", "NXDOMAIN", "YXRRSET", "NXRRSET", "REFUSED"}

(* A NameChangeRequest.  forward and reverse tell which of the two changes *)
(* are asked for.                                                          *)
NameChangeRequests ==
  [change_type : {"CHG_ADD", "CHG_REMOVE"}, dhcid : Dhcids, fqdn : Fqdns,
   ip : Ips, forward : BOOLEAN, reverse : BOOLEAN]

getAddressRRType(ncr) == IF ncr.ip \in V4 THEN "A" ELSE "AAAA"
LeaseAddress(ncr) == <<getAddressRRType(ncr), ncr.ip>>
DhcidRecord(ncr) == <<"DHCID", ncr.dhcid>>
PtrRecord(ncr) == <<"PTR", ncr.fqdn>>

(* The sections of a message about one name: prerequisites (the name is    *)
(* not in use; is in use; has no RRset of a type; has exactly the record   *)
(* given as its RRset) and updates (RRsets deleted, then records deleted,  *)
(* then records added, the order in which every request lists them).       *)
prepNewRequest(name) ==
  [name |-> name, not_in_use |-> FALSE, in_use |-> FALSE, absent |-> {},
   match |-> {}, delete_rrsets |-> {}, delete_rrs |-> {}, add |-> {}]

buildAddFwdAddressRequest(ncr) ==
  [prepNewRequest(ncr.fqdn) EXCEPT
     !.not_in_use = TRUE, !.add = {LeaseAddress(ncr), DhcidRecord(ncr)}]

(* Fault: whoever owns the name. *)
buildReplaceFwdAddressRequest_unowned(ncr) ==
  [prepNewRequest(ncr.fqdn) EXCEPT
     !.in_use = TRUE,
     !.delete_rrsets = {getAddressRRType(ncr)}, !.add = {LeaseAddress(ncr)}]

buildReplaceFwdAddressRequest(ncr) ==
  [prepNewRequest(ncr.fqdn) EXCEPT
     !.in_use = TRUE, !.match = {DhcidRecord(ncr)},
     !.delete_rrsets = {getAddressRRType(ncr)}, !.add = {LeaseAddress(ncr)}]

buildReplaceRevPtrsRequest(ncr) ==
  [prepNewRequest(ncr.ip) EXCEPT
     !.delete_rrsets = {"PTR", "DHCID"},
     !.add = {PtrRecord(ncr), DhcidRecord(ncr)}]

buildRemoveFwdAddressRequest(ncr) ==
  [prepNewRequest(ncr.fqdn) EXCEPT
     !.match = {DhcidRecord(ncr)}, !.delete_rrs = {LeaseAddress(ncr)}]

(* Fault: whatever other addresses the name has. *)
buildRemoveFwdRRsRequest_all(ncr) ==
  [prepNewRequest(ncr.fqdn) EXCEPT
     !.match = {DhcidRecord(ncr)}, !.delete_rrsets = Types]

buildRemoveFwdRRsRequest(ncr) ==
  [prepNewRequest(ncr.fqdn) EXCEPT
     !.match = {DhcidRecord(ncr)}, !.absent = {"A", "AAAA"},
     !.delete_rrsets = Types]

buildRemoveRevPtrsRequest(ncr) ==
  [prepNewRequest(ncr.ip) EXCEPT
     !.match = {PtrRecord(ncr)}, !.delete_rrsets = Types]

(* What find() returns for a type at a name. *)
RRset(data, type) == {rr \in data : rr[1] = type}

(* The prerequisites of message m against the data at its name: the ones   *)
(* without a value first, then the exact matches.                          *)
check_prerequisites(data, m) ==
  IF m.not_in_use /\ data # {} THEN "YXDOMAIN"
  ELSE IF m.in_use /\ data = {} THEN "NXDOMAIN"
  ELSE IF \E type \in m.absent : RRset(data, type) # {} THEN "YXRRSET"
  ELSE IF \E rr \in m.match : RRset(data, rr[1]) # {rr} THEN "NXRRSET"
  ELSE "NOERROR"

(* The data after the updates of m.  session.py (by_session) leaves out an *)
(* added record that was there before the message, even if the message     *)
(* deletes it; a server that follows RFC 2136 does not.                    *)
Deleted(data, m) ==
  {rr \in data : rr[1] \in m.delete_rrsets \/ rr \in m.delete_rrs}
do_update(data, m, by_session) ==
  (data \ Deleted(data, m))
    \cup (IF by_session THEN m.add \ data ELSE m.add)
=============================================================================
