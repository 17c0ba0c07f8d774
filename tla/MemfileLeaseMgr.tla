------------------------ MODULE MemfileLeaseMgr ------------------------
(***************************************************************************)
(* The lease database of the DHCPv4 server when leases are kept in memory  *)
(* and journalled to a CSV file: Memfile_LeaseMgr and CSVLeaseFile4 of     *)
(* src/lib/dhcpsrv.  The module has no state: a database is a record       *)
(*                                                                         *)
(*   mem        storage4_, the container: a lease for every address        *)
(*   disk       what load4() would build from the lease file as it is      *)
(*   hw_sorted, the ordered indexes #1 (hardware address) and #2 (client   *)
(*   cid_sorted id) of the container still have their elements in order    *)
(*                                                                         *)
(* The file itself is not kept: load4() is a fold of loadLease4() over the *)
(* rows in the order they were appended, so its result can be maintained   *)
(* row by row.  One subnet; addresses, hardware addresses and client ids   *)
(* are numbers in the order in which the container compares them, and      *)
(* client id 0 is "no client id", the empty vector, which sorts first.     *)
(***************************************************************************)
EXTENDS Naturals, FiniteSets

CONSTANT Addresses  \* the addresses a lease can be for: natural numbers

\* IOAddress("0.0.0.0"): no address.  ASSUMEd not to be one of Addresses.
NoAddress == 0

ASSUME AddressesAssumption == Addresses \subseteq Nat \ {NoAddress}

\* An absent lease.  A lease that is present has a positive lifetime, as in
\* the lease file, where a lifetime of zero means that the lease is removed.
NoLease == [hw |-> 0, cid |-> 0, cltt |-> 0, valid |-> 0, name |-> <<>>]

Present(leases, a) == leases[a].valid > 0

Leased(leases) == {a \in Addresses : Present(leases, a)}

\* Fault: the comparison is not strict.
Expired_early(lease, now) == lease.cltt + lease.valid <= now

\* Lease::expired(): the last second of the lifetime still belongs to it.
Expired(lease, now) == lease.cltt + lease.valid < now

(***************************************************************************)
(* The rows of the file and their replay.                                  *)
(***************************************************************************)
\* CSVLeaseFile4::append(): the row holds the expiry time, not cltt.
AppendedRow(lease) ==
    [hw |-> lease.hw, cid |-> lease.cid, valid |-> lease.valid,
     expire |-> lease.cltt + lease.valid, name |-> lease.name]

\* Fault: the expiry time is taken for cltt.
NextLease_late(row) ==
    [hw |-> row.hw, cid |-> row.cid, valid |-> row.valid, cltt |-> row.expire,
     name |-> row.name]

\* CSVLeaseFile4::next() with readCltt().
NextLease(row) ==
    [hw |-> row.hw, cid |-> row.cid, valid |-> row.valid,
     cltt |-> row.expire - row.valid, name |-> row.name]

\* loadLease4(): a row adds, replaces or, with lifetime zero, erases a lease.
loadLease4(leases, a, row) ==
    [leases EXCEPT ![a] = IF row.valid > 0 THEN NextLease(row) ELSE NoLease]

(***************************************************************************)
(* The ordered indexes.  updateLease4() assigns through the iterator       *)
(* instead of calling modify(), so an element whose key changes stays      *)
(* where it was.  A find() in an index that is out of order never returns  *)
(* a wrong element but may miss one, depending on the shape of the tree;   *)
(* an insertion into the unique index #1 may likewise meet, or pass, an    *)
(* element with the same key.                                              *)
(***************************************************************************)
\* Replacing key k by l moves it past an element with key m.
Passes(k, l, m) == (k < m) # (l < m) \/ (m < k) # (m < l)

\* The index stays in order when the lease of a is overwritten.
HwStaysSorted(leases, a, lease) ==
    \A b \in Leased(leases) \ {a} : ~Passes(leases[a].hw, lease.hw, leases[b].hw)

CidStaysSorted(leases, a, lease) ==
    \A b \in Leased(leases) \ {a} : ~Passes(leases[a].cid, lease.cid, leases[b].cid)

\* What a find() of one of the elements in hits may return.
FoundIn(hits, sorted) ==
    IF hits = {} \/ ~sorted THEN hits \cup {NoAddress} ELSE hits

\* getLease4(hwaddr, subnet_id) and getLease4(client_id, subnet_id): the
\* address of the lease found, or NoAddress.
getLease4ByHw(db, hw) ==
    FoundIn({a \in Leased(db.mem) : db.mem[a].hw = hw}, db.hw_sorted)

getLease4ByCid(db, cid) ==
    FoundIn({a \in Leased(db.mem) : db.mem[a].cid = cid}, db.cid_sorted)

\* storage4_.insert() succeeds.  Its result is not looked at.
InsertOutcomes(db, lease) ==
    IF \E a \in Leased(db.mem) : db.mem[a].hw = lease.hw
    THEN IF db.hw_sorted THEN {FALSE} ELSE BOOLEAN
    ELSE {TRUE}

(***************************************************************************)
(* The operations that change the database.  Each appends to the file      *)
(* first and touches the container when that succeeded.                    *)
(***************************************************************************)
\* addLease() for an address that has no lease; it returns true in any case.
\* A row whose insertion is refused is refused again when it is replayed:
\* the replay performs the same operations on the same container.
addLease(db, a, lease, inserted) ==
    IF inserted
    THEN [db EXCEPT !.disk = loadLease4(@, a, AppendedRow(lease)),
                    !.mem[a] = lease]
    ELSE db

\* updateLease4() for an address that has a lease.
updateLease4(db, a, lease) ==
    [mem |-> [db.mem EXCEPT ![a] = lease],
     disk |-> loadLease4(db.disk, a, AppendedRow(lease)),
     hw_sorted |-> db.hw_sorted /\ HwStaysSorted(db.mem, a, lease),
     cid_sorted |-> db.cid_sorted /\ CidStaysSorted(db.mem, a, lease)]

\* deleteLease() for an address that has a lease: the row is a copy of the
\* lease with lifetime zero.  An index with at most one element is in order.
deleteLease(db, a) ==
    LET few == Cardinality(Leased(db.mem)) <= 2
    IN  [mem |-> [db.mem EXCEPT ![a] = NoLease],
         disk |-> loadLease4(db.disk, a, AppendedRow([db.mem[a] EXCEPT !.valid = 0])),
         hw_sorted |-> db.hw_sorted \/ few,
         cid_sorted |-> db.cid_sorted \/ few]

\* load4() of a new process.
load4(db) == [db EXCEPT !.mem = db.disk]

\* An empty lease file.
EmptyDatabase ==
    [mem |-> [a \in Addresses |-> NoLease], disk |-> [a \in Addresses |-> NoLease],
     hw_sorted |-> TRUE, cid_sorted |-> TRUE]

=========================================================================
