-------------------------- MODULE AllocEngine --------------------------
(***************************************************************************)
(* AllocEngine of src/lib/dhcpsrv for IPv4: which lease a DISCOVER or a    *)
(* REQUEST gets.  The module has no state: allocateLease4 maps a database, *)
(* the subnet's last allocated address and a query to the set of possible  *)
(* outcomes.  No hook libraries are loaded.                                *)
(*                                                                         *)
(* A query is a record [hw, cid, hint, name]; an outcome is a record       *)
(*   addr    the address of the lease, NoAddress when there is none        *)
(*   lease   the lease returned                                            *)
(*   old     old_lease: the lease as it was before, or NoLease             *)
(*   shared  the lease returned is the object in the container             *)
(*   db      the database afterwards                                       *)
(*   last    the last allocated address afterwards                         *)
(***************************************************************************)
EXTENDS MemfileLeaseMgr, Sequences

CONSTANTS Pools,     \* the subnet's pools: a sequence of pairs first, last
          Attempts,  \* attempts_
          Valid      \* the subnet's valid lifetime

ASSUME PoolsAssumption ==
    /\ Pools \in Seq(Addresses \X Addresses) /\ Len(Pools) > 0
    /\ \A i \in DOMAIN Pools : Pools[i][1] <= Pools[i][2]
    /\ Addresses = UNION {Pools[i][1] .. Pools[i][2] : i \in DOMAIN Pools}

ASSUME EngineAssumption == Attempts \in Nat \ {0} /\ Valid \in Nat \ {0}

\* Pool::inRange() of the i-th pool.
InRange(i, a) == Pools[i][1] <= a /\ a <= Pools[i][2]

\* IterativeAllocator::pickAddress(): the next address of the pool the last
\* one is in, else the first address of the next pool, else the first of all.
pickAddress(last) ==
    IF \E i \in DOMAIN Pools : InRange(i, last)
    THEN LET i == CHOOSE j \in DOMAIN Pools :
                    InRange(j, last) /\ \A k \in 1 .. j - 1 : ~InRange(k, last)
         IN  IF InRange(i, last + 1) THEN last + 1
             ELSE IF i < Len(Pools) THEN Pools[i + 1][1] ELSE Pools[1][1]
    ELSE Pools[1][1]

\* An address that the search may hand out.
Available(db, a, now) == ~Present(db.mem, a) \/ Expired(db.mem[a], now)

Nothing(db, last) ==
    [addr |-> NoAddress, lease |-> NoLease, old |-> NoLease, shared |-> FALSE,
     db |-> db, last |-> last]

\* The lease that createLease4, renewLease4 and reuseExpiredLease fill in.
NewLease(query, now) ==
    [hw |-> query.hw, cid |-> query.cid, cltt |-> now, valid |-> Valid,
     name |-> query.name]

\* renewLease4() and reuseExpiredLease(): only a REQUEST updates the database.
OverwriteLease(db, last, a, query, now, fake_allocation) ==
    [addr |-> a, lease |-> NewLease(query, now), old |-> db.mem[a],
     shared |-> FALSE, last |-> last,
     db |-> IF fake_allocation THEN db
            ELSE updateLease4(db, a, NewLease(query, now))]

\* createLease4(): the container holds the object that is returned.
createLease4(db, last, a, query, now, fake_allocation) ==
    {[addr |-> a, lease |-> NewLease(query, now), old |-> NoLease,
      shared |-> inserted /\ ~fake_allocation, last |-> last,
      db |-> IF fake_allocation THEN db
             ELSE addLease(db, a, NewLease(query, now), inserted)]
        : inserted \in InsertOutcomes(db, NewLease(query, now))}

\* An address that is free or whose lease has expired.
TakeAddress(db, last, a, query, now, fake_allocation) ==
    IF Present(db.mem, a)
    THEN {OverwriteLease(db, last, a, query, now, fake_allocation)}
    ELSE createLease4(db, last, a, query, now, fake_allocation)

\* The addresses that the allocator picks, one after the other: one sequence.
Candidates(last) ==
    {c \in [1 .. Attempts -> Addresses] :
        \A i \in 1 .. Attempts : c[i] = pickAddress(IF i = 1 THEN last ELSE c[i - 1])}

\* The loop over the candidates of the allocator: the first that is available.
Search(db, last, query, now, fake_allocation) ==
    UNION {LET usable == {i \in 1 .. Attempts : Available(db, c[i], now)}
           IN  IF usable = {} THEN {Nothing(db, c[Attempts])}
               ELSE UNION {TakeAddress(db, c[i], c[i], query, now, fake_allocation)
                             : i \in {j \in usable : \A k \in usable : j <= k}}
              : c \in Candidates(last)}

\* The client has no lease that the indexes show: the hint, then the search.
NewClient(db, last, query, now, fake_allocation) ==
    IF query.hint \in Addresses /\ Available(db, query.hint, now)
    THEN TakeAddress(db, last, query.hint, query, now, fake_allocation)
    ELSE Search(db, last, query, now, fake_allocation)

\* Fault: the client id is not looked up.
allocateLease4_by_card(db, last, query, now, fake_allocation) ==
    UNION {IF a # NoAddress
           THEN {OverwriteLease(db, last, a, query, now, fake_allocation)}
           ELSE NewClient(db, last, query, now, fake_allocation)
              : a \in getLease4ByHw(db, query.hw)}

\* allocateLease4().
allocateLease4(db, last, query, now, fake_allocation) ==
    UNION {IF a # NoAddress
           THEN {OverwriteLease(db, last, a, query, now, fake_allocation)}
           ELSE IF query.cid = 0
           THEN NewClient(db, last, query, now, fake_allocation)
           ELSE UNION {IF b # NoAddress
                       THEN {OverwriteLease(db, last, b, query, now, fake_allocation)}
                       ELSE NewClient(db, last, query, now, fake_allocation)
                          : b \in getLease4ByCid(db, query.cid)}
              : a \in getLease4ByHw(db, query.hw)}

\* A REQUEST whose row cannot be written to the lease file: the container has
\* not been touched, the exception is caught and no lease is returned.
AllocationFails(db, outcome) == Nothing(db, outcome.last)

=========================================================================
