--------------------------- MODULE Dhcp4SrvProofs ---------------------------
(***************************************************************************)
(* The safety of the DHCPv4 server, for any addresses, pools, devices,     *)
(* lifetimes and numbers of faults: first what its parts do (the lease     *)
(* database ls, the allocation engine and the sender of name change        *)
(* requests), then the server's inductive invariants.                      *)
(***************************************************************************)
EXTENDS Dhcp4Srv, Integers, TLAPS

(* Sequences, as the provers need to be told about them. *)
LEMMA EmptySeq ==
  ASSUME NEW S
  PROVE  /\ <<>> \in Seq(S) /\ Len(<<>>) = 0
         /\ \A q \in Seq(S) : q # <<>> => Len(q) \in Nat \ {0}
OBVIOUS

(* Leases, queries, databases and outcomes when names are in N *)
LeasesOf(N) == [hw : Nat, cid : Nat, cltt : Nat, valid : {0, Valid}, name : N]
QueriesOf(N) == [hw : Nat, cid : Nat, hint : Addresses \cup {NoAddress}, name : N]
DatabasesOf(N) ==
    [mem : [Addresses -> LeasesOf(N)], disk : [Addresses -> LeasesOf(N)],
     hw_sorted : BOOLEAN, cid_sorted : BOOLEAN]
OutcomesOf(N) ==
    [addr : Addresses \cup {NoAddress}, lease : LeasesOf(N), old : LeasesOf(N),
     shared : BOOLEAN, db : DatabasesOf(N), last : Addresses \cup {NoAddress}]

\* The lease of a is written, to the file and to the container.
Writes(ls, after, a, lease) ==
    /\ after.mem = [ls.mem EXCEPT ![a] = lease]
    /\ after.disk = [ls.disk EXCEPT ![a] = lease]

\* The client of the query may be given a: it has the lease of a, by its
\* hardware address or else by its client id, or it has none and a is free.
HasCard(ls, hw) == \E b \in Addresses : Present(ls.mem, b) /\ ls.mem[b].hw = hw
HasCid(ls, cid) == \E b \in Addresses : Present(ls.mem, b) /\ ls.mem[b].cid = cid

Permitted(ls, a, query, sec) ==
    \/ Present(ls.mem, a) /\ ls.mem[a].hw = query.hw
    \/ /\ ~HasCard(ls, query.hw) /\ query.cid # 0
       /\ Present(ls.mem, a) /\ ls.mem[a].cid = query.cid
    \/ /\ ~HasCard(ls, query.hw) /\ (query.cid # 0 => ~HasCid(ls, query.cid))
       /\ Available(ls, a, sec)

-----------------------------------------------------------------------------
(* A row that is replayed gives the lease it was written for, or none. *)
LEMMA RowReplayed ==
    ASSUME NEW N, NEW lease \in LeasesOf(N), NEW leases, NEW a
    PROVE  loadLease4(leases, a, AppendedRow(lease))
             = [leases EXCEPT ![a] = IF lease.valid > 0 THEN lease ELSE NoLease]
<1>1. (lease.cltt + lease.valid) - lease.valid = lease.cltt
    BY EngineAssumption DEF LeasesOf
<1>2. NextLease(AppendedRow(lease)) = lease
    BY <1>1 DEF NextLease, AppendedRow, LeasesOf
<1> QED
    BY Zenon, <1>2 DEF loadLease4, AppendedRow

LEMMA LeaseWritten ==
    ASSUME NEW N, NEW ls \in DatabasesOf(N), NEW a \in Addresses,
           NEW lease \in LeasesOf(N), lease.valid > 0
    PROVE  /\ updateLease4(ls, a, lease) \in DatabasesOf(N)
           /\ Writes(ls, updateLease4(ls, a, lease), a, lease)
           /\ addLease(ls, a, lease, TRUE) \in DatabasesOf(N)
           /\ Writes(ls, addLease(ls, a, lease, TRUE), a, lease)
           /\ addLease(ls, a, lease, FALSE) = ls
<1> DEFINE u == updateLease4(ls, a, lease)
           i == addLease(ls, a, lease, TRUE)
<1>1. loadLease4(ls.disk, a, AppendedRow(lease)) = [ls.disk EXCEPT ![a] = lease]
    BY Zenon, RowReplayed
<1>2. /\ ls.mem \in [Addresses -> LeasesOf(N)] /\ ls.disk \in [Addresses -> LeasesOf(N)]
      /\ ls.hw_sorted \in BOOLEAN /\ ls.cid_sorted \in BOOLEAN
    BY DEF DatabasesOf
<1>3. /\ [ls.mem EXCEPT ![a] = lease] \in [Addresses -> LeasesOf(N)]
      /\ [ls.disk EXCEPT ![a] = lease] \in [Addresses -> LeasesOf(N)]
    BY <1>2
<1>4. u \in DatabasesOf(N) /\ Writes(ls, u, a, lease)
    <2>1. /\ (ls.hw_sorted /\ HwStaysSorted(ls.mem, a, lease)) \in BOOLEAN
          /\ (ls.cid_sorted /\ CidStaysSorted(ls.mem, a, lease)) \in BOOLEAN
        OBVIOUS
    <2> QED
        BY <1>1, <1>3, <2>1 DEF updateLease4, DatabasesOf, Writes
<1>5. i = [ls EXCEPT !.disk = [ls.disk EXCEPT ![a] = lease],
                     !.mem = [ls.mem EXCEPT ![a] = lease]]
    BY <1>1 DEF addLease, DatabasesOf
<1>6. i \in DatabasesOf(N) /\ Writes(ls, i, a, lease)
    BY Zenon, <1>2, <1>3, <1>5 DEF DatabasesOf, Writes
<1>7. addLease(ls, a, lease, FALSE) = ls
    BY DEF addLease
<1> QED
    BY Zenon, <1>4, <1>6, <1>7

-----------------------------------------------------------------------------
Sorted(ls) == ls.hw_sorted /\ ls.cid_sorted

\* What the engine may return for a query: nothing, or a lease that it has
\* written unless the allocation is fake, and when the indexes are in order
\* the lease is one that the client may be given.
Good(N, ls, o, query, sec, fake) ==
    /\ o \in OutcomesOf(N)
    /\ \/ o.addr = NoAddress /\ o.db = ls /\ ~o.shared
       \/ /\ o.addr \in Addresses /\ o.lease = NewLease(query, sec)
          /\ o.db = ls \/ Writes(ls, o.db, o.addr, o.lease)
          /\ o.shared => Writes(ls, o.db, o.addr, o.lease)
          /\ fake => o.db = ls /\ ~o.shared
          /\ Sorted(ls) => /\ Permitted(ls, o.addr, query, sec)
                           /\ fake \/ Writes(ls, o.db, o.addr, o.lease)

\* A database, a query and a time that the engine is called with.
Called(N, ls, prev, query, sec, fake) ==
    /\ ls \in DatabasesOf(N) /\ prev \in Addresses \cup {NoAddress}
    /\ query \in QueriesOf(N) /\ sec \in Nat /\ fake \in BOOLEAN

LEMMA NewLeaseType ==
    ASSUME NEW N, NEW query \in QueriesOf(N), NEW sec \in Nat
    PROVE  NewLease(query, sec) \in LeasesOf(N) /\ NewLease(query, sec).valid > 0
BY EngineAssumption DEF QueriesOf, NewLease, LeasesOf

LEMMA Overwritten ==
    ASSUME NEW N, NEW ls, NEW prev, NEW query, NEW sec, NEW fake,
           Called(N, ls, prev, query, sec, fake), NEW a \in Addresses,
           Sorted(ls) => Permitted(ls, a, query, sec)
    PROVE  Good(N, ls, OverwriteLease(ls, prev, a, query, sec, fake), query, sec, fake)
<1> DEFINE l == NewLease(query, sec)
           o == OverwriteLease(ls, prev, a, query, sec, fake)
<1>1. l \in LeasesOf(N) /\ l.valid > 0
    BY NewLeaseType DEF Called
<1>2. updateLease4(ls, a, l) \in DatabasesOf(N) /\ Writes(ls, updateLease4(ls, a, l), a, l)
    BY Zenon, <1>1, LeaseWritten DEF Called
<1>3. ls.mem[a] \in LeasesOf(N)
    BY DEF Called, DatabasesOf
<1>4. o = [addr |-> a, lease |-> l, old |-> ls.mem[a], shared |-> FALSE, last |-> prev,
           db |-> IF fake THEN ls ELSE updateLease4(ls, a, l)]
    BY DEF OverwriteLease
<1> HIDE DEF l, o
<1>5. o \in OutcomesOf(N)
    BY <1>1, <1>2, <1>3, <1>4 DEF OutcomesOf, Called
<1>6. Good(N, ls, o, query, sec, fake)
    BY <1>2, <1>4, <1>5 DEF Good, l
<1> QED
    BY <1>6 DEF o

LEMMA Created ==
    ASSUME NEW N, << >> \in N, NEW ls, NEW prev, NEW query, NEW sec, NEW fake,
           Called(N, ls, prev, query, sec, fake), NEW a \in Addresses,
           Sorted(ls) => Permitted(ls, a, query, sec) /\ ~HasCard(ls, query.hw),
           NEW o \in createLease4(ls, prev, a, query, sec, fake)
    PROVE  Good(N, ls, o, query, sec, fake)
<1> DEFINE l == NewLease(query, sec)
<1>1. l \in LeasesOf(N) /\ l.valid > 0 /\ l.hw = query.hw
    BY NewLeaseType DEF Called, NewLease
<1>2. PICK inserted \in InsertOutcomes(ls, l) :
        o = [addr |-> a, lease |-> l, old |-> NoLease,
             shared |-> inserted /\ ~fake, last |-> prev,
             db |-> IF fake THEN ls ELSE addLease(ls, a, l, inserted)]
    BY DEF createLease4
<1>3. inserted \in BOOLEAN /\ (Sorted(ls) => inserted = TRUE)
    BY Zenon, <1>1 DEF InsertOutcomes, HasCard, Leased
<1>4. NoLease \in LeasesOf(N)
    BY DEF NoLease, LeasesOf
<1> HIDE DEF l
<1>5. /\ addLease(ls, a, l, TRUE) \in DatabasesOf(N)
      /\ Writes(ls, addLease(ls, a, l, TRUE), a, l)
      /\ addLease(ls, a, l, FALSE) = ls
    BY Zenon, <1>1, LeaseWritten DEF Called
<1>6. CASE inserted = TRUE
    <2>1. o \in OutcomesOf(N)
        BY Zenon, <1>1, <1>2, <1>4, <1>5, <1>6 DEF OutcomesOf, Called
    <2> QED
        BY Zenon, <1>2, <1>5, <1>6, <2>1 DEF Good, l, Called
<1>7. CASE inserted = FALSE
    <2>1. o \in OutcomesOf(N)
        BY Zenon, <1>1, <1>2, <1>4, <1>5, <1>7 DEF OutcomesOf, Called
    <2> QED
        BY Zenon, <1>2, <1>3, <1>5, <1>7, <2>1 DEF Good, l, Called
<1> QED
    BY Zenon, <1>3, <1>6, <1>7

LEMMA Taken ==
    ASSUME NEW N, << >> \in N, NEW ls, NEW prev, NEW query, NEW sec, NEW fake,
           Called(N, ls, prev, query, sec, fake), NEW a \in Addresses,
           Available(ls, a, sec),
           Sorted(ls) => /\ ~HasCard(ls, query.hw)
                         /\ query.cid # 0 => ~HasCid(ls, query.cid),
           NEW o \in TakeAddress(ls, prev, a, query, sec, fake)
    PROVE  Good(N, ls, o, query, sec, fake)
<1>1. Sorted(ls) => Permitted(ls, a, query, sec) /\ ~HasCard(ls, query.hw)
    BY DEF Permitted
<1>2. CASE Present(ls.mem, a)
    BY <1>1, <1>2, Overwritten DEF TakeAddress
<1>3. CASE ~Present(ls.mem, a)
    BY <1>1, <1>3, Created DEF TakeAddress
<1> QED
    BY <1>2, <1>3

LEMMA Found ==
    ASSUME NEW N, << >> \in N, NEW ls, NEW prev, NEW query, NEW sec, NEW fake,
           Called(N, ls, prev, query, sec, fake),
           Sorted(ls) => /\ ~HasCard(ls, query.hw)
                         /\ query.cid # 0 => ~HasCid(ls, query.cid),
           NEW o \in NewClient(ls, prev, query, sec, fake)
    PROVE  Good(N, ls, o, query, sec, fake)
<1>1. CASE query.hint \in Addresses /\ Available(ls, query.hint, sec)
    BY <1>1, Taken DEF NewClient
<1>2. CASE ~(query.hint \in Addresses /\ Available(ls, query.hint, sec))
    <2>1. o \in Search(ls, prev, query, sec, fake)
        BY <1>2 DEF NewClient
    <2>2. PICK c \in Candidates(prev) :
            LET usable == {i \in 1 .. Attempts : Available(ls, c[i], sec)}
            IN  o \in IF usable = {} THEN {Nothing(ls, c[Attempts])}
                      ELSE UNION {TakeAddress(ls, c[i], c[i], query, sec, fake)
                                    : i \in {j \in usable : \A k \in usable : j <= k}}
        BY <2>1 DEF Search
    <2>3. c \in [1 .. Attempts -> Addresses] /\ c[Attempts] \in Addresses
        BY <2>2, EngineAssumption DEF Candidates
    <2>4. CASE o = Nothing(ls, c[Attempts])
        <3>1. NoLease \in LeasesOf(N)
            BY DEF NoLease, LeasesOf
        <3>2. o \in OutcomesOf(N)
            BY <2>3, <2>4, <3>1 DEF Nothing, OutcomesOf, Called
        <3> QED
            BY <2>4, <3>2 DEF Good, Nothing
    <2>5. ASSUME NEW i \in 1 .. Attempts, Available(ls, c[i], sec),
                 o \in TakeAddress(ls, c[i], c[i], query, sec, fake)
          PROVE  Good(N, ls, o, query, sec, fake)
        <3>1. c[i] \in Addresses /\ Called(N, ls, c[i], query, sec, fake)
            BY <2>3 DEF Called
        <3> QED
            BY <2>5, <3>1, Taken
    <2> QED
        BY <2>2, <2>4, <2>5
<1> QED
    BY <1>1, <1>2

(* The engine's answer to a query *)
LEMMA Allocation ==
    ASSUME NEW N, << >> \in N, NEW ls, NEW prev, NEW query, NEW sec, NEW fake,
           Called(N, ls, prev, query, sec, fake),
           NEW o \in allocateLease4(ls, prev, query, sec, fake)
    PROVE  Good(N, ls, o, query, sec, fake)
<1> DEFINE Over(a) == OverwriteLease(ls, prev, a, query, sec, fake)
           New == NewClient(ls, prev, query, sec, fake)
<1>1. PICK a \in getLease4ByHw(ls, query.hw) :
        o \in IF a # NoAddress THEN {Over(a)}
              ELSE IF query.cid = 0 THEN New
              ELSE UNION {IF b # NoAddress THEN {Over(b)} ELSE New
                            : b \in getLease4ByCid(ls, query.cid)}
    BY DEF allocateLease4
<1>2. \/ a \in Addresses /\ Present(ls.mem, a) /\ ls.mem[a].hw = query.hw
      \/ a = NoAddress /\ (Sorted(ls) => ~HasCard(ls, query.hw))
    BY DEF getLease4ByHw, FoundIn, Leased, HasCard, Sorted
<1>3. NoAddress \notin Addresses
    BY Zenon, AddressesAssumption
<1>4. CASE a # NoAddress
    <2>1. o = Over(a) /\ a \in Addresses /\ Permitted(ls, a, query, sec)
        BY <1>1, <1>2, <1>4 DEF Permitted
    <2> QED
        BY <2>1, Overwritten
<1>5. CASE a = NoAddress /\ query.cid = 0
    BY <1>1, <1>2, <1>3, <1>5, Found
<1>6. CASE a = NoAddress /\ query.cid # 0
    <2>1. PICK b \in getLease4ByCid(ls, query.cid) :
            o \in IF b # NoAddress THEN {Over(b)} ELSE New
        BY <1>1, <1>6
    <2>2. \/ b \in Addresses /\ Present(ls.mem, b) /\ ls.mem[b].cid = query.cid
          \/ b = NoAddress /\ (Sorted(ls) => ~HasCid(ls, query.cid))
        BY <2>1 DEF getLease4ByCid, FoundIn, Leased, HasCid, Sorted
    <2>3. CASE b # NoAddress
        <3>1. /\ o = Over(b) /\ b \in Addresses
              /\ Sorted(ls) => Permitted(ls, b, query, sec)
            BY <1>2, <1>3, <1>6, <2>1, <2>2, <2>3 DEF Permitted
        <3> QED
            BY <3>1, Overwritten
    <2>4. CASE b = NoAddress
        BY <1>2, <1>3, <1>6, <2>1, <2>2, <2>4, Found
    <2> QED
        BY <2>3, <2>4
<1> QED
    BY <1>4, <1>5, <1>6

-----------------------------------------------------------------------------
(* The sender of name change requests *)
Numbers(n) == [i \in 1 .. n |-> i]

Senders == [enabled : BOOLEAN, sending : BOOLEAN, queue : Seq(Nat), busy : BOOLEAN,
            unsent : Nat]

\* The queue holds the requests that are not sent yet, in order.
SenderInv(s) ==
    /\ s \in Senders
    /\ s.queue = Numbers(s.unsent)
    /\ s.unsent <= MaxSendQueue
    /\ s.busy => s.unsent > 0

LEMMA NumbersSeq ==
    ASSUME NEW n \in Nat
    PROVE  /\ Numbers(n) \in Seq(Nat) /\ Len(Numbers(n)) = n
           /\ (Numbers(n) # << >> <=> n > 0)
           /\ Append(Numbers(n), n + 1) = Numbers(n + 1)
           /\ n > 0 => [i \in 1 .. Len(Numbers(n)) - 1 |-> Numbers(n)[i + 1] - 1]
                         = Numbers(n - 1)
<1>1. Numbers(n) \in Seq(Nat) /\ Len(Numbers(n)) = n
    BY DEF Numbers
<1>2. Numbers(n) # << >> <=> n > 0
    BY <1>1, EmptySeq
<1>3. Append(Numbers(n), n + 1) = Numbers(n + 1)
    BY <1>1 DEF Numbers
<1>4. n > 0 => [i \in 1 .. Len(Numbers(n)) - 1 |-> Numbers(n)[i + 1] - 1] = Numbers(n - 1)
    BY <1>1 DEF Numbers
<1> QED
    BY <1>1, <1>2, <1>3, <1>4

\* A field that the invariant does not mention, or busy, changes.
LEMMA FlagsInv ==
    ASSUME NEW s, SenderInv(s), NEW e \in BOOLEAN, NEW g \in BOOLEAN
    PROVE  /\ SenderInv([s EXCEPT !.enabled = e])
           /\ SenderInv([s EXCEPT !.sending = g])
           /\ SenderInv([s EXCEPT !.busy = FALSE])
           /\ SenderInv([s EXCEPT !.enabled = e, !.busy = FALSE])
           /\ SenderInv([s EXCEPT !.sending = g, !.busy = FALSE])
           /\ [s EXCEPT !.enabled = e].busy = s.busy
           /\ [s EXCEPT !.sending = g].busy = s.busy
BY Zenon DEF SenderInv, Senders

WithQueue(s, n, b) == [s EXCEPT !.queue = Numbers(n), !.unsent = n, !.busy = b]

LEMMA QueueChanged ==
    ASSUME NEW s \in Senders, NEW n \in Nat, n <= MaxSendQueue, NEW b \in BOOLEAN,
           b => n > 0
    PROVE  SenderInv(WithQueue(s, n, b)) /\ WithQueue(s, n, b).busy = b
<1> DEFINE t == WithQueue(s, n, b)
<1>1. Numbers(n) \in Seq(Nat)
    BY Zenon, NumbersSeq
<1>2. t \in Senders /\ t.queue = Numbers(n) /\ t.unsent = n /\ t.busy = b
    BY Zenon, <1>1 DEF WithQueue, Senders
<1> HIDE DEF t
<1>3. SenderInv(t)
    BY <1>2 DEF SenderInv
<1> QED
    BY <1>2, <1>3 DEF t

LEMMA SendNextInv ==
    ASSUME NEW s, SenderInv(s)
    PROVE  SenderInv(sendNext(s))
<1>0. s.unsent \in Nat /\ s.queue = Numbers(s.unsent)
    BY DEF SenderInv, Senders
<1>1. s.unsent \in Nat /\ s.queue = Numbers(s.unsent) /\ (s.queue # << >> <=> s.unsent > 0)
    BY Zenon, <1>0, NumbersSeq
<1> QED
    BY Zenon, <1>1 DEF SenderInv, Senders, sendNext

LEMMA CompletedInv ==
    ASSUME NEW s, SenderInv(s), NEW result, result = "SUCCESS" => s.busy
    PROVE  SenderInv(Completed(s, result)) /\ Completed(s, result).busy = FALSE
<1>1. CASE result = "SUCCESS"
    <2>1. /\ s \in Senders /\ s.unsent \in Nat /\ s.unsent > 0
          /\ s.queue = Numbers(s.unsent) /\ s.unsent <= MaxSendQueue
        BY <1>1 DEF SenderInv, Senders
    <2>2. [i \in 1 .. Len(Numbers(s.unsent)) - 1 |-> Numbers(s.unsent)[i + 1] - 1]
            = Numbers(s.unsent - 1)
        BY <2>1, NumbersSeq
    <2>3. Completed(s, result) = WithQueue(s, s.unsent - 1, FALSE)
        BY Zenon, <1>1, <2>1, <2>2 DEF Completed, Senders, WithQueue
    <2>4. s.unsent - 1 \in Nat /\ s.unsent - 1 <= MaxSendQueue
        BY SMTT(30), <2>1, SendQueueAssumption
    <2> QED
        BY ZenonT(30), <2>1, <2>3, <2>4, QueueChanged
<1>2. CASE result # "SUCCESS"
    BY ZenonT(30), <1>2, FlagsInv DEF Completed, SenderInv, Senders
<1> QED
    BY Zenon, <1>1, <1>2

LEMMA StopSenderInv ==
    ASSUME NEW s, SenderInv(s), NEW result
    PROVE  SenderInv(stopSender(s, result))
<1> DEFINE t == [s EXCEPT !.sending = FALSE]
<1>1. SenderInv(t) /\ t.busy = s.busy
    BY Zenon, FlagsInv
<1>2. CASE ~s.sending \/ ~s.busy \/ result = "STOPPED"
    BY SMTT(30), <1>1, <1>2 DEF stopSender
<1>3. CASE ~(~s.sending \/ ~s.busy \/ result = "STOPPED")
    <2>1. SenderInv(Completed(t, result))
        BY Zenon, <1>1, <1>3, CompletedInv
    <2>2. stopSender(s, result)
            = [Completed(t, result) EXCEPT !.enabled = (s.enabled /\ result = "SUCCESS")]
        BY <1>3 DEF stopSender
    <2>3. (s.enabled /\ result = "SUCCESS") \in BOOLEAN
        OBVIOUS
    <2> HIDE DEF t
    <2> QED
        BY Zenon, <2>1, <2>2, <2>3, FlagsInv
<1> QED
    BY <1>2, <1>3

LEMMA SuspendInv ==
    ASSUME NEW s, SenderInv(s), NEW result
    PROVE  SenderInv(suspendUpdates(s, result))
BY Zenon, FlagsInv, StopSenderInv DEF suspendUpdates

LEMMA InvokeInv ==
    ASSUME NEW s, SenderInv(s), s.busy, NEW result
    PROVE  SenderInv(invokeSendHandler(s, result))
BY Zenon, CompletedInv, SendNextInv, SuspendInv DEF invokeSendHandler

LEMMA SendRequestInv ==
    ASSUME NEW s, SenderInv(s), NEW result
    PROVE  SenderInv(sendRequest(s, result))
<1>1. CASE ~s.sending
    BY <1>1 DEF sendRequest
<1>2. CASE s.sending /\ Len(s.queue) >= MaxSendQueue
    BY <1>2, SuspendInv DEF sendRequest
<1>3. CASE s.sending /\ ~(Len(s.queue) >= MaxSendQueue)
    <2> DEFINE t == [s EXCEPT !.queue = Append(@, s.unsent + 1), !.unsent = @ + 1]
    <2>1. /\ s \in Senders /\ s.unsent \in Nat /\ s.queue = Numbers(s.unsent)
          /\ s.busy \in BOOLEAN /\ s.unsent + 1 \in Nat /\ s.unsent + 1 > 0
        BY DEF SenderInv, Senders
    <2>2. Len(s.queue) = s.unsent /\ Append(s.queue, s.unsent + 1) = Numbers(s.unsent + 1)
        BY Zenon, <2>1, NumbersSeq
    <2>3. s.unsent + 1 <= MaxSendQueue
        BY <1>3, <2>1, <2>2, SendQueueAssumption
    <2>4. t = WithQueue(s, s.unsent + 1, s.busy)
        BY Zenon, <2>1, <2>2 DEF Senders, WithQueue
    <2> HIDE DEF t
    <2>5. SenderInv(t)
        BY <2>1, <2>3, <2>4, QueueChanged
    <2>6. sendRequest(s, result) = sendNext(t)
        BY <1>3 DEF sendRequest, t
    <2> QED
        BY <2>5, <2>6, SendNextInv
<1> QED
    BY <1>1, <1>2, <1>3

LEMMA ConfigInv ==
    ASSUME NEW s, SenderInv(s), NEW enable \in BOOLEAN, NEW result
    PROVE  SenderInv(setD2ClientConfig(s, enable, result))
<1> DEFINE old == stopSender(s, result)
<1>1. SenderInv(old)
    BY StopSenderInv
<1>2. setD2ClientConfig(s, enable, result)
        = IF enable THEN [old EXCEPT !.enabled = TRUE, !.busy = FALSE]
          ELSE [old EXCEPT !.enabled = FALSE, !.busy = FALSE, !.queue = << >>, !.unsent = 0]
    BY DEF setD2ClientConfig
<1> HIDE DEF old
<1>3. CASE enable
    BY Zenon, <1>1, <1>2, <1>3, FlagsInv
<1>4. CASE ~enable
    <2>1. << >> = Numbers(0)
        <3>1. 0 \in Nat /\ ~(0 > 0)
            OBVIOUS
        <3> QED
            BY Zenon, <3>1, NumbersSeq
    <2>2. SenderInv([old EXCEPT !.enabled = FALSE])
        BY Zenon, <1>1, FlagsInv
    <2> DEFINE t == [old EXCEPT !.enabled = FALSE]
    <2>3. setD2ClientConfig(s, enable, result)
            = WithQueue(t, 0, FALSE)
        BY Zenon, <1>1, <1>2, <1>4, <2>1 DEF SenderInv, Senders, WithQueue
    <2> HIDE DEF t
    <2>4. t \in Senders /\ 0 <= MaxSendQueue
        BY <2>2, SendQueueAssumption DEF SenderInv, t
    <2> QED
        BY Zenon, <2>3, <2>4, QueueChanged
<1> QED
    BY <1>3, <1>4

LEMMA StartInv ==
    ASSUME NEW s, SenderInv(s), NEW opens
    PROVE  SenderInv(startD2(s, opens))
BY Zenon, FlagsInv, SendNextInv DEF startD2

-----------------------------------------------------------------------------
Holdings == [Devices -> [addr : Addresses \cup {NoAddress}, until : Nat]]
Databases == DatabasesOf(Names)

\* Two leases differ in their names at most.
SameLease(l, m) == l.hw = m.hw /\ l.cid = m.cid /\ l.cltt = m.cltt /\ l.valid = m.valid

(* The parts of the invariant are about leases L, holdings h, hardware     *)
(* addresses w, spare cards sp and a time n.                               *)

\* No two devices have one hardware address, nor one that is still spare.
CardsInv(w, sp) ==
    /\ \A d, e \in Devices : d # e => w[d] # w[e]
    /\ \A d \in Devices : w[d] \notin sp

\* The card of a device leads to leases of that device only.
OwnerInv(L, w, sp) ==
    \A a \in Addresses : Present(L, a) =>
        /\ L[a].hw \notin sp
        /\ \A d \in Devices : L[a].hw = w[d] => L[a].cid = ClientId[d]

\* A client has one lease.
UniqueInv(L) ==
    \A a, b \in Addresses : Present(L, a) /\ Present(L, b) /\ a # b =>
        L[a].hw # L[b].hw /\ (L[a].cid = L[b].cid => L[a].cid = 0)

InUse(h, n, d) == h[d].addr # NoAddress /\ n <= h[d].until

\* The lease of an address that a device uses is the device's.
Backed(L, h, w, d) ==
    /\ h[d].addr \in Addresses /\ Present(L, h[d].addr)
    /\ h[d].until <= L[h[d].addr].cltt + L[h[d].addr].valid
    /\ L[h[d].addr].cid = ClientId[d]
    /\ ClientId[d] = 0 => L[h[d].addr].hw = w[d]

UseInv(L, h, w, n) == \A d \in Devices : InUse(h, n, d) => Backed(L, h, w, d)

\* While the indexes have been in order (t), all of it.
LeaseInv(L, h, w, sp, n, t) ==
    /\ OwnerInv(L, w, sp)
    /\ t => UniqueInv(L) /\ UseInv(L, h, w, n)

\* The file and the container agree.
AgreeInv(D) == \A a \in Addresses : SameLease(D.disk[a], D.mem[a])

\* Nobody uses an address for longer than a lifetime from now.
UntilInv(h, n) == \A d \in Devices : h[d].until <= n + Valid

VarsOK ==
    /\ now \in 0 .. MaxTime /\ db \in Databases
    /\ last \in Addresses \cup {NoAddress}
    /\ hwaddr \in [Devices -> Nat] /\ spares \subseteq Spares /\ held \in Holdings
    /\ trusted \in BOOLEAN
    /\ faults \in 0 .. MaxFaults /\ configs \in 0 .. MaxConfigs

IInv ==
    /\ VarsOK
    /\ SenderInv(sender)
    /\ trusted => Sorted(db)
    /\ AgreeInv(db)
    /\ UntilInv(held, now)
    /\ CardsInv(hwaddr, spares)
    /\ LeaseInv(db.mem, held, hwaddr, spares, now, trusted)

-----------------------------------------------------------------------------
(* Names do not matter. *)
LEMMA SameLeases ==
    ASSUME NEW L, NEW M, \A a \in Addresses : SameLease(M[a], L[a]),
           NEW h, NEW w, NEW sp, NEW n, NEW t, LeaseInv(L, h, w, sp, n, t)
    PROVE  LeaseInv(M, h, w, sp, n, t)
<1>1. \A a \in Addresses : Present(M, a) <=> Present(L, a)
    BY DEF SameLease, Present
<1>2. OwnerInv(M, w, sp)
    BY <1>1 DEF LeaseInv, OwnerInv, SameLease
<1>3. t => UniqueInv(M)
    BY <1>1 DEF LeaseInv, UniqueInv, SameLease
<1>4. t => UseInv(M, h, w, n)
    BY <1>1 DEF LeaseInv, UseInv, Backed, SameLease
<1> QED
    BY <1>2, <1>3, <1>4 DEF LeaseInv

(* A lease is written for a device that is permitted to have it: nobody    *)
(* else uses the address, and the device uses no other.                    *)
(* M holds the leases of D, with that of address a given to device d. *)
Grants(D, M, h, w, sp, n, t, d, a, query) ==
    /\ D \in Databases /\ M \in [Addresses -> LeasesOf(Names)]
    /\ h \in Holdings /\ w \in [Devices -> Nat] /\ n \in Nat /\ t \in BOOLEAN
    /\ d \in Devices /\ a \in Addresses
    /\ query \in QueriesOf(Names) /\ query.hw = w[d] /\ query.cid = ClientId[d]
    /\ LeaseInv(D.mem, h, w, sp, n, t) /\ CardsInv(w, sp) /\ UntilInv(h, n)
    /\ \A b \in Addresses \ {a} : SameLease(M[b], D.mem[b])
    /\ SameLease(M[a], NewLease(query, n))
    /\ t => Permitted(D, a, query, n)

LEMMA LeaseGiven ==
    ASSUME NEW D, NEW M, NEW h, NEW w, NEW sp, NEW n, NEW t, NEW d, NEW a, NEW query,
           Grants(D, M, h, w, sp, n, t, d, a, query)
    PROVE  /\ LeaseInv(M, h, w, sp, n, t)
           /\ t => /\ \A e \in Devices \ {d} : InUse(h, n, e) => h[e].addr # a
                   /\ InUse(h, n, d) => h[d].addr = a
<1> DEFINE L == D.mem
<1> USE DEF Grants
<1>0. /\ L \in [Addresses -> LeasesOf(Names)] /\ Valid \in Nat \ {0}
      /\ ClientId \in [Devices -> Nat]
    BY EngineAssumption, DevicesAssumption DEF Databases, DatabasesOf
<1>1. /\ M[a].hw = w[d] /\ M[a].cid = ClientId[d] /\ M[a].cltt = n /\ M[a].valid = Valid
      /\ Present(M, a)
    BY <1>0 DEF SameLease, NewLease, Present
<1>2. \A b \in Addresses \ {a} : Present(M, b) <=> Present(L, b)
    BY Zenon DEF SameLease, Present
<1>3. \A b \in Addresses : /\ L[b].hw \in Nat /\ L[b].cid \in Nat /\ L[b].cltt \in Nat
                           /\ L[b].valid \in Nat
    BY <1>0 DEF LeasesOf
<1>4. OwnerInv(M, w, sp)
    <2>1. OwnerInv(L, w, sp) /\ CardsInv(w, sp)
        BY Zenon DEF LeaseInv
    <2>2. ASSUME NEW b \in Addresses, Present(M, b)
          PROVE  M[b].hw \notin sp /\ \A e \in Devices : M[b].hw = w[e] => M[b].cid = ClientId[e]
        <3>1. CASE b = a
            BY Zenon, <1>1, <2>1, <3>1 DEF CardsInv
        <3>2. CASE b # a
            <4>1. Present(L, b) /\ M[b].hw = L[b].hw /\ M[b].cid = L[b].cid
                BY Zenon, <1>2, <2>2, <3>2 DEF SameLease
            <4> QED
                BY Zenon, <2>1, <4>1 DEF OwnerInv
        <3> QED
            BY Zenon, <3>1, <3>2
    <2> QED
        BY Zenon, <2>2 DEF OwnerInv
<1>5. ASSUME t PROVE UniqueInv(M)
    <2>0. UniqueInv(L) /\ OwnerInv(L, w, sp)
        BY Zenon, <1>5 DEF LeaseInv
    <2>1. ASSUME NEW b \in Addresses \ {a}, Present(L, b)
          PROVE  L[b].hw # w[d] /\ (L[b].cid = ClientId[d] => ClientId[d] = 0)
        <3>1. b \in Addresses /\ a # b
            BY Zenon
        <3>2. CASE Present(L, a) /\ L[a].hw = w[d]
            <4>1. L[a].cid = ClientId[d]
                BY Zenon, <2>0, <3>2 DEF OwnerInv
            <4>2. L[a].hw # L[b].hw /\ (L[a].cid = L[b].cid => L[a].cid = 0)
                BY Zenon, <2>0, <2>1, <3>1, <3>2 DEF UniqueInv
            <4> QED
                BY Zenon, <3>2, <4>1, <4>2
        <3>3. CASE ~HasCard(D, w[d]) /\ Present(L, a) /\ L[a].cid = ClientId[d]
            <4>1. L[b].hw # w[d]
                BY Zenon, <2>1, <3>1, <3>3 DEF HasCard
            <4>2. L[a].cid = L[b].cid => L[a].cid = 0
                BY Zenon, <2>0, <2>1, <3>1, <3>3 DEF UniqueInv
            <4> QED
                BY Zenon, <3>3, <4>1, <4>2
        <3>4. CASE ~HasCard(D, w[d]) /\ (ClientId[d] # 0 => ~HasCid(D, ClientId[d]))
            BY Zenon, <2>1, <3>1, <3>4 DEF HasCard, HasCid
        <3> QED
            BY Zenon, <1>5, <3>2, <3>3, <3>4 DEF Permitted
    <2>2. ASSUME NEW b \in Addresses, NEW c \in Addresses, Present(M, b), Present(M, c), b # c
          PROVE  M[b].hw # M[c].hw /\ (M[b].cid = M[c].cid => M[b].cid = 0)
        <3>1. \A x \in Addresses \ {a} : Present(M, x) =>
                Present(L, x) /\ M[x].hw = L[x].hw /\ M[x].cid = L[x].cid
            BY Zenon, <1>2 DEF SameLease
        <3>2. CASE b = a
            BY Zenon, <1>1, <2>1, <2>2, <3>1, <3>2
        <3>3. CASE c = a
            BY Zenon, <1>1, <2>1, <2>2, <3>1, <3>3
        <3>4. CASE b # a /\ c # a
            <4>1. /\ Present(L, b) /\ M[b].hw = L[b].hw /\ M[b].cid = L[b].cid
                  /\ Present(L, c) /\ M[c].hw = L[c].hw /\ M[c].cid = L[c].cid
                BY Zenon, <2>2, <3>1, <3>4
            <4>2. L[b].hw # L[c].hw /\ (L[b].cid = L[c].cid => L[b].cid = 0)
                BY Zenon, <2>0, <2>2, <4>1 DEF UniqueInv
            <4> QED
                BY Zenon, <4>1, <4>2
        <3> QED
            BY Zenon, <3>2, <3>3, <3>4
    <2> QED
        BY Zenon, <2>2 DEF UniqueInv
<1>6. ASSUME t, NEW e \in Devices \ {d}, InUse(h, n, e)
      PROVE  h[e].addr # a
    <2>1. Backed(L, h, w, e) /\ h[e].until \in Nat /\ n <= h[e].until
        BY Zenon, <1>6 DEF LeaseInv, UseInv, InUse, Holdings
    <2>2. SUFFICES ASSUME h[e].addr = a PROVE FALSE
        OBVIOUS
    <2>3. /\ Present(L, a) /\ L[a].cid = ClientId[e] /\ (ClientId[e] = 0 => L[a].hw = w[e])
          /\ ~Expired(L[a], n)
        <3>1. /\ Present(L, a) /\ L[a].cid = ClientId[e] /\ (ClientId[e] = 0 => L[a].hw = w[e])
              /\ h[e].until <= L[a].cltt + L[a].valid
            BY Zenon, <2>1, <2>2 DEF Backed
        <3>2. L[a].cltt \in Nat /\ L[a].valid \in Nat /\ n \in Nat
            BY Zenon, <1>3
        <3> HIDE DEF L, Grants
        <3>3. ~Expired(L[a], n)
            BY SMTT(30), <2>1, <3>1, <3>2 DEF Expired
        <3> QED
            BY Zenon, <3>1, <3>3
    <2>4. ClientId[d] = ClientId[e] => ClientId[d] = 0
        BY DevicesAssumption
    <2>5. w[d] # w[e]
        BY DEF CardsInv
    <2>6. ~Available(D, a, n)
        BY Zenon, <2>3 DEF Available
    <2>7. L[a].hw # w[d]
        BY Zenon, <1>5, <1>6, <2>3, <2>4, <2>5 DEF LeaseInv, OwnerInv
    <2> QED
        BY Zenon, <1>6, <2>3, <2>4, <2>6, <2>7 DEF Permitted
<1>7. ASSUME t, InUse(h, n, d)
      PROVE  h[d].addr = a
    <2> DEFINE b == h[d].addr
    <2>1. Backed(L, h, w, d)
        BY Zenon, <1>7 DEF LeaseInv, UseInv
    <2>2. /\ b \in Addresses /\ Present(L, b) /\ L[b].cid = ClientId[d]
          /\ ClientId[d] = 0 => L[b].hw = w[d]
        BY Zenon, <2>1 DEF Backed
    <2>3. CASE Present(L, a) /\ L[a].hw = w[d]
        <3>1. OwnerInv(L, w, sp) /\ UniqueInv(L)
            BY Zenon, <1>7 DEF LeaseInv
        <3>2. L[a].cid = ClientId[d]
            BY Zenon, <2>3, <3>1 DEF OwnerInv
        <3>3. a # b => L[a].hw # L[b].hw /\ (L[a].cid = L[b].cid => L[a].cid = 0)
            BY Zenon, <2>2, <2>3, <3>1 DEF UniqueInv
        <3> QED
            BY Zenon, <2>2, <2>3, <3>2, <3>3
    <2>4. CASE ~HasCard(D, w[d]) /\ ClientId[d] # 0 /\ Present(L, a) /\ L[a].cid = ClientId[d]
        BY Zenon, <1>7, <2>2, <2>4 DEF LeaseInv, UniqueInv
    <2>5. CASE ~HasCard(D, w[d]) /\ (ClientId[d] # 0 => ~HasCid(D, ClientId[d]))
        BY Zenon, <2>2, <2>5 DEF HasCard, HasCid
    <2> QED
        BY Zenon, <1>7, <2>3, <2>4, <2>5 DEF Permitted
<1>8. ASSUME t, NEW e \in Devices, InUse(h, n, e)
      PROVE  Backed(M, h, w, e)
    <2>1. Backed(L, h, w, e)
        BY <1>8 DEF LeaseInv, UseInv
    <2>2. CASE e = d
        <3>1. h[d].addr = a /\ h[d].until <= n + Valid
            BY <1>7, <1>8, <2>2 DEF UntilInv
        <3> QED
            BY Zenon, <1>1, <2>2, <3>1 DEF Backed
    <2>3. CASE e # d
        <3>1. h[e].addr \in Addresses \ {a}
            BY Zenon, <1>6, <1>8, <2>1, <2>3 DEF Backed
        <3> QED
            BY Zenon, <1>2, <2>1, <3>1 DEF Backed, SameLease
    <2> QED
        BY <2>2, <2>3
<1> QED
    BY Zenon, <1>4, <1>5, <1>6, <1>7, <1>8 DEF LeaseInv, UseInv

-----------------------------------------------------------------------------
\* From D to E the lease of a becomes l, up to its name.
Gives(D, E, a, l) ==
    /\ \A b \in Addresses \ {a} : E.mem[b] = D.mem[b] /\ E.disk[b] = D.disk[b]
    /\ SameLease(E.mem[a], l) /\ SameLease(E.disk[a], l)

LEMMA WritesGives ==
    ASSUME NEW D \in Databases, NEW E, NEW a \in Addresses, NEW m, NEW l,
           Writes(D, E, a, m), SameLease(m, l)
    PROVE  Gives(D, E, a, l)
BY DEF Databases, DatabasesOf, Writes, Gives

LEMMA NamedLease ==
    ASSUME NEW l \in LeasesOf(Names), NEW a \in Addresses
    PROVE  /\ [l EXCEPT !.name = generateFqdn(a)] \in LeasesOf(Names)
           /\ SameLease([l EXCEPT !.name = generateFqdn(a)], l)
<1>1. generateFqdn(a) \in Names
    BY DEF generateFqdn, Names
<1> QED
    BY <1>1 DEF LeasesOf, SameLease

(* assignLease(): what the engine and the naming of the lease have done *)
LEMMA Assigned ==
    ASSUME NEW D \in Databases, NEW query \in QueriesOf(Names), NEW n \in Nat,
           NEW fake \in BOOLEAN, NEW o, Good(Names, D, o, query, n, fake), NEW w \in BOOLEAN
    PROVE  /\ NameLease(o, w).addr = o.addr /\ NameLease(o, w).last = o.last
           /\ NameLease(o, w).db \in Databases
           /\ o.addr # NoAddress => NameLease(o, w).lease.valid = Valid
           /\ \/ /\ NameLease(o, w).db = D
                 /\ o.addr = NoAddress \/ fake \/ ~Sorted(D)
              \/ /\ o.addr \in Addresses
                 /\ Gives(D, NameLease(o, w).db, o.addr, NewLease(query, n))
<1> DEFINE r == NameLease(o, w)
           a == o.addr
           l == NewLease(query, n)
<1>0. o \in OutcomesOf(Names) /\ NoAddress \notin Addresses
    BY Zenon, AddressesAssumption DEF Good
<1>1. l \in LeasesOf(Names) /\ l.valid > 0 /\ l.valid = Valid /\ SameLease(l, l)
    BY NewLeaseType DEF NewLease, SameLease
<1>2. CASE o.addr = NoAddress
    BY <1>0, <1>2 DEF NameLease, Good, OutcomesOf, Databases
<1>3. CASE o.addr # NoAddress
    <2>1. /\ a \in Addresses /\ o.lease = l /\ o.db \in Databases
          /\ o.db = D \/ Writes(D, o.db, a, l)
          /\ o.shared => Writes(D, o.db, a, l)
          /\ Sorted(D) => fake \/ Writes(D, o.db, a, l)
        BY <1>0, <1>3 DEF Good, OutcomesOf, Databases
    <2> HIDE DEF l
    <2>2. Writes(D, o.db, a, l) => Gives(D, o.db, a, l)
        BY <1>1, <2>1, WritesGives
    <2>3. CASE r = o
        BY Zenon, <1>1, <1>3, <2>1, <2>2, <2>3 DEF l
    <2>4. CASE r # o
        <3> DEFINE m == [l EXCEPT !.name = generateFqdn(a)]
                   after == IF Present(o.db.mem, a) /\ w THEN updateLease4(o.db, a, m)
                            ELSE IF o.shared THEN [o.db EXCEPT !.mem[a] = m]
                            ELSE o.db
        <3>1. r = [o EXCEPT !.lease = m, !.db = after]
            BY <2>1, <2>4 DEF NameLease
        <3>2. m \in LeasesOf(Names) /\ SameLease(m, l) /\ m.valid > 0 /\ m.valid = Valid
            BY <1>1, <2>1, NamedLease DEF SameLease
        <3> HIDE DEF m
        <3>3. /\ after \in Databases
              /\ \/ after = D /\ (fake \/ ~Sorted(D))
                 \/ Gives(D, after, a, l)
            <4>1. CASE Present(o.db.mem, a) /\ w
                <5>1. /\ updateLease4(o.db, a, m) \in Databases
                      /\ Writes(o.db, updateLease4(o.db, a, m), a, m)
                    BY Zenon, <2>1, <3>2, LeaseWritten DEF Databases
                <5>2. Gives(o.db, updateLease4(o.db, a, m), a, l)
                    BY Zenon, <2>1, <3>2, <5>1, WritesGives
                <5> HIDE DEF l
                <5>3. Gives(D, updateLease4(o.db, a, m), a, l)
                    BY Zenon, <2>1, <2>2, <5>2 DEF Gives
                <5> QED
                    BY <4>1, <5>1, <5>3
            <4>2. CASE ~(Present(o.db.mem, a) /\ w) /\ o.shared
                <5> DEFINE E == [o.db EXCEPT !.mem[a] = m]
                <5>1. /\ E \in Databases /\ E.disk = o.db.disk
                      /\ E.mem = [o.db.mem EXCEPT ![a] = m]
                    BY <2>1, <3>2 DEF Databases, DatabasesOf
                <5>2. Gives(D, o.db, a, l)
                    BY <2>1, <2>2, <4>2
                <5>3. o.db.mem \in [Addresses -> LeasesOf(Names)]
                    BY <2>1 DEF Databases, DatabasesOf
                <5> HIDE DEF E
                <5>4. Gives(D, E, a, l)
                    BY Zenon, <2>1, <3>2, <5>1, <5>2, <5>3 DEF Gives
                <5> QED
                    BY <4>2, <5>1, <5>4 DEF E
            <4>3. CASE ~(Present(o.db.mem, a) /\ w) /\ ~o.shared
                BY <2>1, <2>2, <4>3
            <4> QED
                BY <4>1, <4>2, <4>3
        <3> HIDE DEF after
        <3>4. r.addr = o.addr /\ r.last = o.last /\ r.db = after /\ r.lease = m
            BY <1>0, <3>1 DEF OutcomesOf
        <3> QED
            BY Zenon, <2>1, <3>2, <3>3, <3>4 DEF l
    <2> QED
        BY <2>3, <2>4
<1> QED
    BY Zenon, <1>2, <1>3

\* The same, for the named outcome r.
NamedAs(D, r, o, query, n, fake) ==
    /\ r.addr = o.addr /\ r.last = o.last
    /\ r.db \in Databases
    /\ o.addr # NoAddress => r.lease.valid = Valid
    /\ \/ /\ r.db = D
          /\ o.addr = NoAddress \/ fake \/ ~Sorted(D)
       \/ /\ o.addr \in Addresses
          /\ Gives(D, r.db, o.addr, NewLease(query, n))

LEMMA AssignedAs ==
    ASSUME NEW D \in Databases, NEW query \in QueriesOf(Names), NEW n \in Nat,
           NEW fake \in BOOLEAN, NEW o, Good(Names, D, o, query, n, fake), NEW w \in BOOLEAN
    PROVE  NamedAs(D, NameLease(o, w), o, query, n, fake)
BY SMTT(30), Assigned DEF NamedAs

-----------------------------------------------------------------------------
LEMMA StateFacts ==
    ASSUME IInv
    PROVE  /\ db \in Databases /\ held \in Holdings /\ hwaddr \in [Devices -> Nat]
           /\ now \in Nat /\ trusted \in BOOLEAN
           /\ faults \in 0 .. MaxFaults /\ MaxFaults \in Nat
<1>1. /\ db \in Databases /\ held \in Holdings /\ hwaddr \in [Devices -> Nat]
      /\ now \in 0 .. MaxTime /\ trusted \in BOOLEAN /\ faults \in 0 .. MaxFaults
    BY Zenon DEF IInv, VarsOK
<1>2. MaxTime \in Nat /\ MaxFaults \in Nat
    BY Zenon, BoundsAssumption
<1>3. now \in Nat
    BY <1>1, <1>2
<1> QED
    BY Zenon, <1>1, <1>2, <1>3

LEMMA FaultCounted ==
    ASSUME IInv, NEW k \in Nat, Fault(k)
    PROVE  faults' \in 0 .. MaxFaults
<1>1. faults + k <= MaxFaults /\ faults' = faults + k
    BY Zenon DEF Fault
<1> QED
    BY <1>1, StateFacts

LEMMA QueryType ==
    ASSUME IInv, NEW d \in Devices, NEW hint \in Hints
    PROVE  /\ Query(d, hint) \in QueriesOf(Names)
           /\ Query(d, hint).hw = hwaddr[d] /\ Query(d, hint).cid = ClientId[d]
<1>1. hwaddr[d] \in Nat /\ ClientId[d] \in Nat /\ hint \in Addresses \cup {NoAddress}
    BY DevicesAssumption DEF IInv, VarsOK
<1>2. NoName \in Names /\ <<"device", d>> \in Names
    BY DEF Names
<1> QED
    BY Zenon, <1>1, <1>2 DEF Query, QueriesOf

LEMMA NoLeaseType == NoLease \in LeasesOf(Names) /\ ~(NoLease.valid > 0)
<1>1. 0 \in Nat /\ 0 \in {0, Valid} /\ ~(0 > 0)
    OBVIOUS
<1>2. << >> \in Names
    BY Zenon DEF Names, NoName
<1> QED
    BY Zenon, <1>1, <1>2 DEF NoLease, LeasesOf

LEMMA EngineAnswers ==
    ASSUME IInv, NEW d \in Devices, NEW hint \in Hints, NEW fake \in BOOLEAN,
           NEW o \in allocateLease4(db, last, Query(d, hint), now, fake)
    PROVE  Good(Names, db, o, Query(d, hint), now, fake)
<1>1. Called(Names, db, last, Query(d, hint), now, fake)
    <2>1. /\ db \in Databases /\ last \in Addresses \cup {NoAddress}
          /\ Query(d, hint) \in QueriesOf(Names) /\ now \in 0 .. MaxTime
        BY Zenon, QueryType DEF IInv, VarsOK
    <2>2. now \in Nat
        BY SMTT(30), <2>1, BoundsAssumption
    <2> QED
        BY Zenon, <2>1, <2>2 DEF Called, Databases
<1>2. << >> \in Names
    BY DEF Names, NoName
<1> QED
    BY <1>1, <1>2, Allocation

(* The database after a lease was given to a device *)
LEMMA Given ==
    ASSUME IInv, NEW d \in Devices, NEW hint \in Hints, NEW E \in Databases,
           NEW a \in Addresses, Gives(db, E, a, NewLease(Query(d, hint), now)),
           trusted => Permitted(db, a, Query(d, hint), now)
    PROVE  /\ AgreeInv(E) /\ LeaseInv(E.mem, held, hwaddr, spares, now, trusted)
           /\ trusted => /\ \A e \in Devices \ {d} : Uses(e) => held[e].addr # a
                         /\ Uses(d) => held[d].addr = a
<1>1. AgreeInv(E)
    BY Zenon DEF IInv, AgreeInv, Gives, SameLease
<1>2. \A b \in Addresses \ {a} : SameLease(E.mem[b], db.mem[b])
    BY Zenon DEF Gives, SameLease
<1>3. /\ db \in Databases /\ E.mem \in [Addresses -> LeasesOf(Names)] /\ held \in Holdings
      /\ hwaddr \in [Devices -> Nat] /\ now \in Nat /\ trusted \in BOOLEAN
    BY StateFacts DEF Databases, DatabasesOf
<1>4. /\ LeaseInv(db.mem, held, hwaddr, spares, now, trusted)
      /\ CardsInv(hwaddr, spares) /\ UntilInv(held, now)
    BY Zenon DEF IInv
<1>5. SameLease(E.mem[a], NewLease(Query(d, hint), now))
    BY Zenon DEF Gives
<1>6. /\ Query(d, hint) \in QueriesOf(Names)
      /\ Query(d, hint).hw = hwaddr[d] /\ Query(d, hint).cid = ClientId[d]
    BY Zenon, QueryType
<1>7. /\ LeaseInv(E.mem, held, hwaddr, spares, now, trusted)
      /\ trusted => /\ \A e \in Devices \ {d} : InUse(held, now, e) => held[e].addr # a
                    /\ InUse(held, now, d) => held[d].addr = a
    <2>1. Grants(db, E.mem, held, hwaddr, spares, now, trusted, d, a, Query(d, hint))
        BY Zenon, <1>2, <1>3, <1>4, <1>5, <1>6 DEF Grants
    <2> QED
        BY SMT, <2>1, LeaseGiven
<1> QED
    BY Zenon, <1>1, <1>7 DEF Uses, InUse

LEMMA LessTrusted ==
    ASSUME NEW L, NEW h, NEW w, NEW sp, NEW n, NEW t, NEW u, u => t,
           LeaseInv(L, h, w, sp, n, t)
    PROVE  LeaseInv(L, h, w, sp, n, u)
BY DEF LeaseInv

(* The steps that may write a lease but give no answer *)
LEMMA DatabaseStep ==
    ASSUME IInv, db' \in Databases, AgreeInv(db'),
           LeaseInv(db'.mem, held, hwaddr, spares, now, trusted),
           trusted' = (trusted /\ db'.hw_sorted /\ db'.cid_sorted),
           last' \in Addresses \cup {NoAddress}, SenderInv(sender'),
           faults' \in 0 .. MaxFaults, configs' \in 0 .. MaxConfigs,
           UNCHANGED <<now, hwaddr, spares, held>>
    PROVE  IInv'
<1>1. trusted' \in BOOLEAN /\ (trusted' => trusted) /\ (trusted' => Sorted(db'))
    BY Zenon DEF IInv, VarsOK, Sorted
<1>2. LeaseInv(db'.mem, held, hwaddr, spares, now, trusted')
    BY <1>1, LessTrusted
<1> QED
    BY <1>1, <1>2 DEF IInv, VarsOK

LEMMA DiscoverInv ==
    ASSUME IInv, NEW d \in Devices, NEW hint \in Hints, processDiscover(d, hint)
    PROVE  IInv'
<1>1. PICK written \in BOOLEAN :
        /\ Fault(IF written THEN 0 ELSE 1)
        /\ \E o \in allocateLease4(db, last, Query(d, hint), now, TRUE) :
              db' = NameLease(o, written).db /\ last' = o.last
    BY Zenon DEF processDiscover
<1>2. PICK o \in allocateLease4(db, last, Query(d, hint), now, TRUE) :
        db' = NameLease(o, written).db /\ last' = o.last
    BY Zenon, <1>1
<1>3. Good(Names, db, o, Query(d, hint), now, TRUE)
    BY Zenon, <1>2, EngineAnswers
<1>4. db \in Databases /\ now \in Nat /\ Query(d, hint) \in QueriesOf(Names)
    BY Zenon, QueryType, StateFacts
<1>5. /\ db' \in Databases
      /\ \/ db' = db
         \/ /\ o.addr \in Addresses
            /\ Gives(db, db', o.addr, NewLease(Query(d, hint), now))
    BY ZenonT(30), <1>2, <1>3, <1>4, Assigned
<1>6. trusted => (o.addr \in Addresses => Permitted(db, o.addr, Query(d, hint), now))
    BY Zenon, <1>3, AddressesAssumption DEF IInv, Good
<1>7. AgreeInv(db') /\ LeaseInv(db'.mem, held, hwaddr, spares, now, trusted)
    BY Zenon, <1>5, <1>6, Given DEF IInv
<1>8. last' \in Addresses \cup {NoAddress} /\ faults' \in 0 .. MaxFaults
    BY <1>1, <1>2, <1>3, BoundsAssumption DEF Good, OutcomesOf, Fault, IInv, VarsOK
<1>9. /\ UNCHANGED <<now, sender, hwaddr, spares, held, configs>>
      /\ trusted' = (trusted /\ db'.hw_sorted /\ db'.cid_sorted)
    BY DEF processDiscover, StillTrusted
<1> QED
    BY Zenon, <1>5, <1>7, <1>8, <1>9, DatabaseStep DEF IInv, VarsOK

(* The sender may be given one request, or two. *)
LEMMA RequestsSent ==
    ASSUME NEW s, SenderInv(s), NEW lease, NEW old, NEW result
    PROVE  /\ SenderInv(queueNameChangeRequest(s, lease, result))
           /\ SenderInv(createNameChangeRequests(s, lease, old, result))
<1>1. \A u, l : SenderInv(u) => SenderInv(queueNameChangeRequest(u, l, result))
    BY SMTT(30), SendRequestInv DEF queueNameChangeRequest
<1> QED
    BY <1>1 DEF createNameChangeRequests

(* What processRequest does, with the outcome it is about *)
LEMMA RequestOutcome ==
    ASSUME IInv, NEW d \in Devices, NEW hint \in Hints, processRequest(d, hint)
    PROVE  \E a \in Addresses \cup {NoAddress} :
             /\ db' \in Databases /\ AgreeInv(db')
             /\ LeaseInv(db'.mem, held, hwaddr, spares, now, trusted)
             /\ \/ held' = held
                \/ held' = [held EXCEPT ![d] = IF a = NoAddress THEN NotHeld
                                               ELSE [addr |-> a, until |-> now + Valid]]
             /\ trusted /\ a # NoAddress =>
                  /\ SameLease(db'.mem[a], NewLease(Query(d, hint), now))
                  /\ \A e \in Devices \ {d} : Uses(e) => held[e].addr # a
                  /\ Uses(d) => held[d].addr = a
             /\ last' \in Addresses \cup {NoAddress} /\ faults' \in 0 .. MaxFaults
             /\ SenderInv(sender')
<1> DEFINE q == Query(d, hint)
<1>1. PICK written \in BOOLEAN, renamed \in BOOLEAN :
        /\ Fault((IF written THEN 0 ELSE 1) + (IF renamed THEN 0 ELSE 1))
        /\ \E engine \in Allocated(d, hint, written), result \in SendResults(sender) :
             LET o == NameLease(engine, renamed)
             IN  /\ db' = o.db /\ last' = o.last
                 /\ sender' = IF o.addr = NoAddress THEN sender
                              ELSE createNameChangeRequests(sender, o.lease, o.old, result)
                 /\ Answered(d, o)
    BY DEF processRequest
<1>2. PICK engine \in Allocated(d, hint, written), result \in SendResults(sender) :
             LET o == NameLease(engine, renamed)
             IN  /\ db' = o.db /\ last' = o.last
                 /\ sender' = IF o.addr = NoAddress THEN sender
                              ELSE createNameChangeRequests(sender, o.lease, o.old, result)
                 /\ Answered(d, o)
    BY <1>1
<1>3. db \in Databases /\ now \in Nat /\ q \in QueriesOf(Names)
    BY Zenon, QueryType, StateFacts
<1>4. Good(Names, db, engine, q, now, FALSE)
    <2>1. PICK o \in allocateLease4(db, last, q, now, FALSE) :
            engine = IF written THEN o ELSE AllocationFails(db, o)
        BY Zenon, <1>2 DEF Allocated
    <2>2. Good(Names, db, o, q, now, FALSE)
        BY Zenon, <2>1, EngineAnswers
    <2>3. CASE engine = o
        BY ZenonT(30), <2>2, <2>3
    <2>4. CASE engine = Nothing(db, o.last)
        <3>1. NoLease \in LeasesOf(Names) /\ o.last \in Addresses \cup {NoAddress}
            BY Zenon, NoLeaseType, <2>2 DEF Good, OutcomesOf
        <3> QED
            BY Zenon, <1>3, <2>4, <3>1 DEF Nothing, Good, OutcomesOf, Databases
    <2> QED
        BY Zenon, <2>1, <2>3, <2>4 DEF AllocationFails
<1> DEFINE o == NameLease(engine, renamed)
           a == o.addr
<1>5. /\ a = engine.addr /\ o.last = engine.last /\ db' \in Databases
      /\ a # NoAddress => o.lease.valid = Valid
      /\ \/ db' = db /\ (a = NoAddress \/ ~Sorted(db))
         \/ a \in Addresses /\ Gives(db, db', a, NewLease(q, now))
    <2> HIDE DEF q
    <2>1. /\ o.addr = engine.addr /\ o.last = engine.last /\ o.db \in Databases
          /\ engine.addr # NoAddress => o.lease.valid = Valid
          /\ \/ o.db = db /\ (engine.addr = NoAddress \/ ~Sorted(db))
             \/ /\ engine.addr \in Addresses
                /\ Gives(db, o.db, engine.addr, NewLease(q, now))
        <3> DEFINE fake == FALSE
        <3>1. /\ renamed \in BOOLEAN /\ fake \in BOOLEAN /\ ~fake
              /\ Good(Names, db, engine, q, now, fake)
            BY Zenon, <1>1, <1>4
        <3> HIDE DEF o, fake
        <3>2. /\ NameLease(engine, renamed).addr = engine.addr
              /\ NameLease(engine, renamed).last = engine.last
              /\ NameLease(engine, renamed).db \in Databases
              /\ engine.addr # NoAddress => NameLease(engine, renamed).lease.valid = Valid
              /\ \/ /\ NameLease(engine, renamed).db = db
                    /\ engine.addr = NoAddress \/ fake \/ ~Sorted(db)
                 \/ /\ engine.addr \in Addresses
                    /\ Gives(db, NameLease(engine, renamed).db, engine.addr, NewLease(q, now))
            <4>1. NamedAs(db, NameLease(engine, renamed), engine, q, now, fake)
                BY Zenon, <1>3, <3>1, AssignedAs
            <4> QED
                BY Zenon, <4>1 DEF NamedAs
        <3> QED
            BY Zenon, <3>1, <3>2 DEF o
    <2>2. db' = o.db
        BY Zenon, <1>2
    <2> HIDE DEF o
    <2> QED
        BY Zenon, <2>1, <2>2
<1>6. a \in Addresses \cup {NoAddress} /\ NoAddress \notin Addresses
        /\ last' \in Addresses \cup {NoAddress}
    BY ZenonT(30), <1>2, <1>4, <1>5, AddressesAssumption DEF Good, OutcomesOf
<1>7. trusted /\ a # NoAddress => Permitted(db, a, q, now) /\ Sorted(db)
    BY Zenon, <1>4, <1>5 DEF Good, IInv
<1>8. SenderInv(sender')
    BY SMTT(30), <1>2, RequestsSent DEF IInv
<1>9. faults' \in 0 .. MaxFaults
    <2>1. (IF written THEN 0 ELSE 1) + (IF renamed THEN 0 ELSE 1) \in Nat
        OBVIOUS
    <2> QED
        BY Zenon, <1>1, <2>1, FaultCounted
<1>10. \/ held' = held
       \/ held' = [held EXCEPT ![d] = IF a = NoAddress THEN NotHeld
                                      ELSE [addr |-> a, until |-> now + Valid]]
    <2> HIDE DEF o
    <2>1. \/ held' = [held EXCEPT ![d] = IF a = NoAddress THEN NotHeld
                                      ELSE [addr |-> a, until |-> now + o.lease.valid]]
          \/ held' = held
        BY Zenon, <1>2 DEF Answered, o
    <2>2. a # NoAddress => o.lease.valid = Valid
        BY Zenon, <1>5
    <2>3. CASE a = NoAddress
        BY Zenon, <2>1, <2>3
    <2>4. CASE a # NoAddress
        BY Zenon, <2>1, <2>2, <2>4
    <2> QED
        BY Zenon, <2>3, <2>4
<1> HIDE DEF o
<1>11. CASE db' = db /\ (a = NoAddress \/ ~Sorted(db))
    BY ZenonT(30), <1>5, <1>6, <1>7, <1>8, <1>9, <1>10, <1>11 DEF IInv
<1>12. CASE a \in Addresses /\ Gives(db, db', a, NewLease(q, now))
    <2>1. /\ AgreeInv(db') /\ LeaseInv(db'.mem, held, hwaddr, spares, now, trusted)
          /\ trusted => /\ \A e \in Devices \ {d} : Uses(e) => held[e].addr # a
                        /\ Uses(d) => held[d].addr = a
        BY ZenonT(30), <1>5, <1>6, <1>7, <1>12, Given
    <2>2. SameLease(db'.mem[a], NewLease(q, now))
        BY Zenon, <1>12 DEF Gives
    <2> QED
        BY ZenonT(30), <1>5, <1>6, <1>8, <1>9, <1>10, <2>1, <2>2
<1> QED
    BY ZenonT(30), <1>5, <1>11, <1>12

LEMMA RequestInv ==
    ASSUME IInv, NEW d \in Devices, NEW hint \in Hints, processRequest(d, hint)
    PROVE  IInv'
<1> DEFINE q == Query(d, hint)
<1>1. PICK a \in Addresses \cup {NoAddress} :
             /\ db' \in Databases /\ AgreeInv(db')
             /\ LeaseInv(db'.mem, held, hwaddr, spares, now, trusted)
             /\ \/ held' = held
                \/ held' = [held EXCEPT ![d] = IF a = NoAddress THEN NotHeld
                                               ELSE [addr |-> a, until |-> now + Valid]]
             /\ trusted /\ a # NoAddress =>
                  /\ SameLease(db'.mem[a], NewLease(q, now))
                  /\ \A e \in Devices \ {d} : Uses(e) => held[e].addr # a
                  /\ Uses(d) => held[d].addr = a
             /\ last' \in Addresses \cup {NoAddress} /\ faults' \in 0 .. MaxFaults
             /\ SenderInv(sender')
    BY RequestOutcome
<1>2. /\ UNCHANGED <<now, hwaddr, spares, configs>>
      /\ trusted' = (trusted /\ db'.hw_sorted /\ db'.cid_sorted)
    BY DEF processRequest, StillTrusted
<1>3. CASE held' = held
    BY Zenon, <1>1, <1>2, <1>3, DatabaseStep DEF IInv, VarsOK
<1>4. CASE held' = [held EXCEPT ![d] = IF a = NoAddress THEN NotHeld
                                       ELSE [addr |-> a, until |-> now + Valid]]
    <2>0. now \in Nat /\ Valid \in Nat \ {0} /\ held \in Holdings
        BY BoundsAssumption, EngineAssumption DEF IInv, VarsOK
    <2>1. /\ held' \in Holdings
          /\ \A e \in Devices \ {d} : held'[e] = held[e]
          /\ held'[d] = IF a = NoAddress THEN NotHeld ELSE [addr |-> a, until |-> now + Valid]
        BY <1>4, <2>0 DEF Holdings, NotHeld
    <2>2. UntilInv(held', now)
        BY <2>0, <2>1 DEF IInv, UntilInv, NotHeld, Holdings
    <2>3. ASSUME trusted PROVE UseInv(db'.mem, held', hwaddr, now)
        <3>1. ASSUME NEW e \in Devices, InUse(held', now, e)
              PROVE  Backed(db'.mem, held', hwaddr, e)
            <4>1. CASE e # d
                BY ZenonT(30), <1>1, <2>1, <2>3, <3>1, <4>1
                   DEF LeaseInv, UseInv, InUse, Backed
            <4>2. CASE e = d
                <5>1. a # NoAddress /\ held'[d] = [addr |-> a, until |-> now + Valid]
                    <6>1. NotHeld.addr = NoAddress
                        BY SMTT(30) DEF NotHeld
                    <6>2. held'[d].addr # NoAddress
                        BY Zenon, <3>1, <4>2 DEF InUse
                    <6> QED
                        BY Zenon, <2>1, <6>1, <6>2
                <5>2. SameLease(db'.mem[a], NewLease(q, now)) /\ a \in Addresses
                    BY <1>1, <2>3, <5>1
                <5>3. q.hw = hwaddr[d] /\ q.cid = ClientId[d]
                    BY QueryType
                <5> QED
                    BY SMTT(30), <2>0, <4>2, <5>1, <5>2, <5>3
                       DEF Backed, SameLease, NewLease, Present
            <4> QED
                BY SMTT(30), <4>1, <4>2
        <3> QED
            BY <3>1 DEF UseInv
    <2>4. LeaseInv(db'.mem, held', hwaddr, spares, now, trusted)
        BY <1>1, <2>3 DEF LeaseInv
    <2>5. trusted' \in BOOLEAN /\ (trusted' => trusted) /\ (trusted' => Sorted(db'))
        BY Zenon, <1>2 DEF IInv, VarsOK, Sorted
    <2>6. LeaseInv(db'.mem, held', hwaddr, spares, now, trusted')
        BY <2>4, <2>5, LessTrusted
    <2> QED
        BY Zenon, <1>1, <1>2, <2>1, <2>2, <2>5, <2>6 DEF IInv, VarsOK
<1> QED
    BY <1>1, <1>3, <1>4

(* A new process has the leases that the old one had. *)
LEMMA Reloaded ==
    ASSUME NEW D \in Databases, AgreeInv(D)
    PROVE  /\ load4(D) \in Databases /\ AgreeInv(load4(D))
           /\ \A a \in Addresses : SameLease(load4(D).mem[a], D.mem[a])
           /\ load4(D).hw_sorted = D.hw_sorted /\ load4(D).cid_sorted = D.cid_sorted
BY DEF load4, Databases, DatabasesOf, AgreeInv, SameLease

LEMMA NewSenderInv == SenderInv(NewSender)
<1>1. << >> = Numbers(0) /\ << >> \in Seq(Nat)
    <2>1. 0 \in Nat /\ ~(0 > 0)
        OBVIOUS
    <2> QED
        BY ZenonT(30), <2>1, NumbersSeq, EmptySeq
<1> QED
    BY <1>1, SendQueueAssumption DEF NewSender, SenderInv, Senders

LEMMA RestartInv ==
    ASSUME IInv, Restart
    PROVE  IInv'
<1>1. /\ db' = load4(db) /\ last' = NoAddress /\ sender' = NewSender
      /\ configs' \in 0 .. MaxConfigs
      /\ UNCHANGED <<now, hwaddr, spares, held, trusted, faults>>
    BY BoundsAssumption DEF Restart, Restarted, IInv, VarsOK
<1>2. /\ db' \in Databases /\ AgreeInv(db')
      /\ \A a \in Addresses : SameLease(db'.mem[a], db.mem[a])
      /\ Sorted(db') = Sorted(db)
    BY <1>1, Reloaded DEF IInv, VarsOK, Sorted
<1>3. LeaseInv(db'.mem, held, hwaddr, spares, now, trusted)
    BY SMTT(30), <1>2, SameLeases DEF IInv
<1> QED
    BY Zenon, <1>1, <1>2, <1>3, NewSenderInv DEF IInv, VarsOK

LEMMA KilledInv ==
    ASSUME IInv, NEW d \in Devices, NEW hint \in Hints, KilledDuringRequest(d, hint)
    PROVE  IInv'
<1> DEFINE q == Query(d, hint)
<1>1. PICK o \in Allocated(d, hint, TRUE) : Restarted(o.db)
    BY Zenon DEF KilledDuringRequest
<1>2. o \in allocateLease4(db, last, q, now, FALSE)
    BY Zenon, <1>1 DEF Allocated
<1>3. Good(Names, db, o, q, now, FALSE)
    BY Zenon, <1>2, EngineAnswers
<1>4. /\ o.db \in Databases /\ NoAddress \notin Addresses
      /\ o.db = db \/ (o.addr \in Addresses /\ Writes(db, o.db, o.addr, NewLease(q, now)))
      /\ trusted /\ o.addr # NoAddress => Permitted(db, o.addr, q, now)
    BY Zenon, <1>3, AddressesAssumption DEF Good, OutcomesOf, Databases, IInv
<1>5. AgreeInv(o.db) /\ LeaseInv(o.db.mem, held, hwaddr, spares, now, trusted)
    <2>1. CASE o.db = db
        BY SMTT(30), <2>1 DEF IInv
    <2>2. CASE o.addr \in Addresses /\ Writes(db, o.db, o.addr, NewLease(q, now))
        <3>1. SameLease(NewLease(q, now), NewLease(q, now)) /\ db \in Databases
            BY DEF SameLease, IInv, VarsOK
        <3>2. Gives(db, o.db, o.addr, NewLease(q, now))
            BY <2>2, <3>1, WritesGives
        <3> QED
            BY ZenonT(30), <1>4, <2>2, <3>2, Given
    <2> QED
        BY <1>4, <2>1, <2>2
<1>6. /\ db' = load4(o.db) /\ last' = NoAddress /\ sender' = NewSender
      /\ configs' \in 0 .. MaxConfigs
      /\ trusted' = (trusted /\ db'.hw_sorted /\ db'.cid_sorted)
      /\ UNCHANGED <<now, hwaddr, spares, held, faults>>
    BY SMTT(30), <1>1, BoundsAssumption
       DEF KilledDuringRequest, StillTrusted, Restarted, IInv, VarsOK
<1>7. /\ db' \in Databases /\ AgreeInv(db')
      /\ \A a \in Addresses : SameLease(db'.mem[a], o.db.mem[a])
    BY ZenonT(30), <1>4, <1>5, <1>6, Reloaded
<1>8. LeaseInv(db'.mem, held, hwaddr, spares, now, trusted)
    BY SMTT(30), <1>5, <1>7, SameLeases
<1> QED
    BY Zenon, <1>6, <1>7, <1>8, NewSenderInv, DatabaseStep DEF IInv, VarsOK

(* Two devices in use of one address would be one client. *)
LEMMA Exclusive ==
    ASSUME NEW L, NEW h, NEW w, NEW sp, NEW n, UseInv(L, h, w, n), CardsInv(w, sp),
           NEW d \in Devices, NEW e \in Devices, d # e, InUse(h, n, d), InUse(h, n, e)
    PROVE  h[d].addr # h[e].addr
<1>1. Backed(L, h, w, d) /\ Backed(L, h, w, e)
    BY DEF UseInv
<1>2. (ClientId[d] = ClientId[e] => ClientId[d] = 0) /\ w[d] # w[e]
    BY DevicesAssumption DEF CardsInv
<1> QED
    BY Zenon, <1>1, <1>2 DEF Backed

LEMMA ReleaseInv ==
    ASSUME IInv, NEW d \in Devices, processRelease(d)
    PROVE  IInv'
<1> DEFINE a == held[d].addr
<1>1. /\ Uses(d) /\ held' = [held EXCEPT ![d] = NotHeld]
      /\ UNCHANGED <<now, last, hwaddr, spares, faults, configs>>
    BY Zenon DEF processRelease
<1>2. /\ a \in Addresses /\ held \in Holdings /\ held' \in Holdings
      /\ held'[d] = NotHeld /\ \A e \in Devices \ {d} : held'[e] = held[e]
      /\ now \in Nat /\ Valid \in Nat
    BY <1>1, BoundsAssumption, EngineAssumption DEF IInv, VarsOK, Holdings, Uses, NotHeld
<1>3. UntilInv(held', now) /\ ~InUse(held', now, d)
    <2>1. NotHeld.until = 0 /\ NotHeld.addr = NoAddress /\ 0 <= now + Valid
        BY SMTT(30), <1>2 DEF NotHeld
    <2>2. \A e \in Devices : held[e].until <= now + Valid
        BY ZenonT(30) DEF IInv, UntilInv
    <2> QED
        BY <1>2, <2>1, <2>2 DEF UntilInv, InUse
<1>4. CASE UNCHANGED <<db, sender, trusted>>
    <2>1. trusted => UseInv(db.mem, held', hwaddr, now)
        BY ZenonT(30), <1>2, <1>3 DEF IInv, LeaseInv, UseInv, InUse, Backed
    <2> QED
        BY ZenonT(30), <1>1, <1>2, <1>3, <1>4, <2>1 DEF IInv, VarsOK, LeaseInv
<1>5. CASE /\ Present(db.mem, a) /\ db' = deleteLease(db, a) /\ StillTrusted
           /\ \E result : sender' = IF sender.enabled
                                    THEN queueNameChangeRequest(sender, db.mem[a], result)
                                    ELSE sender
    <2>1. db \in Databases /\ db.mem[a] \in LeasesOf(Names)
        BY <1>2 DEF IInv, VarsOK, Databases, DatabasesOf
    <2> DEFINE l == [db.mem[a] EXCEPT !.valid = 0]
    <2>2. l \in LeasesOf(Names) /\ ~(l.valid > 0)
        BY <2>1 DEF LeasesOf
    <2>3. loadLease4(db.disk, a, AppendedRow(l)) = [db.disk EXCEPT ![a] = NoLease]
        BY ZenonT(30), <2>2, RowReplayed
    <2>4. NoLease \in LeasesOf(Names) /\ ~(NoLease.valid > 0)
        BY Zenon, NoLeaseType
    <2>5. /\ db' \in Databases
          /\ db'.mem = [db.mem EXCEPT ![a] = NoLease]
          /\ db'.disk = [db.disk EXCEPT ![a] = NoLease]
        <3> HIDE DEF l
        <3>1. /\ [db.mem EXCEPT ![a] = NoLease] \in [Addresses -> LeasesOf(Names)]
              /\ [db.disk EXCEPT ![a] = NoLease] \in [Addresses -> LeasesOf(Names)]
            BY <1>2, <2>1, <2>4 DEF Databases, DatabasesOf
        <3>2. \E x, y \in BOOLEAN :
                db' = [mem |-> [db.mem EXCEPT ![a] = NoLease],
                       disk |-> [db.disk EXCEPT ![a] = NoLease],
                       hw_sorted |-> x, cid_sorted |-> y]
            <4> DEFINE few == Cardinality(Leased(db.mem)) <= 2
            <4>1. /\ (db.hw_sorted \/ few) \in BOOLEAN /\ (db.cid_sorted \/ few) \in BOOLEAN
                OBVIOUS
            <4> QED
                BY Zenon, <1>5, <2>3, <4>1 DEF deleteLease, l
        <3> DEFINE M == [db.mem EXCEPT ![a] = NoLease]
                   F == [db.disk EXCEPT ![a] = NoLease]
        <3>3. PICK x, y \in BOOLEAN : db' = [mem |-> M, disk |-> F, hw_sorted |-> x, cid_sorted |-> y]
            BY Zenon, <3>2
        <3> HIDE DEF M, F
        <3>4. db' \in Databases /\ db'.mem = M /\ db'.disk = F
            BY Zenon, <3>1, <3>3 DEF Databases, DatabasesOf, M, F
        <3> QED
            BY Zenon, <3>4 DEF M, F
    <2>6. /\ \A b \in Addresses \ {a} : db'.mem[b] = db.mem[b] /\ db'.disk[b] = db.disk[b]
          /\ db'.mem[a] = NoLease /\ db'.disk[a] = NoLease /\ ~Present(db'.mem, a)
        BY <1>2, <2>1, <2>4, <2>5 DEF Databases, DatabasesOf, Present
    <2> DEFINE L == db.mem
               M == db'.mem
    <2>21. \A b \in Addresses : Present(M, b) => Present(L, b) /\ M[b] = L[b]
        BY Zenon, <2>6 DEF Present
    <2>7. AgreeInv(db')
        BY ZenonT(30), <2>6 DEF AgreeInv, IInv, SameLease
    <2>8. OwnerInv(db'.mem, hwaddr, spares)
        <3>1. OwnerInv(db.mem, hwaddr, spares)
            BY DEF IInv, LeaseInv
        <3> QED
            BY ZenonT(30), <2>21, <3>1 DEF OwnerInv
    <2>9. trusted => UniqueInv(db'.mem)
        <3>1. trusted => UniqueInv(db.mem)
            BY SMTT(30) DEF IInv, LeaseInv
        <3> QED
            BY ZenonT(30), <2>21, <3>1 DEF UniqueInv
    <2>10. ASSUME trusted, NEW e \in Devices, InUse(held', now, e)
           PROVE  Backed(db'.mem, held', hwaddr, e)
        <3>1. e # d /\ held'[e] = held[e] /\ InUse(held, now, e) /\ InUse(held, now, d)
            BY <1>1, <1>2, <1>3, <2>10 DEF InUse, Uses
        <3>2. UseInv(db.mem, held, hwaddr, now) /\ CardsInv(hwaddr, spares)
            BY <2>10 DEF IInv, LeaseInv
        <3>3. held[e].addr # a
            BY Zenon, <3>1, <3>2, Exclusive
        <3>4. Backed(db.mem, held, hwaddr, e)
            BY Zenon, <3>1, <3>2 DEF UseInv
        <3>5. db'.mem[held[e].addr] = db.mem[held[e].addr]
            BY Zenon, <2>6, <3>3, <3>4 DEF Backed
        <3> QED
            BY Zenon, <3>1, <3>4, <3>5 DEF Backed, Present
    <2>11. LeaseInv(db'.mem, held', hwaddr, spares, now, trusted)
        BY <2>8, <2>9, <2>10 DEF LeaseInv, UseInv
    <2>12. trusted' \in BOOLEAN /\ (trusted' => trusted) /\ (trusted' => Sorted(db'))
        BY ZenonT(30), <1>5 DEF StillTrusted, IInv, VarsOK, Sorted
    <2>13. LeaseInv(db'.mem, held', hwaddr, spares, now, trusted')
        BY <2>11, <2>12, LessTrusted
    <2>14. SenderInv(sender')
        BY Zenon, <1>5, RequestsSent DEF IInv
    <2> QED
        BY Zenon, <1>1, <1>2, <1>3, <2>5, <2>7, <2>12, <2>13, <2>14 DEF IInv, VarsOK
<1> QED
    BY ZenonT(30), <1>4, <1>5 DEF processRelease

LEMMA SendCompletesInv ==
    ASSUME IInv, SendCompletes
    PROVE  IInv'
<1>1. PICK result : sender.busy /\ sender' = invokeSendHandler(sender, result)
    BY DEF SendCompletes
<1>2. SenderInv(sender')
    BY <1>1, InvokeInv DEF IInv
<1> QED
    BY <1>2 DEF SendCompletes, IInv, VarsOK

LEMMA ConfiguredInv ==
    ASSUME IInv, Configured
    PROVE  IInv'
<1>1. PICK differs \in BOOLEAN, enable_updates \in BOOLEAN, opens \in BOOLEAN,
           result \in SendResults(sender) :
         sender' = startD2(IF differs THEN setD2ClientConfig(sender, enable_updates, result)
                           ELSE sender, opens)
    BY DEF Configured
<1> DEFINE s == IF differs THEN setD2ClientConfig(sender, enable_updates, result) ELSE sender
<1>2. SenderInv(s)
    BY <1>1, ConfigInv DEF IInv
<1> HIDE DEF s
<1>3. SenderInv(startD2(s, opens))
    BY <1>1, <1>2, StartInv
<1>4. SenderInv(sender')
    BY <1>1, <1>3 DEF s
<1>5. configs' \in 0 .. MaxConfigs
    BY BoundsAssumption DEF Configured, IInv, VarsOK
<1> QED
    BY Zenon, <1>4, <1>5 DEF Configured, IInv, VarsOK

LEMMA CardReplacedInv ==
    ASSUME IInv, NEW d \in Devices, CardReplaced(d)
    PROVE  IInv'
<1>1. PICK hw \in spares : /\ hwaddr' = [hwaddr EXCEPT ![d] = hw]
                           /\ spares' = spares \ {hw}
    BY ZenonT(30) DEF CardReplaced
<1>2. /\ held' = IF ClientId[d] = 0 THEN [held EXCEPT ![d] = NotHeld] ELSE held
      /\ UNCHANGED <<now, db, last, sender, trusted, faults, configs>>
    BY DEF CardReplaced
<1>3. /\ hwaddr \in [Devices -> Nat] /\ spares \subseteq Spares /\ Spares \subseteq Nat
      /\ held \in Holdings /\ NotHeld \in [addr : Addresses \cup {NoAddress}, until : Nat]
    BY DevicesAssumption DEF IInv, VarsOK, NotHeld
<1>4. /\ hwaddr' \in [Devices -> Nat] /\ spares' \subseteq Spares /\ held' \in Holdings
      /\ hwaddr'[d] = hw /\ \A e \in Devices \ {d} : hwaddr'[e] = hwaddr[e] /\ held'[e] = held[e]
      /\ held'[d] = IF ClientId[d] = 0 THEN NotHeld ELSE held[d]
    BY <1>1, <1>2, <1>3 DEF Holdings
<1>5. UntilInv(held', now)
    <2>1. NotHeld.until = 0 /\ 0 <= now + Valid
        BY BoundsAssumption, EngineAssumption DEF IInv, VarsOK, NotHeld
    <2>2. \A e \in Devices : held[e].until <= now + Valid
        BY Zenon DEF IInv, UntilInv
    <2> QED
        BY Zenon, <1>4, <2>1, <2>2 DEF UntilInv
<1>6. CardsInv(hwaddr', spares')
    BY ZenonT(30), <1>1, <1>4 DEF IInv, CardsInv
<1>7. OwnerInv(db.mem, hwaddr', spares')
    BY ZenonT(30), <1>1, <1>4 DEF IInv, LeaseInv, OwnerInv, CardsInv
<1>8. trusted => UseInv(db.mem, held', hwaddr', now)
    <2> SUFFICES ASSUME trusted, NEW e \in Devices, InUse(held', now, e)
                 PROVE  Backed(db.mem, held', hwaddr', e)
        BY DEF UseInv
    <2>1. UseInv(db.mem, held, hwaddr, now)
        BY DEF IInv, LeaseInv
    <2>2. CASE e # d
        BY ZenonT(30), <1>4, <2>1, <2>2 DEF UseInv, InUse, Backed
    <2>3. CASE e = d
        <3>1. held'[d] = held[d] /\ ClientId[d] # 0
            <4>1. NotHeld.addr = NoAddress
                BY SMTT(30) DEF NotHeld
            <4>2. held'[d].addr # NoAddress
                BY Zenon, <2>3 DEF InUse
            <4> QED
                BY Zenon, <1>4, <4>1, <4>2
        <3>2. Backed(db.mem, held, hwaddr, d)
            BY <2>1, <2>3, <3>1 DEF UseInv, InUse
        <3> QED
            BY ZenonT(30), <2>3, <3>1, <3>2 DEF Backed
    <2> QED
        BY <2>2, <2>3
<1> QED
    BY Zenon, <1>2, <1>4, <1>5, <1>6, <1>7, <1>8 DEF IInv, VarsOK, LeaseInv

LEMMA TickInv ==
    ASSUME IInv, Tick
    PROVE  IInv'
<1>1. /\ now \in Nat /\ now' = now + 1 /\ now' \in 0 .. MaxTime
      /\ held' = [d \in Devices |-> IF held[d].until < now' THEN NotHeld ELSE held[d]]
      /\ UNCHANGED <<db, last, sender, hwaddr, spares, trusted, faults, configs>>
    <2>1. /\ now \in 0 .. MaxTime /\ now < MaxTime /\ now' = now + 1
        BY Zenon DEF Tick, IInv, VarsOK
    <2>2. now \in Nat /\ now' \in 0 .. MaxTime
        BY SMTT(30), <2>1, BoundsAssumption
    <2> QED
        BY Zenon, <2>1, <2>2 DEF Tick
<1>2. held \in Holdings
    BY DEF IInv, VarsOK
<1>3. NotHeld \in [addr : Addresses \cup {NoAddress}, until : Nat]
    BY DEF NotHeld
<1>4. held' \in Holdings
    BY <1>1, <1>2, <1>3 DEF Holdings
<1>5. \A d \in Devices : held'[d] = NotHeld \/ held'[d] = held[d]
    BY <1>1
<1>6. UntilInv(held', now')
    BY <1>1, <1>2, <1>5, EngineAssumption DEF IInv, UntilInv, Holdings, NotHeld
<1>7. \A d \in Devices : InUse(held', now', d) => InUse(held, now, d) /\ held'[d] = held[d]
    BY <1>1, <1>2, <1>5 DEF InUse, Holdings, NotHeld
<1>8. trusted => UseInv(db.mem, held', hwaddr, now')
    <2> SUFFICES ASSUME trusted, NEW e \in Devices, InUse(held', now', e)
                 PROVE  Backed(db.mem, held', hwaddr, e)
        BY DEF UseInv
    <2>1. Backed(db.mem, held, hwaddr, e)
        BY <1>7 DEF IInv, LeaseInv, UseInv
    <2> QED
        BY Zenon, <1>7, <2>1 DEF Backed
<1>9. LeaseInv(db.mem, held', hwaddr, spares, now', trusted)
    BY <1>8 DEF IInv, LeaseInv
<1> QED
    BY Zenon, <1>1, <1>4, <1>6, <1>9 DEF IInv, VarsOK

-----------------------------------------------------------------------------
LEMMA InitInv == Init => IInv
<1> SUFFICES ASSUME Init PROVE IInv
    OBVIOUS
<1>1. NoLease \in LeasesOf(Names) /\ ~(NoLease.valid > 0)
    BY DEF NoLease, LeasesOf, Names, NoName
<1>2. /\ db \in Databases /\ Sorted(db) /\ AgreeInv(db)
      /\ \A a \in Addresses : ~Present(db.mem, a)
    BY Zenon, <1>1
       DEF Init, EmptyDatabase, Databases, DatabasesOf, Sorted, AgreeInv, SameLease, Present
<1>3. held \in Holdings /\ \A d \in Devices : held[d] = NotHeld
    BY DEF Init, Holdings, NotHeld
<1>4. UntilInv(held, now)
    BY <1>3, EngineAssumption DEF Init, UntilInv, NotHeld
<1>5. LeaseInv(db.mem, held, hwaddr, spares, now, trusted)
    <2>1. NotHeld.addr = NoAddress
        BY SMTT(30) DEF NotHeld
    <2>2. \A d \in Devices : ~InUse(held, now, d)
        BY Zenon, <1>3, <2>1 DEF InUse
    <2> QED
        BY Zenon, <1>2, <2>2 DEF LeaseInv, OwnerInv, UniqueInv, UseInv
<1>6. CardsInv(hwaddr, spares)
    BY DevicesAssumption DEF Init, CardsInv
<1>7. VarsOK
    BY <1>2, <1>3, BoundsAssumption, DevicesAssumption DEF Init, VarsOK
<1> QED
    BY ZenonT(30), <1>2, <1>4, <1>5, <1>6, <1>7, NewSenderInv DEF Init, IInv

LEMMA StepInv == IInv /\ [Next]_vars => IInv'
<1> SUFFICES ASSUME IInv, [Next]_vars PROVE IInv'
    OBVIOUS
<1>1. CASE UNCHANGED vars
    BY Zenon, <1>1 DEF vars, IInv, VarsOK
<1>2. ASSUME NEW d \in Devices, NEW hint \in Hints, processDiscover(d, hint) PROVE IInv'
    BY <1>2, DiscoverInv
<1>3. ASSUME NEW d \in Devices, NEW hint \in Hints, processRequest(d, hint) PROVE IInv'
    BY <1>3, RequestInv
<1>4. ASSUME NEW d \in Devices, NEW hint \in Hints, KilledDuringRequest(d, hint) PROVE IInv'
    BY <1>4, KilledInv
<1>5. ASSUME NEW d \in Devices, processRelease(d) PROVE IInv'
    BY <1>5, ReleaseInv
<1>6. ASSUME NEW d \in Devices, CardReplaced(d) PROVE IInv'
    BY <1>6, CardReplacedInv
<1>7. CASE Restart
    BY <1>7, RestartInv
<1>8. CASE SendCompletes
    BY <1>8, SendCompletesInv
<1>9. CASE Configured
    BY <1>9, ConfiguredInv
<1>10. CASE Tick
    BY <1>10, TickInv
<1> QED
    BY <1>1, <1>2, <1>3, <1>4, <1>5, <1>6, <1>7, <1>8, <1>9, <1>10 DEF Next

LEMMA InvImplies ==
    ASSUME IInv
    PROVE  TypeOK /\ NoDoubleBindingWhileSorted /\ ReplayAgrees /\ AcceptedIsSentInOrder
<1>1. db.mem \in [Addresses -> Leases] /\ db.disk \in [Addresses -> Leases]
        /\ db.hw_sorted \in BOOLEAN /\ db.cid_sorted \in BOOLEAN
    BY DEF IInv, VarsOK, Databases, DatabasesOf, LeasesOf, Leases
<1>2. TypeOK
    <2>1. SenderInv(sender) /\ VarsOK
        BY DEF IInv
    <2>2. /\ sender.queue \in Seq(Nat) /\ Len(sender.queue) <= MaxSendQueue
          /\ sender.busy => sender.queue # << >>
        BY ZenonT(30), <2>1, NumbersSeq DEF SenderInv, Senders
    <2> QED
        BY Zenon, <1>1, <2>1, <2>2 DEF VarsOK, TypeOK, Holdings
<1>3. NoDoubleBindingWhileSorted
    <2> SUFFICES ASSUME trusted, NEW d \in Devices, NEW e \in Devices, d # e, Uses(d), Uses(e)
                 PROVE  held[d].addr # held[e].addr
        BY DEF NoDoubleBindingWhileSorted, NoDoubleBinding
    <2>1. InUse(held, now, d) /\ InUse(held, now, e)
        BY DEF Uses, InUse
    <2> QED
        BY <2>1, Exclusive DEF IInv, LeaseInv
<1>4. ReplayAgrees
    BY <1>1 DEF IInv, AgreeInv, SameLease, Leases, ReplayAgrees
<1>5. AcceptedIsSentInOrder
    BY Zenon DEF IInv, SenderInv, Numbers, AcceptedIsSentInOrder
<1> QED
    BY <1>2, <1>3, <1>4, <1>5

LEMMA Invariance == Spec => []IInv
BY InitInv, StepInv, PTL DEF Spec

(* Every variable of the server has its type, and NameChangeSender's queue  *)
(* never exceeds its maximum.                                               *)
THEOREM TypeCorrect == Spec => []TypeOK
<1>1. IInv => TypeOK
    BY InvImplies
<1> QED
    BY <1>1, Invariance, PTL

(* allocateLease4() never gives an address to a device while another uses   *)
(* it, for any number of devices, addresses, restarts and failed writes, as *)
(* long as the lookups of MemfileLeaseMgr find what the container holds.    *)
THEOREM NeverDoubleBound == Spec => []NoDoubleBindingWhileSorted
<1>1. IInv => NoDoubleBindingWhileSorted
    BY InvImplies
<1> QED
    BY <1>1, Invariance, PTL

(* What load4() reads from the lease file is what the server had, name      *)
(* excepted, at whatever step it is killed.                                 *)
THEOREM FileAgrees == Spec => []ReplayAgrees
<1>1. IInv => ReplayAgrees
    BY InvImplies
<1> QED
    BY <1>1, Invariance, PTL

(* NameChangeSender loses, repeats and reorders nothing that sendRequest()  *)
(* accepted, in one life of the process.                                    *)
THEOREM SentInOrder == Spec => []AcceptedIsSentInOrder
<1>1. IInv => AcceptedIsSentInOrder
    BY InvImplies
<1> QED
    BY <1>1, Invariance, PTL

\* What a step of the server may do to a device that uses an address.
KeepsAddress ==
    \A d \in Devices :
        trusted /\ Uses(d) /\ held'[d].addr # NoAddress => held'[d].addr = held[d].addr

LEMMA StepKeeps == IInv /\ [Next]_vars => [KeepsAddress]_vars
<1> SUFFICES ASSUME IInv, Next PROVE KeepsAddress
    OBVIOUS
<1>0. held \in Holdings
    BY DEF IInv, VarsOK
<1>1. CASE UNCHANGED held
    BY <1>1 DEF KeepsAddress
<1>2. ASSUME NEW d \in Devices, NEW hint \in Hints, processRequest(d, hint) PROVE KeepsAddress
    <2>1. PICK a \in Addresses \cup {NoAddress} :
            /\ \/ held' = held
               \/ held' = [held EXCEPT ![d] = IF a = NoAddress THEN NotHeld
                                              ELSE [addr |-> a, until |-> now + Valid]]
            /\ trusted /\ a # NoAddress => (Uses(d) => held[d].addr = a)
        BY Zenon, <1>2, RequestOutcome
    <2> QED
        BY <1>0, <2>1 DEF KeepsAddress, Holdings, NotHeld
<1>3. ASSUME NEW d \in Devices, \/ held' = [held EXCEPT ![d] = NotHeld]
                                \/ held' = held
      PROVE  KeepsAddress
    BY SMTT(30), <1>0, <1>3 DEF KeepsAddress, Holdings, NotHeld
<1>4. ASSUME NEW d \in Devices, processRelease(d) PROVE KeepsAddress
    BY ZenonT(30), <1>3, <1>4 DEF processRelease
<1>5. ASSUME NEW d \in Devices, CardReplaced(d) PROVE KeepsAddress
    BY <1>3, <1>5 DEF CardReplaced
<1>6. ASSUME NEW d \in Devices, NEW hint \in Hints,
             processDiscover(d, hint) \/ KilledDuringRequest(d, hint)
      PROVE  UNCHANGED held
    BY Zenon, <1>6 DEF processDiscover, KilledDuringRequest
<1>7. Restart \/ SendCompletes \/ Configured => UNCHANGED held
    BY DEF Restart, SendCompletes, Configured
<1>8. CASE Tick
    <2>1. \A d \in Devices : held'[d] = NotHeld \/ held'[d] = held[d]
        BY <1>8 DEF Tick
    <2> QED
        BY <2>1 DEF KeepsAddress, NotHeld
<1> QED
    BY <1>1, <1>2, <1>4, <1>5, <1>6, <1>7, <1>8 DEF Next

(* A device that uses an address is never moved to another: a REQUEST of    *)
(* such a device renews its lease or is refused.                            *)
THEOREM KeptOnRenewal == Spec => RenewalKeepsAddress
<1>1. IInv /\ [Next]_vars => [KeepsAddress]_vars
    BY StepKeeps
<1>2. RenewalKeepsAddress <=> [][KeepsAddress]_vars
    BY DEF RenewalKeepsAddress, KeepsAddress
<1>3. Spec => [][KeepsAddress]_vars
    BY <1>1, Invariance, PTL DEF Spec
<1> QED
    BY <1>2, <1>3, PTL
=============================================================================
