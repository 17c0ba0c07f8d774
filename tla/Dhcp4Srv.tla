--------------------------- MODULE Dhcp4Srv ----------------------------
(***************************************************************************)
(* The DHCPv4 server: Dhcpv4Srv of src/bin/dhcp4 with its allocation       *)
(* engine (AllocEngine), its lease database (MemfileLeaseMgr) and its      *)
(* sender of name change requests (NcrSender), and the devices it serves.  *)
(*                                                                         *)
(* The server is one thread: it handles a packet to the end, reply         *)
(* included, before it looks at the next.  It may be killed and started    *)
(* again at any time, also between the two database operations of one      *)
(* request, and a write to the lease file may fail.  Devices are external: *)
(* a device has a hardware address, which changes when its card is         *)
(* replaced, and possibly a client id; it uses an address from the ACK to  *)
(* the end of the lifetime it was told, or until a NAK or its own RELEASE. *)
(* Messages may be lost; they are not duplicated or delayed.               *)
(***************************************************************************)
EXTENDS AllocEngine, NcrSender

CONSTANTS Devices,     \* the devices: their numbers
          ClientId,    \* the client id of a device, 0 for none
          Named,       \* the devices that send a name of their own; the
                       \* others ask the server to make one up
          Card,        \* the hardware address a device starts with
          Spares,      \* hardware addresses of replacement cards
          Hints,       \* what devices put into yiaddr
          MaxTime, MaxFaults, MaxConfigs  \* bounds on the environment

ASSUME DevicesAssumption ==
    /\ Named \subseteq Devices
    /\ ClientId \in [Devices -> Nat] /\ Card \in [Devices -> Nat]
    /\ \A d, e \in Devices : d # e =>
          Card[d] # Card[e] /\ (ClientId[d] = ClientId[e] => ClientId[d] = 0)
    /\ Spares \subseteq Nat /\ \A d \in Devices : Card[d] \notin Spares
    /\ Hints \subseteq Addresses \cup {NoAddress}

ASSUME BoundsAssumption == {MaxTime, MaxFaults, MaxConfigs} \subseteq Nat

VARIABLES now,      \* time(NULL)
          db,       \* the lease database
          last,     \* Subnet::last_allocated_ia_
          sender,   \* the sender of name change requests
          hwaddr,   \* the current hardware address of every device
          spares,   \* the cards not yet used
          held,     \* per device, the address it uses and until when
          trusted,  \* history: both indexes have always been in order
          faults, configs

vars == <<now, db, last, sender, hwaddr, spares, held, trusted, faults, configs>>

\* The empty hostname.
NoName == <<>>

Names == {NoName} \cup {<<"device", d>> : d \in Devices}
                  \cup {<<"address", a>> : a \in Addresses}

NotHeld == [addr |-> NoAddress, until |-> 0]

\* The device uses its address.
Uses(d) == held[d].addr # NoAddress /\ now <= held[d].until

NewSender == [enabled |-> TRUE, sending |-> TRUE, queue |-> <<>>, busy |-> FALSE,
              unsent |-> 0]

Init ==
    /\ now = 0
    /\ db = EmptyDatabase
    /\ last = NoAddress
    /\ sender = NewSender
    /\ hwaddr = Card
    /\ spares = Spares
    /\ held = [d \in Devices |-> NotHeld]
    /\ trusted = TRUE
    /\ faults = 0
    /\ configs = 0

\* What assignLease() passes to the engine for a packet of device d.  The
\* Hostname option is ignored while DNS updates are off.
Query(d, hint) ==
    [hw |-> hwaddr[d], cid |-> ClientId[d], hint |-> hint,
     name |-> IF sender.enabled /\ d \in Named THEN <<"device", d>> ELSE NoName]

\* generateFqdn().
generateFqdn(a) == <<"address", a>>

\* The rest of assignLease() for a packet with a lease but no name: the name
\* is set in the lease, which may be the object in the container, and the
\* lease is written to the database, for a DISCOVER too, if it is there.
NameLease(outcome, written) ==
    LET a     == outcome.addr
        named == [outcome.lease EXCEPT !.name = generateFqdn(a)]
        after == IF Present(outcome.db.mem, a) /\ written
                 THEN updateLease4(outcome.db, a, named)
                 ELSE IF outcome.shared THEN [outcome.db EXCEPT !.mem[a] = named]
                 ELSE outcome.db
    IN  IF a # NoAddress /\ outcome.lease.name = NoName /\ sender.enabled
        THEN [outcome EXCEPT !.lease = named, !.db = after]
        ELSE outcome

\* Lease4::matches(): the two leases are for the same client.
Matches(lease, old) == lease.hw = old.hw /\ lease.cid = old.cid

\* queueNameChangeRequest().
queueNameChangeRequest(s, lease, result) ==
    IF lease.name = NoName THEN s ELSE sendRequest(s, result)

\* createNameChangeRequests(): a request to add the name of the lease, after
\* one to remove the old name if the lease was renewed.  It throws when the
\* old lease was for another client, and returns when the name is the same.
createNameChangeRequests(s, lease, old, result) ==
    IF ~s.enabled THEN s
    ELSE IF old = NoLease THEN queueNameChangeRequest(s, lease, result)
    ELSE IF ~Matches(lease, old) \/ lease.name = old.name THEN s
    ELSE queueNameChangeRequest(queueNameChangeRequest(s, old, result), lease, result)

\* The history variable, after a change of the database.
StillTrusted == trusted' = (trusted /\ db'.hw_sorted /\ db'.cid_sorted)

\* Counts the writes to the lease file that failed.
Fault(n) == faults + n <= MaxFaults /\ faults' = faults + n

\* processDiscover(): a DISCOVER is a "fake" allocation.
processDiscover(d, hint) ==
    /\ ~Uses(d)
    /\ \E written \in BOOLEAN :
          /\ Fault(IF written THEN 0 ELSE 1)
          /\ \E o \in allocateLease4(db, last, Query(d, hint), now, TRUE) :
                /\ db' = NameLease(o, written).db
                /\ last' = o.last
    /\ StillTrusted
    /\ UNCHANGED <<now, sender, hwaddr, spares, held, configs>>

\* The outcomes of the engine for a REQUEST.
Allocated(d, hint, written) ==
    {IF written THEN o ELSE AllocationFails(db, o)
        : o \in allocateLease4(db, last, Query(d, hint), now, FALSE)}

\* The ACK, or NAK, to a REQUEST reaches the device, or is lost.
Answered(d, o) ==
    \/ held' = [held EXCEPT ![d] =
                  IF o.addr = NoAddress THEN NotHeld
                  ELSE [addr |-> o.addr, until |-> now + o.lease.valid]]
    \/ UNCHANGED held

\* processRequest(): assignLease() for a REQUEST, and the reply.
processRequest(d, hint) ==
    /\ \E written, renamed \in BOOLEAN :
          /\ Fault((IF written THEN 0 ELSE 1) + (IF renamed THEN 0 ELSE 1))
          /\ \E engine \in Allocated(d, hint, written), result \in SendResults(sender) :
                LET o == NameLease(engine, renamed)
                IN  /\ db' = o.db
                    /\ last' = o.last
                    /\ sender' = IF o.addr = NoAddress THEN sender
                                 ELSE createNameChangeRequests(sender, o.lease, o.old,
                                                               result)
                    /\ Answered(d, o)
    /\ StillTrusted
    /\ UNCHANGED <<now, hwaddr, spares, configs>>

\* A new process: the leases are loaded from the file, the search starts from
\* the first address, and the requests that were not sent are gone.
Restarted(database) ==
    /\ db' = load4(database)
    /\ last' = NoAddress
    /\ sender' = NewSender

\* The server is killed and started again.
Restart ==
    /\ configs < MaxConfigs
    /\ configs' = configs + 1
    /\ Restarted(db)
    /\ UNCHANGED <<now, hwaddr, spares, held, trusted, faults>>

\* The server is killed while it handles a REQUEST, after the engine's write
\* to the lease file and before the name is set and the reply is sent.
KilledDuringRequest(d, hint) ==
    /\ configs < MaxConfigs
    /\ configs' = configs + 1
    /\ \E o \in Allocated(d, hint, TRUE) : Restarted(o.db)
    /\ StillTrusted
    /\ UNCHANGED <<now, hwaddr, spares, held, faults>>

\* processRelease(), on a RELEASE for the address the device uses.  The device
\* stops using it, whether the message arrives or not.
processRelease(d) ==
    LET a == held[d].addr
        lease == db.mem[a]
    IN  /\ Uses(d)
        /\ held' = [held EXCEPT ![d] = NotHeld]
        /\ \/ /\ Present(db.mem, a)
              /\ lease.hw = hwaddr[d]
              /\ lease.cid = 0 \/ ClientId[d] = 0 \/ lease.cid = ClientId[d]
              /\ db' = deleteLease(db, a)
              /\ \E result \in SendResults(sender) :
                    sender' = IF sender.enabled
                              THEN queueNameChangeRequest(sender, lease, result)
                              ELSE sender
              /\ StillTrusted
           \/ UNCHANGED <<db, sender, trusted>>  \* lost, refused, or not written
        /\ UNCHANGED <<now, last, hwaddr, spares, faults, configs>>

\* sendCompletionHandler(), which the select loop runs.
SendCompletes ==
    /\ sender.sending /\ sender.busy
    /\ \E result \in {"SUCCESS", "ERROR"} : sender' = invokeSendHandler(sender, result)
    /\ UNCHANGED <<now, db, last, hwaddr, spares, held, trusted, faults, configs>>

\* dhcp4ConfigHandler(): new subnets, a new sender if its values differ, and
\* startD2(), which fails when the socket cannot be opened.
Configured ==
    /\ configs < MaxConfigs
    /\ configs' = configs + 1
    /\ last' = NoAddress
    /\ \E differs, enable_updates, opens \in BOOLEAN, result \in SendResults(sender) :
          /\ enable_updates # sender.enabled => differs
          /\ sender' = startD2(IF differs
                               THEN setD2ClientConfig(sender, enable_updates, result)
                               ELSE sender, opens)
    /\ UNCHANGED <<now, db, hwaddr, spares, held, trusted, faults>>

\* The card of a device is replaced.  Without a client id the device is a
\* different client from now on.
CardReplaced(d) ==
    /\ \E hw \in spares :
          /\ hwaddr' = [hwaddr EXCEPT ![d] = hw]
          /\ spares' = spares \ {hw}
    /\ held' = IF ClientId[d] = 0 THEN [held EXCEPT ![d] = NotHeld] ELSE held
    /\ UNCHANGED <<now, db, last, sender, trusted, faults, configs>>

\* Time passes.  A device drops its address when the lifetime is over.
Tick ==
    /\ now < MaxTime
    /\ now' = now + 1
    /\ held' = [d \in Devices |-> IF held[d].until < now' THEN NotHeld ELSE held[d]]
    /\ UNCHANGED <<db, last, sender, hwaddr, spares, trusted, faults, configs>>

Next ==
    \/ \E d \in Devices :
          \/ \E hint \in Hints :
                \/ processDiscover(d, hint)
                \/ processRequest(d, hint)
                \/ KilledDuringRequest(d, hint)
          \/ processRelease(d)
          \/ CardReplaced(d)
    \/ Restart
    \/ SendCompletes
    \/ Configured
    \/ Tick

Spec == Init /\ [][Next]_vars

-----------------------------------------------------------------------------
(***************************************************************************)
(* Properties.                                                             *)
(***************************************************************************)
Leases == [hw : Nat, cid : Nat, cltt : Nat, valid : {0, Valid}, name : Names]

\* Every variable has the type the code gives it, and the send queue of
\* NameChangeSender stays within send_queue_max_.
TypeOK ==
    /\ now \in 0 .. MaxTime
    /\ db.mem \in [Addresses -> Leases] /\ db.disk \in [Addresses -> Leases]
    /\ db.hw_sorted \in BOOLEAN /\ db.cid_sorted \in BOOLEAN
    /\ last \in Addresses \cup {NoAddress}
    /\ sender.queue \in Seq(Nat) /\ Len(sender.queue) <= MaxSendQueue
    /\ sender.busy => sender.queue # <<>>
    /\ hwaddr \in [Devices -> Nat] /\ spares \subseteq Spares
    /\ held \in [Devices -> [addr : Addresses \cup {NoAddress}, until : Nat]]
    /\ trusted \in BOOLEAN
    /\ faults \in 0 .. MaxFaults /\ configs \in 0 .. MaxConfigs

\* Two devices never use one address at the same time: what allocateLease4
\* hands out is not in use, through renewals, expiry, releases, card changes,
\* restarts of the server and failed writes to the lease file.
NoDoubleBinding ==
    \A d, e \in Devices :
        d # e /\ Uses(d) /\ Uses(e) => held[d].addr # held[e].addr

\* The same as long as the ordered indexes of the container were in order.
NoDoubleBindingWhileSorted == trusted => NoDoubleBinding

\* A lease that a client was sent in an ACK is in the database: addLease()
\* returns true only when it has stored the lease.
AckedIsStored ==
    \A d \in Devices :
        Uses(d) => Present(db.mem, held[d].addr) /\ db.mem[held[d].addr].cid = ClientId[d]

\* After a crash the leases are the ones the server had: the owner and the
\* times of every lease in the file are those in memory.  (Not so its name,
\* see NameLease.)
ReplayAgrees ==
    \A a \in Addresses :
        [db.disk[a] EXCEPT !.name = NoName] = [db.mem[a] EXCEPT !.name = NoName]

\* A device that uses an address and is answered keeps it: a REQUEST of such a
\* device renews the lease it has and is not given another address.
RenewalKeepsAddress ==
    [][\A d \in Devices :
          trusted /\ Uses(d) /\ held'[d].addr # NoAddress
             => held'[d].addr = held[d].addr]_vars

\* No request that NameChangeSender accepted is dropped, repeated or overtaken
\* when a send fails, updates are suspended or a new sender takes over: the
\* queue holds exactly the ones not sent yet, in the order they were made.
AcceptedIsSentInOrder == sender.queue = [i \in 1 .. sender.unsent |-> i]

=========================================================================
