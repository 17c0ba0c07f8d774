---------------------------- MODULE Generations ----------------------------
(***************************************************************************)
(* How bundy-memmgr and the bundy-auth processes move from one generation  *)
(* of the data source configuration to the next: the generations memmgr    *)
(* keeps (src/bin/memmgr/memmgr.py.in), its builder thread with the        *)
(* cancellation of commands (src/lib/python/bundy/memmgr/builder.py), and  *)
(* in each bundy-auth the main thread and the builder thread of the data   *)
(* source client manager (src/bin/auth/datasrc_clients_mgr.h).             *)
(*                                                                         *)
(* A plan says which bundy-auth processes there are, which of them were    *)
(* subscribed when memmgr started, whether they may reject a               *)
(* configuration, and which generations have a mapped segment: these have  *)
(* one, with the SegmentInfo object of module SegmentInfo; its files are   *)
(* its own, and are removed when the generation has no readers left.  The  *)
(* configuration is broadcast: msgq delivers it to memmgr and to every     *)
(* bundy-auth before anything that memmgr sends because of it.             *)
(***************************************************************************)
EXTENDS SegmentInfo

CONSTANTS
  Readers,        \* the bundy-auth processes there may be
  MaxGeneration,  \* bound on the generations
  Plans           \* what may happen, with bounds on generations and zone updates

Gens == 1..MaxGeneration

ASSUME GenerationAssumption == MaxGeneration \in Nat \ {0}
ASSUME PlansAssumption == \A p \in Plans :
  /\ p.readers \subseteq Readers /\ p.joined \subseteq p.readers
  /\ p.mapped \in Seq(BOOLEAN) /\ Len(p.mapped) \in Gens
  /\ p.updates \in Nat /\ p.rejects \in BOOLEAN
ASSUME NoneIsNotAGeneration == None \notin Nat

VARIABLES
  plan,         \* an element of Plans
  announced,    \* the latest generation that was broadcast
  (* memmgr, main thread *)
  current,      \* _datasrc_info.gen_id
  old,          \* keys of _old_datasrc_info
  seg,          \* the SegmentInfo object of each generation
  cleaned,      \* generations whose clients_map and segment_info_map are empty
  known,        \* keys of _segment_readers
  outstanding,  \* _segment_readers[r][sgmt_info]
  failed,       \* an exception ended the main loop
  updates,      \* zone updates so far
  (* memmgr, builder thread *)
  commands,     \* _command_queue
  peeked,       \* __local_command_queue
  batch,        \* local_command_queue of run()
  loading,      \* the generation of the load in progress, or None
  alive,        \* no exception ended the builder thread
  responses,    \* _response_queue
  (* bundy-auth *)
  auth,         \* the two threads of each process
  (* channels *)
  sock,         \* what msgq delivers to each bundy-auth, in order
  acks,         \* acknowledgements from each bundy-auth
  notices       \* subscribed and unsubscribed notices about it

mainVars == <<current, old, seg, cleaned, known, outstanding, failed, updates>>
builderVars == <<commands, peeked, batch, loading, alive, responses>>
channelVars == <<sock, acks, notices>>
vars == <<plan, announced, mainVars, builderVars, auth, channelVars>>

Commands == [op : {"validate", "load", "cancel"}, gen : Gens]
Responses == [op : {"validate", "load", "cancel"}, gen : Gens]
Messages == [op : {"config", "release"}, gen : Gens]
              \cup [op : {"update"}, gen : Gens, inuse_only : BOOLEAN]
Acks == [op : {"update_ack", "release_ack"}, gen : Gens]
Callbacks == Acks \cup [op : {"reconfigured"}, remote : BOOLEAN]

(* gen_id and pending are generations (0 for none); mapped tells whether   *)
(* the current one has its segment mapped; release is the pending callback *)
(* of a release command.                                                   *)
AuthType == [queue : Seq(Messages), gen_id : Gens \cup {0}, mapped : BOOLEAN,
             pending : Gens \cup {0}, release : Gens \cup {0},
             callbacks : Seq(Callbacks), subscribed : BOOLEAN, running : BOOLEAN]

SegmentType ==
  [state : States, readers : SUBSET Readers, old_readers : SUBSET Readers,
   events : Seq(Commands), loaded : 0..LoadedCap, reader_ver : Versions,
   writer_ver : Versions, reader_file_validated : BOOLEAN]

TypeOK ==
  /\ plan \in Plans
  /\ announced \in Gens /\ current \in Gens
  /\ old \subseteq Gens /\ cleaned \subseteq Gens
  /\ seg \in [Gens -> SegmentType]
  /\ known \subseteq Readers
  /\ outstanding \in [Readers -> [Gens -> Nat]]
  /\ failed \in BOOLEAN /\ alive \in BOOLEAN
  /\ updates \in 0..plan.updates
  /\ commands \in Seq(Commands) /\ peeked \in Seq(Commands) /\ batch \in Seq(Commands)
  /\ loading \in Gens \cup {None}
  /\ responses \in Seq(Responses)
  /\ auth \in [Readers -> AuthType]
  /\ sock \in [Readers -> Seq(Messages)]
  /\ acks \in [Readers -> Seq(Acks)]
  /\ notices \in [Readers -> Seq({"subscribed", "unsubscribed"})]
-----------------------------------------------------------------------------
(* memmgr, main thread *)

Shared == {g \in DOMAIN plan.mapped : plan.mapped[g]}

AllReaders(s) == s.readers \cup s.old_readers

(* __notify_readers.  The message to a reader is delivered while its       *)
(* process lives; whether it is handled is decided there.                  *)
notify_readers(g, s, rs) ==
  /\ sock' = [r \in Readers |-> IF r \in rs
                THEN Append(sock[r], [op |-> "update", gen |-> g, inuse_only |-> ~loaded(s)])
                ELSE sock[r]]
  /\ outstanding' = [r \in Readers |-> IF r \in rs
                       THEN [outstanding[r] EXCEPT ![g] = @ + 1] ELSE outstanding[r]]

cmd_to_builder(c) == IF c = None THEN <<>> ELSE <<c>>

(* The SegmentInfo of a new generation, as _init_segments leaves it: its   *)
(* readers are added and the initial commands are queued.                  *)
init_segment(g, rs) ==
  [NewSegment(0, 1) EXCEPT !.state = "R_VALIDATING", !.readers = rs,
     !.events = <<[op |-> "validate", gen |-> g], [op |-> "load", gen |-> g]>>]

(* _datasrc_config_handler *)
DatasrcConfigHandler ==
  /\ ~failed /\ current < announced
  /\ LET g == current + 1
     IN  /\ current' = g
         /\ old' = old \cup {current}
         /\ seg' = [seg EXCEPT ![g] = init_segment(g, known)]
         /\ cleaned' = cleaned
         /\ commands' = commands \o <<[op |-> "cancel", gen |-> current]>>
              \o (IF g \in Shared THEN <<[op |-> "validate", gen |-> g]>> ELSE <<>>)
  /\ UNCHANGED <<plan, announced, known, outstanding, failed, updates, peeked, batch,
                 loading, alive, responses, auth, channelVars>>

(* DataSrcInfo.cancel(): the segment after removing reader r (none if r is *)
(* None), whether remove_reader() raised, and the readers that remain.     *)
cancel(g, r) ==
  LET s == seg[g]
      has == g \in Shared /\ g \notin cleaned
      res == IF has /\ r # None /\ r \in AllReaders(s) THEN remove_reader(s, r)
                                                     ELSE Returns(s, None)
  IN  [seg |-> res.seg, raised |-> res.raised,
       readers |-> IF has THEN AllReaders(res.seg) ELSE {}]

(* _notify_from_builder for validate-completed and load-completed: a       *)
(* generation that was cleaned has no segment, which is a KeyError.        *)
CommandCompleted ==
  /\ ~failed /\ responses # <<>> /\ Head(responses).op # "cancel"
  /\ LET g == Head(responses).gen
         res == IF Head(responses).op = "validate"
                  THEN complete_validate(seg[g], FALSE) ELSE complete_update(seg[g], TRUE)
         rs == res.seg.old_readers
     IN  /\ failed' = (g \in cleaned \/ res.raised \/ ~(rs \subseteq known))
         /\ IF g \in cleaned THEN UNCHANGED <<seg, commands>>
            ELSE /\ seg' = [seg EXCEPT ![g] = res.seg]
                 /\ commands' = commands \o cmd_to_builder(res.cmd)
         /\ IF failed' THEN UNCHANGED <<sock, outstanding>>
                       ELSE notify_readers(g, res.seg, rs)
  /\ responses' = Tail(responses)
  /\ UNCHANGED <<plan, announced, current, old, cleaned, known, updates, peeked, batch,
                 loading, alive, auth, acks, notices>>

(* Fault: does not wait for the readers. *)
CancelCompleted_cleans ==
  /\ ~failed /\ responses # <<>> /\ Head(responses).op = "cancel"
  /\ LET g == Head(responses).gen
     IN  /\ cleaned' = cleaned \cup {g}
         /\ old' = old \ {g}
         /\ failed' = (g \notin old)
  /\ responses' = Tail(responses)
  /\ UNCHANGED <<plan, announced, current, seg, known, outstanding, updates, commands,
                 peeked, batch, loading, alive, auth, channelVars>>

(* _notify_from_builder for cancel-completed: the readers are asked to     *)
(* release the generation; without any, it is deleted from                 *)
(* _old_datasrc_info, which is a KeyError if it is not there.              *)
CancelCompleted ==
  /\ ~failed /\ responses # <<>> /\ Head(responses).op = "cancel"
  /\ LET g == Head(responses).gen
         rs == cancel(g, None).readers
     IN  /\ sock' = [r \in Readers |-> IF r \in rs
                       THEN Append(sock[r], [op |-> "release", gen |-> g]) ELSE sock[r]]
         /\ cleaned' = IF rs = {} THEN cleaned \cup {g} ELSE cleaned
         /\ old' = IF rs = {} THEN old \ {g} ELSE old
         /\ failed' = (rs = {} /\ g \notin old)
  /\ responses' = Tail(responses)
  /\ UNCHANGED <<plan, announced, current, seg, known, outstanding, updates, commands,
                 peeked, batch, loading, alive, auth, acks, notices>>

(* _mod_command_handler, segment_info_update_ack: those of an older        *)
(* generation are ignored.                                                 *)
SegmentInfoUpdateAck(r) ==
  /\ ~failed /\ acks[r] # <<>> /\ Head(acks[r]).op = "update_ack"
  /\ LET g == Head(acks[r]).gen
         res == sync_reader(seg[g], r)
     IN  IF g = current /\ r \in known /\ outstanding[r][g] > 0
           THEN /\ outstanding' = [outstanding EXCEPT ![r][g] = @ - 1]
                /\ IF outstanding[r][g] = 1
                     THEN /\ seg' = [seg EXCEPT ![g] = res.seg]
                          /\ commands' = commands \o cmd_to_builder(res.cmd)
                     ELSE UNCHANGED <<seg, commands>>
           ELSE UNCHANGED <<outstanding, seg, commands>>
  /\ acks' = [acks EXCEPT ![r] = Tail(@)]
  /\ UNCHANGED <<plan, announced, current, old, cleaned, known, failed, updates, peeked,
                 batch, loading, alive, responses, auth, sock, notices>>

(* _mod_command_handler, release_segments_ack: exceptions are logged. *)
ReleaseSegmentsAck(r) ==
  /\ ~failed /\ acks[r] # <<>> /\ Head(acks[r]).op = "release_ack"
  /\ LET g == Head(acks[r]).gen
         c == cancel(g, r)
     IN  IF g \in old
           THEN /\ seg' = [seg EXCEPT ![g] = c.seg]
                /\ cleaned' = IF c.raised \/ c.readers # {} THEN cleaned ELSE cleaned \cup {g}
                /\ old' = IF c.raised \/ c.readers # {} THEN old ELSE old \ {g}
           ELSE UNCHANGED <<seg, cleaned, old>>
  /\ acks' = [acks EXCEPT ![r] = Tail(@)]
  /\ UNCHANGED <<plan, announced, current, known, outstanding, failed, updates, builderVars,
                 auth, sock, notices>>

(* __update_reader, subscribed *)
ReaderSubscribed(r) ==
  /\ ~failed /\ notices[r] # <<>> /\ Head(notices[r]) = "subscribed"
  /\ IF r \in known \/ current \notin Shared
       THEN UNCHANGED <<seg, sock, outstanding>>
       ELSE LET res == add_reader(seg[current], r)
            IN  /\ seg' = [seg EXCEPT ![current] = res.seg]
                /\ IF ~res.raised /\ loaded(res.seg)
                     THEN notify_readers(current, res.seg, {r})
                     ELSE UNCHANGED <<sock, outstanding>>
  /\ known' = known \cup {r}
  /\ notices' = [notices EXCEPT ![r] = Tail(@)]
  /\ UNCHANGED <<plan, announced, current, old, cleaned, failed, updates, builderVars, auth, acks>>

(* __update_reader, unsubscribed: first the old generations, then the      *)
(* current one.  An exception is logged and ends the handler.              *)
ReaderUnsubscribed(r) ==
  /\ ~failed /\ notices[r] # <<>> /\ Head(notices[r]) = "unsubscribed"
  /\ LET raised == \E g \in old : cancel(g, r).raised
         done == {g \in old : ~cancel(g, r).raised /\ cancel(g, r).readers = {}}
         res == remove_reader(seg[current], r)
     IN  IF r \notin known THEN UNCHANGED <<known, outstanding, seg, old, cleaned, commands>>
         ELSE /\ known' = known \ {r}
              /\ outstanding' = [outstanding EXCEPT ![r] = [g \in Gens |-> 0]]
              /\ cleaned' = cleaned \cup done
              /\ old' = old \ done
              /\ seg' = [g \in Gens |->
                   IF g \in old THEN cancel(g, r).seg
                   ELSE IF g = current /\ g \in Shared /\ ~raised THEN res.seg ELSE seg[g]]
              /\ commands' = commands \o (IF current \in Shared /\ ~raised
                                            THEN cmd_to_builder(res.cmd) ELSE <<>>)
  /\ notices' = [notices EXCEPT ![r] = Tail(@)]
  /\ UNCHANGED <<plan, announced, current, failed, updates, peeked, batch, loading, alive,
                 responses, auth, sock, acks>>

(* __update_zone, for the current generation *)
UpdateZone ==
  /\ ~failed /\ updates < plan.updates /\ current \in Shared
  /\ LET res == start_update(add_event(seg[current], [op |-> "load", gen |-> current]))
     IN  /\ seg' = [seg EXCEPT ![current] = res.seg]
         /\ commands' = commands \o cmd_to_builder(res.cmd)
  /\ updates' = updates + 1
  /\ UNCHANGED <<plan, announced, current, old, cleaned, known, outstanding, failed, peeked,
                 batch, loading, alive, responses, auth, channelVars>>
-----------------------------------------------------------------------------
(* memmgr, builder thread *)

Canceled(cmds, g) == \E i \in DOMAIN cmds : cmds[i] = [op |-> "cancel", gen |-> g]

(* _handle_cancels: the active ones among the first i commands. *)
handle_cancels(cmds) ==
  LET live == {i \in 1..Len(cmds) :
                 cmds[i].op = "cancel" \/ ~Canceled(cmds, cmds[i].gen)}
      active[i \in 0..Len(cmds)] ==
        IF i = 0 THEN <<>>
        ELSE IF i \in live THEN Append(active[i - 1], cmds[i]) ELSE active[i - 1]
  IN  active[Len(cmds)]

(* run(): takes what is there, once the last batch is done. *)
BuilderTake ==
  /\ alive /\ batch = <<>> /\ loading = None
  /\ peeked \o commands # <<>>
  /\ batch' = handle_cancels(peeked \o commands)
  /\ peeked' = <<>> /\ commands' = <<>>
  /\ UNCHANGED <<plan, announced, mainVars, loading, alive, responses, auth, channelVars>>

(* A validate or a cancel command. *)
BuilderAnswer ==
  /\ alive /\ loading = None /\ batch # <<>> /\ Head(batch).op # "load"
  /\ responses' = Append(responses, Head(batch))
  /\ batch' = Tail(batch)
  /\ UNCHANGED <<plan, announced, mainVars, commands, peeked, loading, alive, auth, channelVars>>

(* _handle_load begins by looking up the generation's client list, which   *)
(* is a KeyError once the main thread has cleaned the generation.          *)
BuilderLoad ==
  /\ alive /\ loading = None /\ batch # <<>> /\ Head(batch).op = "load"
  /\ IF Head(batch).gen \in cleaned THEN alive' = FALSE /\ UNCHANGED loading
                                    ELSE loading' = Head(batch).gen /\ UNCHANGED alive
  /\ batch' = Tail(batch)
  /\ UNCHANGED <<plan, announced, mainVars, commands, peeked, responses, auth, channelVars>>

(* __cmd_canceled: looks only at the commands that are new. *)
BuilderPeek ==
  /\ alive /\ loading # None /\ commands # <<>>
  /\ peeked' = peeked \o commands /\ commands' = <<>>
  /\ loading' = IF Canceled(commands, loading) THEN None ELSE loading
  /\ UNCHANGED <<plan, announced, mainVars, batch, alive, responses, auth, channelVars>>

(* Fault: the generation is reset before it is reported. *)
BuilderLoaded_reset ==
  /\ alive /\ loading # None
  /\ loading' = None
  /\ responses' = Append(responses, [op |-> "load", gen |-> loading'])
  /\ UNCHANGED <<plan, announced, mainVars, commands, peeked, batch, alive, auth, channelVars>>

BuilderLoaded ==
  /\ alive /\ loading # None
  /\ responses' = Append(responses, [op |-> "load", gen |-> loading])
  /\ loading' = None
  /\ UNCHANGED <<plan, announced, mainVars, commands, peeked, batch, alive, auth, channelVars>>
-----------------------------------------------------------------------------
(* bundy-auth *)

(* The main thread: datasrcConfigHandler and foreignCommand queue a        *)
(* command for the builder.  Without a subscription memmgr's messages are  *)
(* dropped.                                                                *)
AuthReceive(r) ==
  /\ auth[r].running /\ sock[r] # <<>>
  /\ LET m == Head(sock[r])
     IN  auth' = IF m.op = "config" \/ auth[r].subscribed
                   THEN [auth EXCEPT ![r].queue = Append(@, m)] ELSE auth
  /\ sock' = [sock EXCEPT ![r] = Tail(@)]
  /\ UNCHANGED <<plan, announced, mainVars, builderVars, acks, notices>>

(* installClientsMap(): the callback of a pending release is scheduled. *)
installClientsMap(a) ==
  [a EXCEPT !.gen_id = a.pending, !.mapped = a.pending \in Shared, !.pending = 0,
            !.callbacks = IF a.release = 0 THEN @
                            ELSE Append(@, [op |-> "release_ack", gen |-> a.release]),
            !.release = 0]

(* Fault: the callback's argument is inverted. *)
doReconfigure_inverted(a, g) ==
  LET p == [a EXCEPT !.pending = g]
  IN  IF g \in Shared
        THEN [p EXCEPT !.callbacks = Append(@, [op |-> "reconfigured", remote |-> FALSE])]
        ELSE LET i == installClientsMap(p)
             IN  [i EXCEPT !.callbacks = Append(@, [op |-> "reconfigured", remote |-> TRUE])]

(* Fault: an earlier generation that is pending stays so. *)
doReconfigure_keeps(a, g) ==
  LET i == installClientsMap([a EXCEPT !.pending = g])
  IN  IF g \in Shared
        THEN [a EXCEPT !.pending = g,
                       !.callbacks = Append(@, [op |-> "reconfigured", remote |-> TRUE])]
        ELSE [i EXCEPT !.pending = a.pending,
                       !.callbacks = Append(@, [op |-> "reconfigured", remote |-> FALSE])]

(* doReconfigure(): the callback's argument is true iff the new generation *)
(* is waiting for its segments.  An error leaves everything as it was.     *)
doReconfigure(a, g) ==
  LET p == [a EXCEPT !.pending = g]
  IN  IF g \in Shared
        THEN [p EXCEPT !.callbacks = Append(@, [op |-> "reconfigured", remote |-> TRUE])]
        ELSE LET i == installClientsMap(p)
             IN  [i EXCEPT !.callbacks = Append(@, [op |-> "reconfigured", remote |-> FALSE])]
doReconfigureFails(a) ==
  [a EXCEPT !.callbacks = Append(@, [op |-> "reconfigured", remote |-> FALSE])]

(* Fault: the pending generation is not installed. *)
doSegmentUpdate_current(a, m) ==
  IF m.gen = a.gen_id /\ m.gen \in cleaned THEN [a EXCEPT !.running = FALSE]
  ELSE [a EXCEPT !.callbacks = Append(@, [op |-> "update_ack", gen |-> m.gen])]

(* doSegmentUpdate() with resetSegment(): a file that was removed cannot   *)
(* be mapped, and the process terminates.                                  *)
doSegmentUpdate(a, m) ==
  LET ack(b) == [b EXCEPT !.callbacks = Append(@, [op |-> "update_ack", gen |-> m.gen])]
  IN  CASE m.gen = a.gen_id ->
             IF m.gen \in cleaned THEN [a EXCEPT !.running = FALSE] ELSE ack(a)
        [] m.gen = a.pending /\ ~m.inuse_only ->
             IF m.gen \in cleaned THEN [a EXCEPT !.running = FALSE]
                                  ELSE ack(installClientsMap(a))
        [] OTHER -> ack(a)

(* Fault: the current generation is released at once. *)
doReleaseSegments_at_once(a, g) ==
  [a EXCEPT !.callbacks = Append(@, [op |-> "release_ack", gen |-> g])]

(* doReleaseSegments(): the current generation is released when the next   *)
(* one is installed, any other at once.                                    *)
doReleaseSegments(a, g) ==
  IF g = a.gen_id THEN [a EXCEPT !.release = g]
  ELSE [a EXCEPT !.callbacks = Append(@, [op |-> "release_ack", gen |-> g])]

(* handleCommand() in the builder thread. *)
AuthHandleCommand(r) ==
  /\ auth[r].running /\ auth[r].queue # <<>>
  /\ LET m == Head(auth[r].queue)
         a == [auth[r] EXCEPT !.queue = Tail(@)]
     IN  \E b \in CASE m.op = "config" -> {doReconfigure(a, m.gen)} \cup
                         (IF plan.rejects THEN {doReconfigureFails(a)} ELSE {})
                    [] m.op = "update" -> {doSegmentUpdate(a, m)}
                    [] m.op = "release" -> {doReleaseSegments(a, m.gen)} :
           auth' = [auth EXCEPT ![r] = b]
  /\ UNCHANGED <<plan, announced, mainVars, builderVars, channelVars>>

(* processCallbacks() in the main thread: sendCommandAck() or              *)
(* listsReconfigured().                                                    *)
AuthCallback(r) ==
  /\ auth[r].running /\ auth[r].callbacks # <<>>
  /\ LET c == Head(auth[r].callbacks)
         a == [auth[r] EXCEPT !.callbacks = Tail(@)]
     IN  IF c.op = "reconfigured"
           THEN /\ auth' = [auth EXCEPT ![r] = [a EXCEPT !.subscribed = c.remote]]
                /\ notices' = IF c.remote = a.subscribed THEN notices
                     ELSE [notices EXCEPT ![r] = Append(@, IF c.remote THEN "subscribed"
                                                                       ELSE "unsubscribed")]
                /\ UNCHANGED acks
           ELSE /\ auth' = [auth EXCEPT ![r] = a]
                /\ acks' = [acks EXCEPT ![r] = Append(@, c)]
                /\ UNCHANGED notices
  /\ UNCHANGED <<plan, announced, mainVars, builderVars, sock>>
-----------------------------------------------------------------------------
(* The configuration manager broadcasts a new generation. *)
Announce ==
  /\ announced < Len(plan.mapped)
  /\ announced' = announced + 1
  /\ sock' = [r \in Readers |-> IF r \in plan.readers
                THEN Append(sock[r], [op |-> "config", gen |-> announced']) ELSE sock[r]]
  /\ UNCHANGED <<plan, mainVars, builderVars, auth, acks, notices>>

NewAuth(present, joined) ==
  [queue |-> IF joined \/ ~present THEN <<>> ELSE <<[op |-> "config", gen |-> 1]>>,
   gen_id |-> 0, mapped |-> FALSE, pending |-> IF joined THEN 1 ELSE 0,
   release |-> 0, callbacks |-> <<>>, subscribed |-> joined, running |-> TRUE]

(* memmgr has just got the first configuration. *)
Init ==
  /\ plan \in Plans
  /\ announced = 1 /\ current = 1
  /\ old = {} /\ cleaned = {}
  /\ known = IF 1 \in Shared THEN plan.joined ELSE {}
  /\ seg = [g \in Gens |-> init_segment(g, IF g = 1 THEN known ELSE {})]
  /\ outstanding = [r \in Readers |-> [g \in Gens |-> 0]]
  /\ failed = FALSE /\ alive = TRUE /\ updates = 0
  /\ commands = IF 1 \in Shared THEN <<[op |-> "validate", gen |-> 1]>> ELSE <<>>
  /\ peeked = <<>> /\ batch = <<>> /\ loading = None /\ responses = <<>>
  /\ auth = [r \in Readers |-> NewAuth(r \in plan.readers, r \in known)]
  /\ sock = [r \in Readers |-> <<>>] /\ acks = [r \in Readers |-> <<>>]
  /\ notices = [r \in Readers |-> <<>>]

MainNext == \/ DatasrcConfigHandler \/ CommandCompleted \/ CancelCompleted \/ UpdateZone
            \/ \E r \in Readers : \/ SegmentInfoUpdateAck(r) \/ ReleaseSegmentsAck(r)
                                  \/ ReaderSubscribed(r) \/ ReaderUnsubscribed(r)
BuilderNext == BuilderTake \/ BuilderAnswer \/ BuilderLoad \/ BuilderPeek \/ BuilderLoaded
AuthNext(r) == AuthReceive(r) \/ AuthHandleCommand(r) \/ AuthCallback(r)

Next == Announce \/ MainNext \/ BuilderNext \/ \E r \in Readers : AuthNext(r)

Spec == Init /\ [][Next]_vars

(* Every thread keeps running, and the main loop serves all its inputs. *)
Fairness ==
  /\ WF_vars(DatasrcConfigHandler) /\ WF_vars(CommandCompleted \/ CancelCompleted)
  /\ WF_vars(BuilderNext)
  /\ \A r \in Readers :
       /\ WF_vars(SegmentInfoUpdateAck(r) \/ ReleaseSegmentsAck(r))
       /\ WF_vars(ReaderSubscribed(r) \/ ReaderUnsubscribed(r))
       /\ WF_vars(AuthReceive(r)) /\ WF_vars(AuthHandleCommand(r)) /\ WF_vars(AuthCallback(r))
FairSpec == Spec /\ Fairness
-----------------------------------------------------------------------------
(* A bundy-auth that rejects a configuration keeps the segments of the one *)
(* before, but reports that it needs none and unsubscribes (the note in    *)
(* doReconfigure()); what depends on readers being subscribed is stated    *)
(* for configurations that are not rejected.                               *)

(* Mapped segments are used, then given up, then used again.  The notice   *)
(* that a reader unsubscribed is about no generation, and msgq sends it    *)
(* on a connection of its own: one that arrives after the reader is back   *)
(* makes memmgr forget a reader that it has.                               *)
ComesBack ==
  \E b \in Shared, f \in DOMAIN plan.mapped \ Shared, t \in Shared : b < f /\ f < t

(* The files of a generation are removed only when no bundy-auth serves    *)
(* from them, whatever the order of configurations, updates, releases and  *)
(* acknowledgements.                                                       *)
RemovedIsUnused ==
  ~plan.rejects /\ ~ComesBack =>
    \A r \in Readers : auth[r].mapped => auth[r].gen_id \notin cleaned

(* No bundy-auth is told to map a file that has been removed, on which it  *)
(* would terminate.                                                        *)
AuthNeverTerminates ==
  ~plan.rejects /\ ~ComesBack => \A r \in Readers : auth[r].running

(* The builder thread ends only when it is told to shut down. *)
BuilderAlive == alive

(* A bundy-auth that serves from mapped segments is subscribed, or has     *)
(* still to run the callback of a reconfiguration.                         *)
MappedIsSubscribed ==
  \A r \in Readers : auth[r].mapped /\ ~plan.rejects =>
    auth[r].subscribed \/
    \E i \in DOMAIN auth[r].callbacks : auth[r].callbacks[i] = [op |-> "reconfigured", remote |-> TRUE]

(* bundy-auth never goes back to an earlier generation. *)
GenerationsGrow ==
  [][\A r \in Readers : auth'[r].gen_id >= auth[r].gen_id]_vars

(* Every bundy-auth eventually serves the latest generation, if memmgr's   *)
(* two threads live and nothing is rejected.                               *)
EventuallyCurrent ==
  <>[](failed \/ ~alive \/ plan.rejects \/ \A r \in plan.readers : auth[r].gen_id = announced)
=============================================================================
