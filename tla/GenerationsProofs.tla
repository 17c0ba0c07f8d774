------------------------- MODULE GenerationsProofs --------------------------
(***************************************************************************)
(* The safety of moving between generations, for any set of bundy-auth     *)
(* processes and any history of configurations and zone updates.           *)
(***************************************************************************)
EXTENDS Generations, WellFoundedInduction, TLAPS

(* A leaf that names no prover is one for SMT. *)
USE SMTT(30)

-----------------------------------------------------------------------------
(* What the builder keeps of its commands when some are cancelled. *)

(* Induction over the natural numbers, for a set. *)
LEMMA SetInduction ==
  ASSUME NEW P, P \subseteq Nat, 0 \in P, \A n \in P : n + 1 \in P
  PROVE  P = Nat
<1> SUFFICES ASSUME Nat \ P # {} PROVE FALSE
  BY Zenon
<1> DEFINE R == OpToRel(<, Nat)
<1>1. IsWellFoundedOn(R, Nat)
  BY Zenon, NatLessThanWellFounded
<1>2. \A x, y \in Nat : y < x => <<y, x>> \in R
  BY DEF OpToRel
<1> HIDE DEF R
<1>3. PICK x \in Nat \ P : \A y \in Nat \ P : ~(<<y, x>> \in R)
  BY Zenon, <1>1, WFMin
<1>4. x # 0 /\ x - 1 \in Nat /\ x - 1 < x
  BY <1>3
<1>5. x - 1 \in P
  BY Zenon, <1>2, <1>3, <1>4
<1> QED
  BY <1>3, <1>4, <1>5

LEMMA HeadIn ==
  ASSUME NEW S, NEW q \in Seq(S), q # <<>>
  PROVE  Head(q) \in S
OBVIOUS

(* handle_cancels() returns some of the commands it is given: h[i] is what *)
(* is left of the first i commands, for all i up to m.                     *)
Filters(S, live, cmds, h, m) ==
  /\ h \in [0..m -> Seq(S)] /\ h[0] = <<>>
  /\ \A i \in 1..m : h[i] = IF i \in live THEN Append(h[i - 1], cmds[i]) ELSE h[i - 1]

LEMMA FilterStep ==
  ASSUME NEW S, NEW cmds \in Seq(S), NEW live, NEW m \in Nat, m + 1 <= Len(cmds),
         NEW h, Filters(S, live, cmds, h, m)
  PROVE  \E k : Filters(S, live, cmds, k, m + 1)
<1> DEFINE e == IF m + 1 \in live THEN Append(h[m], cmds[m + 1]) ELSE h[m]
           k == [i \in 0..(m + 1) |-> IF i = m + 1 THEN e ELSE h[i]]
<1>1. h[m] \in Seq(S) /\ cmds[m + 1] \in S
  BY DEF Filters
<1>2. e \in Seq(S)
  BY <1>1
<1> HIDE DEF e
<1>3. k \in [0..(m + 1) -> Seq(S)]
  BY <1>2 DEF Filters
<1>4. k[0] = <<>> /\ k[m + 1] = e /\ \A i \in 0..m : k[i] = h[i]
  BY DEF Filters
<1> HIDE DEF k
<1>5. ASSUME NEW i \in 1..(m + 1)
      PROVE  k[i] = IF i \in live THEN Append(k[i - 1], cmds[i]) ELSE k[i - 1]
  <2>1. CASE i = m + 1
    BY <1>4, <2>1 DEF e
  <2>2. CASE i # m + 1
    <3>1. i \in 1..m /\ i - 1 \in 0..m /\ i \in 0..m
      BY <2>2
    <3> QED
      BY <1>4, <3>1 DEF Filters
  <2> QED
    BY <2>1, <2>2
<1> QED
  BY Zenon, <1>3, <1>4, <1>5 DEF Filters

LEMMA FilterExists ==
  ASSUME NEW S, NEW cmds \in Seq(S), NEW live
  PROVE  \E h : Filters(S, live, cmds, h, Len(cmds))
<1> DEFINE P == {m \in Nat : m <= Len(cmds) => \E h : Filters(S, live, cmds, h, m)}
<1>1. 0 \in P
  <2> DEFINE h == [i \in 0..0 |-> <<>>]
  <2>1. Filters(S, live, cmds, h, 0)
    BY DEF Filters
  <2> QED
    BY <2>1
<1>2. ASSUME NEW m \in P PROVE m + 1 \in P
  BY FilterStep
<1> HIDE DEF P
<1>3. P = Nat
  <2>1. P \subseteq Nat
    BY DEF P
  <2> QED
    BY Zenon, <1>1, <1>2, <2>1, SetInduction
<1>4. Len(cmds) \in Nat /\ Len(cmds) <= Len(cmds)
  OBVIOUS
<1> QED
  BY <1>3, <1>4 DEF P

LEMMA HandleCancels ==
  ASSUME NEW S, NEW cmds \in Seq(S)
  PROVE  handle_cancels(cmds) \in Seq(S)
<1> DEFINE live == {i \in 1..Len(cmds) :
                     cmds[i].op = "cancel" \/ ~Canceled(cmds, cmds[i].gen)}
           active[i \in 0..Len(cmds)] ==
             IF i = 0 THEN <<>>
             ELSE IF i \in live THEN Append(active[i - 1], cmds[i]) ELSE active[i - 1]
<1>1. handle_cancels(cmds) = active[Len(cmds)]
  BY Zenon DEF handle_cancels
<1> HIDE DEF live
<1>2. PICK h : Filters(S, live, cmds, h, Len(cmds))
  BY Zenon, FilterExists
<1>3. h = [i \in 0..Len(cmds) |->
             IF i = 0 THEN <<>>
             ELSE IF i \in live THEN Append(h[i - 1], cmds[i]) ELSE h[i - 1]]
  <2>1. ASSUME NEW i \in 0..Len(cmds)
        PROVE  h[i] = IF i = 0 THEN <<>>
                      ELSE IF i \in live THEN Append(h[i - 1], cmds[i]) ELSE h[i - 1]
    <3>1. i = 0 \/ i \in 1..Len(cmds)
      OBVIOUS
    <3> QED
      BY Zenon, <1>2, <3>1 DEF Filters
  <2>2. h \in [0..Len(cmds) -> Seq(S)]
    BY <1>2 DEF Filters
  <2> QED
    BY <2>1, <2>2
<1>4. active = [i \in 0..Len(cmds) |->
             IF i = 0 THEN <<>>
             ELSE IF i \in live THEN Append(active[i - 1], cmds[i]) ELSE active[i - 1]]
  BY Zenon, <1>3
<1> HIDE DEF active
<1> DEFINE Q == {m \in Nat : m <= Len(cmds) => active[m] \in Seq(S)}
<1>5. 0 \in Q
  BY <1>4
<1>6. ASSUME NEW m \in Q PROVE m + 1 \in Q
  <2>1. CASE ~(m + 1 <= Len(cmds))
    BY <2>1
  <2>2. CASE m + 1 <= Len(cmds)
    <3>1. /\ active[m] \in Seq(S) /\ cmds[m + 1] \in S
          /\ m + 1 \in 0..Len(cmds) /\ m + 1 # 0 /\ (m + 1) - 1 = m
      BY <2>2
    <3>2. active[m + 1] = IF m + 1 \in live THEN Append(active[m], cmds[m + 1]) ELSE active[m]
      BY Zenon, <1>4, <3>1
    <3>3. active[m + 1] \in Seq(S)
      BY <3>1, <3>2
    <3> QED
      BY <3>3
  <2> QED
    BY <2>1, <2>2
<1> HIDE DEF Q
<1>7. Q = Nat
  <2>1. Q \subseteq Nat
    BY DEF Q
  <2> QED
    BY Zenon, <1>5, <1>6, <2>1, SetInduction
<1>8. Len(cmds) \in Nat /\ Len(cmds) <= Len(cmds)
  OBVIOUS
<1> QED
  BY <1>1, <1>7, <1>8 DEF Q

-----------------------------------------------------------------------------
(* What the methods of SegmentInfo do to the readers of a generation. *)

(* The commands for the segment of generation g. *)
EventsOf(g) == [op : {"validate", "load"}, gen : {g}]

(* The segment of generation g, with readers in R. *)
SegmentOf(g, R) ==
  [state : States, readers : SUBSET R, old_readers : SUBSET R,
   events : Seq(EventsOf(g)), loaded : 0..LoadedCap, reader_ver : Versions,
   writer_ver : Versions, reader_file_validated : BOOLEAN]

(* Readers of the old version are waited for in a synchronizing state.  So *)
(* entering one, which replaces the old readers, forgets no reader.        *)
Calm(s) == s.state \notin SyncStates => s.old_readers = {}

(* Result res is for generation g and leaves it the readers A. *)
Leaves(g, R, A, res) ==
  /\ res.seg \in SegmentOf(g, R) /\ Calm(res.seg)
  /\ AllReaders(res.seg) = A
  /\ res.cmd \in EventsOf(g) \cup {None}

LEMMA LeavesReturned ==
  ASSUME NEW g, NEW R, NEW t \in SegmentOf(g, R), Calm(t), NEW c \in EventsOf(g) \cup {None}
  PROVE  Leaves(g, R, AllReaders(t), Returns(t, c)) /\ Leaves(g, R, AllReaders(t), Raises(t))
BY Zenon DEF Leaves, Returns, Raises

(* start_update() and check_on_ready() *)
LEMMA LeavesReady ==
  ASSUME NEW g, NEW R, NEW s \in SegmentOf(g, R), s.old_readers = {}
  PROVE  /\ Leaves(g, R, AllReaders(s), start_update(s))
         /\ Leaves(g, R, AllReaders(s), check_on_ready(s))
<1>1. ASSUME NEW t \in SegmentOf(g, R), t.old_readers = {}
      PROVE  Leaves(g, R, AllReaders(t), start_update(t))
  <2> DEFINE u == [t EXCEPT !.state = "UPDATING"]
  <2>1. u \in SegmentOf(g, R) /\ AllReaders(u) = AllReaders(t) /\ Calm(u) /\ Calm(t)
    BY Zenon, <1>1 DEF SegmentOf, AllReaders, Calm, States
  <2>2. t.events # <<>> => Head(t.events) \in EventsOf(g)
    BY DEF SegmentOf
  <2>3. start_update(t) \in {Returns(u, Head(t.events)), Returns(t, None)}
        /\ (start_update(t) = Returns(t, None) \/ t.events # <<>>)
    BY Zenon DEF start_update
  <2> HIDE DEF u
  <2> QED
    BY Zenon, <2>1, <2>2, <2>3, LeavesReturned
<1> DEFINE v == [s EXCEPT !.state = "READY"]
<1>2. v \in SegmentOf(g, R) /\ AllReaders(v) = AllReaders(s) /\ v.old_readers = {}
  BY Zenon DEF SegmentOf, AllReaders, States
<1>3. check_on_ready(s) = start_update(v)
  BY Zenon DEF check_on_ready
<1> HIDE DEF v
<1> QED
  BY Zenon, <1>1, <1>2, <1>3

LEMMA LeavesHelper ==
  ASSUME NEW g, NEW R, NEW s \in SegmentOf(g, R), s.state \in SyncStates
  PROVE  Leaves(g, R, AllReaders(s), sync_reader_helper(s))
<1>1. CASE s.old_readers # {}
  <2>1. sync_reader_helper(s) = Returns(s, None) /\ Calm(s)
    BY Zenon, <1>1 DEF sync_reader_helper, Calm
  <2> QED
    BY Zenon, <2>1, LeavesReturned
<1>2. CASE s.old_readers = {} /\ s.state = "SYNCHRONIZING2"
  BY Zenon, <1>2, LeavesReady DEF sync_reader_helper
<1>3. CASE s.old_readers = {} /\ s.state # "SYNCHRONIZING2"
  <2> DEFINE next == IF s.state = "SYNCHRONIZING" THEN "COPYING" ELSE "W_VALIDATING"
             t == [s EXCEPT !.state = next, !.events = Tail(@)]
             u == [s EXCEPT !.state = next]
  <2>1. next \in States
    BY DEF States
  <2>2. s.events # <<>> => Head(s.events) \in EventsOf(g) /\ Tail(s.events) \in Seq(EventsOf(g))
    BY DEF SegmentOf
  <2>3. \/ s.events # <<>> /\ sync_reader_helper(s) = Returns(t, Head(s.events))
        \/ s.events = <<>> /\ sync_reader_helper(s) = Returns(u, None)
    BY Zenon, <1>3 DEF sync_reader_helper
  <2> HIDE DEF next
  <2>4. u \in SegmentOf(g, R) /\ AllReaders(u) = AllReaders(s) /\ Calm(u)
    BY Zenon, <1>3, <2>1 DEF SegmentOf, AllReaders, Calm
  <2>5. s.events # <<>> => t \in SegmentOf(g, R) /\ AllReaders(t) = AllReaders(s) /\ Calm(t)
    BY Zenon, <1>3, <2>1, <2>2 DEF SegmentOf, AllReaders, Calm
  <2> HIDE DEF t, u
  <2> QED
    BY Zenon, <2>2, <2>3, <2>4, <2>5, LeavesReturned
<1> QED
  BY Zenon, <1>1, <1>2, <1>3

LEMMA LeavesSync ==
  ASSUME NEW g, NEW R, NEW s \in SegmentOf(g, R), s.old_readers = {}, NEW st \in SyncStates
  PROVE  Leaves(g, R, AllReaders(s), start_sync(s, st))
<1> DEFINE t == [s EXCEPT !.state = st, !.old_readers = s.readers, !.readers = {}]
<1>1. st \in States /\ {} \in SUBSET R
  BY DEF SyncStates, States
<1>2. t \in SegmentOf(g, R) /\ t.state \in SyncStates
  BY Zenon, <1>1 DEF SegmentOf
<1>3. t.readers = {} /\ t.old_readers = s.readers
  BY Zenon DEF SegmentOf
<1>4. AllReaders(t) = AllReaders(s)
  BY <1>3 DEF AllReaders
<1>5. start_sync(s, st) = sync_reader_helper(t)
  BY Zenon DEF start_sync
<1> HIDE DEF t
<1> QED
  BY Zenon, <1>2, <1>4, <1>5, LeavesHelper

(* The builder's answers. *)
LEMMA LeavesCompleted ==
  ASSUME NEW g, NEW R, NEW s \in SegmentOf(g, R), Calm(s), NEW ok \in BOOLEAN
  PROVE  /\ Leaves(g, R, AllReaders(s), complete_validate(s, ok))
         /\ Leaves(g, R, AllReaders(s), complete_update(s, ok))
<1>1. Leaves(g, R, AllReaders(s), complete_validate(s, ok))
  <2> DEFINE t == [s EXCEPT !.reader_file_validated = ok \/ @]
             u == [s EXCEPT !.state = "UPDATING"]
  <2>1. CASE s.state = "R_VALIDATING"
    <3>1. s.old_readers = {} /\ (ok \/ s.reader_file_validated) \in BOOLEAN
      BY <2>1 DEF Calm, SyncStates
    <3>2. t \in SegmentOf(g, R) /\ t.old_readers = {} /\ AllReaders(t) = AllReaders(s)
      BY Zenon, <3>1 DEF SegmentOf, AllReaders
    <3>3. complete_validate(s, ok) = start_sync(t, "V_SYNCHRONIZING")
      BY Zenon, <2>1 DEF complete_validate
    <3>4. "V_SYNCHRONIZING" \in SyncStates
      BY DEF SyncStates
    <3> HIDE DEF t
    <3> QED
      BY Zenon, <3>2, <3>3, <3>4, LeavesSync
  <2>2. CASE s.state = "W_VALIDATING" /\ s.events # <<>>
    <3>1. s.old_readers = {} /\ Head(s.events) \in EventsOf(g)
      BY <2>2 DEF Calm, SyncStates, SegmentOf
    <3>2. u \in SegmentOf(g, R) /\ Calm(u) /\ AllReaders(u) = AllReaders(s)
      BY Zenon, <3>1 DEF SegmentOf, AllReaders, Calm, States
    <3>3. complete_validate(s, ok) = Returns(u, Head(s.events))
      BY <2>2 DEF complete_validate
    <3> HIDE DEF u
    <3> QED
      BY Zenon, <3>1, <3>2, <3>3, LeavesReturned
  <2>3. CASE s.state # "R_VALIDATING" /\ ~(s.state = "W_VALIDATING" /\ s.events # <<>>)
    <3>1. complete_validate(s, ok) = Raises(s)
      BY <2>3 DEF complete_validate
    <3> QED
      BY Zenon, <3>1, LeavesReturned
  <2> QED
    BY Zenon, <2>1, <2>2, <2>3
<1>2. Leaves(g, R, AllReaders(s), complete_update(s, ok))
  <2> DEFINE n == IF s.loaded < LoadedCap THEN s.loaded + 1 ELSE s.loaded
             t == [s EXCEPT !.loaded = n]
             w == switch_versions(t)
             d == [t EXCEPT !.events = Tail(@)]
  <2>1. n \in 0..LoadedCap
    BY DEF SegmentOf, LoadedCap
  <2> HIDE DEF n
  <2>2. /\ t \in SegmentOf(g, R) /\ AllReaders(t) = AllReaders(s) /\ Calm(t)
        /\ t.old_readers = s.old_readers /\ t.events = s.events
    BY Zenon, <2>1 DEF SegmentOf, AllReaders, Calm
  <2>3. /\ s.state \in {"UPDATING", "COPYING"} => s.old_readers = {}
        /\ "SYNCHRONIZING" \in SyncStates /\ "SYNCHRONIZING2" \in SyncStates
    BY DEF Calm, SyncStates
  <2> HIDE DEF t
  <2>4. w \in SegmentOf(g, R) /\ AllReaders(w) = AllReaders(t) /\ w.old_readers = t.old_readers
    <3>1. 1 - t.reader_ver \in Versions /\ 1 - t.writer_ver \in Versions
      BY <2>2 DEF SegmentOf, Versions
    <3> QED
      BY Zenon, <2>2, <3>1 DEF SegmentOf, AllReaders, switch_versions
  <2>5. t.events # <<>> => /\ d \in SegmentOf(g, R) /\ AllReaders(d) = AllReaders(t)
                           /\ d.old_readers = t.old_readers
    <3>1. t.events # <<>> => Tail(t.events) \in Seq(EventsOf(g))
      BY <2>2 DEF SegmentOf
    <3> QED
      BY Zenon, <2>2, <3>1 DEF SegmentOf, AllReaders
  <2>6. \/ s.state = "UPDATING" /\ complete_update(s, ok) = start_sync(w, "SYNCHRONIZING")
        \/ s.state = "UPDATING" /\ t.events # <<>> /\ complete_update(s, ok) = check_on_ready(d)
        \/ s.state = "COPYING" /\ complete_update(s, ok) = start_sync(t, "SYNCHRONIZING2")
        \/ s.state = "COPYING" /\ complete_update(s, ok) = check_on_ready(t)
        \/ complete_update(s, ok) = Raises(t)
    BY DEF complete_update, n, t
  <2> HIDE DEF w, d
  <2> QED
    BY Zenon, <2>2, <2>3, <2>4, <2>5, <2>6, LeavesSync, LeavesReady, LeavesReturned
<1> QED
  BY <1>1, <1>2

(* A reader that answers or comes. *)
LEMMA LeavesReaders ==
  ASSUME NEW g, NEW R, NEW s \in SegmentOf(g, R), Calm(s), NEW r \in R
  PROVE  /\ Leaves(g, R, AllReaders(s), sync_reader(s, r))
         /\ Leaves(g, R, AllReaders(s) \cup {r}, add_reader(s, r))
<1> DEFINE t == [s EXCEPT !.old_readers = @ \ {r}, !.readers = @ \cup {r}]
           u == [s EXCEPT !.readers = @ \cup {r}]
<1>1. s.readers \cup {r} \in SUBSET R /\ s.old_readers \ {r} \in SUBSET R
  BY DEF SegmentOf
<1>2. Leaves(g, R, AllReaders(s), sync_reader(s, r))
  <2>1. /\ t \in SegmentOf(g, R) /\ t.state = s.state
        /\ t.readers = s.readers \cup {r} /\ t.old_readers = s.old_readers \ {r}
    BY Zenon, <1>1 DEF SegmentOf
  <2>2. \/ sync_reader(s, r) \in {Returns(s, None), Raises(s)}
        \/ /\ s.state \in SyncStates /\ r \in s.old_readers
           /\ sync_reader(s, r) = sync_reader_helper(t)
    BY Zenon DEF sync_reader
  <2>3. r \in s.old_readers => AllReaders(t) = AllReaders(s)
    BY <2>1 DEF AllReaders
  <2> HIDE DEF t
  <2>4. CASE s.state \in SyncStates /\ r \in s.old_readers
    <3>1. t.state \in SyncStates
      BY Zenon, <2>1, <2>4
    <3>2. Leaves(g, R, AllReaders(t), sync_reader_helper(t))
      BY Zenon, <2>1, <3>1, LeavesHelper
    <3> QED
      BY Zenon, <2>2, <2>3, <2>4, <3>2, LeavesReturned
  <2> QED
    BY Zenon, <2>2, <2>4, LeavesReturned
<1>3. Leaves(g, R, AllReaders(s) \cup {r}, add_reader(s, r))
  <2>1. u \in SegmentOf(g, R) /\ Calm(u) /\ u.readers = s.readers \cup {r}
        /\ u.old_readers = s.old_readers
    BY Zenon, <1>1 DEF SegmentOf, Calm
  <2>2. \/ r \in s.readers /\ add_reader(s, r) = Raises(s)
        \/ add_reader(s, r) = Returns(u, None)
    BY Zenon DEF add_reader
  <2>3. /\ AllReaders(u) = AllReaders(s) \cup {r}
        /\ r \in s.readers => AllReaders(s) = AllReaders(s) \cup {r}
    BY <2>1 DEF AllReaders
  <2> HIDE DEF u
  <2> QED
    BY Zenon, <2>1, <2>2, <2>3, LeavesReturned
<1> QED
  BY <1>2, <1>3

(* A zone update: an event, and the start of its processing. *)
LEMMA LeavesUpdate ==
  ASSUME NEW g, NEW R, NEW s \in SegmentOf(g, R), Calm(s)
  PROVE  Leaves(g, R, AllReaders(s), start_update(add_event(s, [op |-> "load", gen |-> g])))
<1> DEFINE e == [op |-> "load", gen |-> g]
           v == [s EXCEPT !.events = Append(@, e)]
<1>0. e \in EventsOf(g) /\ Append(s.events, e) \in Seq(EventsOf(g))
  BY DEF SegmentOf, EventsOf
<1>1. v \in SegmentOf(g, R) /\ Calm(v) /\ AllReaders(v) = AllReaders(s) /\ v.state = s.state
  BY Zenon, <1>0 DEF SegmentOf, Calm, AllReaders
<1>2. CASE s.state = "READY"
  <2>1. v.old_readers = {}
    BY <1>1, <1>2 DEF Calm, SyncStates
  <2> HIDE DEF v
  <2> QED
    BY Zenon, <1>1, <2>1, LeavesReady DEF add_event, v
<1>3. CASE s.state # "READY"
  <2>1. start_update(add_event(s, e)) = Returns(v, None)
    BY Zenon, <1>1, <1>3 DEF start_update, add_event
  <2> HIDE DEF v
  <2> QED
    BY Zenon, <1>1, <2>1, LeavesReturned
<1> QED
  BY <1>2, <1>3

(* A reader that goes, and no other, may disappear from the readers. *)
LEMMA RemoveLeaves ==
  ASSUME NEW g, NEW R, NEW s \in SegmentOf(g, R), Calm(s), NEW r
  PROVE  \E A : /\ Leaves(g, R, A, remove_reader(s, r))
               /\ AllReaders(s) \ {r} \subseteq A /\ A \subseteq AllReaders(s)
<1> DEFINE t == [s EXCEPT !.old_readers = @ \ {r}]
           u == [s EXCEPT !.readers = @ \ {r}]
<1>1. s.readers \ {r} \in SUBSET R /\ s.old_readers \ {r} \in SUBSET R
  BY DEF SegmentOf
<1>2. /\ t \in SegmentOf(g, R) /\ t.state = s.state
      /\ t.readers = s.readers /\ t.old_readers = s.old_readers \ {r}
      /\ u \in SegmentOf(g, R) /\ u.state = s.state
      /\ u.readers = s.readers \ {r} /\ u.old_readers = s.old_readers
  BY Zenon, <1>1 DEF SegmentOf
<1>3. \/ remove_reader(s, r) = Raises(s)
      \/ s.state \in SyncStates /\ remove_reader(s, r) = sync_reader_helper(t)
      \/ remove_reader(s, r) = Returns(u, None)
  BY DEF remove_reader, SyncStates
<1> HIDE DEF t, u
<1>4. /\ AllReaders(s) \ {r} \subseteq AllReaders(t) /\ AllReaders(t) \subseteq AllReaders(s)
      /\ AllReaders(s) \ {r} \subseteq AllReaders(u) /\ AllReaders(u) \subseteq AllReaders(s)
      /\ Calm(u) /\ AllReaders(s) \ {r} \subseteq AllReaders(s)
  BY <1>2 DEF AllReaders, Calm
<1>5. CASE remove_reader(s, r) = Raises(s)
  BY Zenon, <1>4, <1>5, LeavesReturned
<1>6. CASE s.state \in SyncStates /\ remove_reader(s, r) = sync_reader_helper(t)
  <2>1. t.state \in SyncStates
    BY Zenon, <1>2, <1>6
  <2>2. Leaves(g, R, AllReaders(t), sync_reader_helper(t))
    BY Zenon, <1>2, <2>1, LeavesHelper
  <2> QED
    BY Zenon, <1>4, <1>6, <2>2
<1>7. CASE remove_reader(s, r) = Returns(u, None)
  <2>1. Leaves(g, R, AllReaders(u), Returns(u, None))
    BY Zenon, <1>2, <1>4, LeavesReturned
  <2> QED
    BY Zenon, <1>4, <1>7, <2>1
<1> QED
  BY Zenon, <1>3, <1>5, <1>6, <1>7

LEMMA InitSegment ==
  ASSUME NEW g, NEW R, NEW rs \in SUBSET R
  PROVE  /\ init_segment(g, rs) \in SegmentOf(g, R) /\ Calm(init_segment(g, rs))
         /\ AllReaders(init_segment(g, rs)) = rs
<1> DEFINE ev == <<[op |-> "validate", gen |-> g], [op |-> "load", gen |-> g]>>
           n == NewSegment(0, 1)
           s == [n EXCEPT !.state = "R_VALIDATING", !.readers = rs, !.events = ev]
<1>1. ev \in Seq(EventsOf(g))
  BY DEF EventsOf
<1>2. n \in SegmentOf(g, R) /\ n.old_readers = {}
  <2>1. /\ <<>> \in Seq(EventsOf(g)) /\ 0 \in 0..LoadedCap /\ {} \in SUBSET R
        /\ 0 \in Versions /\ 1 \in Versions /\ "INIT" \in States
    BY DEF LoadedCap, Versions, States
  <2> QED
    BY Zenon, <2>1 DEF SegmentOf, NewSegment
<1>3. init_segment(g, rs) = s
  BY Zenon DEF init_segment
<1> HIDE DEF ev, n
<1>4. s \in SegmentOf(g, R) /\ s.old_readers = {} /\ s.readers = rs
  <2>1. "R_VALIDATING" \in States
    BY DEF States
  <2> QED
    BY Zenon, <1>1, <1>2, <2>1 DEF SegmentOf
<1> QED
  BY <1>3, <1>4 DEF Calm, AllReaders

-----------------------------------------------------------------------------
(* memmgr's two threads. *)

(* The commands and answers there may be when cur is the current           *)
(* generation: only an earlier one is cancelled, and only one that has a   *)
(* segment is validated or loaded.                                         *)
Expected(cur) ==
  {c \in Commands : IF c.op = "cancel" THEN c.gen < cur ELSE c.gen \in Shared /\ c.gen <= cur}

MainInv ==
  /\ plan \in Plans /\ announced \in Gens /\ current \in Gens
  /\ current <= announced /\ announced <= Len(plan.mapped)
  /\ known \subseteq plan.readers
  /\ \A g \in old \cup cleaned : g \in Gens /\ g < current
  /\ failed \in BOOLEAN /\ alive \in BOOLEAN /\ updates \in 0..plan.updates

SegInv ==
  /\ seg \in [Gens -> SegmentType]
  /\ \A g \in Gens : seg[g] \in SegmentOf(g, plan.readers) /\ Calm(seg[g])

WaitInv ==
  /\ outstanding \in [Readers -> [Gens -> Nat]]
  /\ \A r \in Readers, g \in Gens : outstanding[r][g] > 0 => g \in Shared

PipeInv ==
  /\ commands \in Seq(Expected(current)) /\ peeked \in Seq(Expected(current))
  /\ batch \in Seq(Expected(current)) /\ responses \in Seq(Expected(current))
  /\ loading # None => loading \in Shared /\ loading <= current

(* Nothing concerns a bundy-auth that does not exist. *)
Quiet(r) ==
  /\ auth[r].queue = <<>> /\ auth[r].callbacks = <<>>
  /\ sock[r] = <<>> /\ acks[r] = <<>> /\ notices[r] = <<>>

LinkInv ==
  /\ auth \in [Readers -> AuthType]
  /\ sock \in [Readers -> Seq(Messages)] /\ acks \in [Readers -> Seq(Acks)]
  /\ notices \in [Readers -> Seq({"subscribed", "unsubscribed"})]
  /\ \A r \in Readers : r \notin plan.readers => Quiet(r)

MemInv == MainInv /\ SegInv /\ WaitInv /\ PipeInv /\ LinkInv

(* What memmgr may tell reader r. *)
Told(r, m) ==
  /\ r \in plan.readers
  /\ \/ /\ m.op = "update" /\ m.gen \in Shared /\ m.gen <= current
        /\ r \in AllReaders(seg'[m.gen]) /\ m.gen \notin cleaned'
     \/ m.op = "release" /\ m.gen < current

Tells ==
  /\ sock' \in [Readers -> Seq(Messages)]
  /\ \A r \in Readers :
       sock'[r] = sock[r] \/ \E m \in Messages : Told(r, m) /\ sock'[r] = Append(sock[r], m)

(* memmgr keeps a reader of a generation, and the generation's files,      *)
(* unless the reader has released it or unsubscribed.                      *)
Keeps == \A r \in Readers, g \in Shared :
  g <= current /\ r \in AllReaders(seg[g]) /\ g \notin cleaned =>
    \/ r \in AllReaders(seg'[g]) /\ g \notin cleaned'
    \/ acks[r] # <<>> /\ Head(acks[r]).op = "release_ack" /\ Head(acks[r]).gen = g
    \/ notices[r] # <<>> /\ Head(notices[r]) = "unsubscribed"

Takes ==
  /\ acks' \in [Readers -> Seq(Acks)]
  /\ notices' \in [Readers -> Seq({"subscribed", "unsubscribed"})]
  /\ \A r \in Readers :
       /\ acks'[r] = acks[r] \/ (acks[r] # <<>> /\ acks'[r] = Tail(acks[r]))
       /\ notices'[r] = notices[r] \/ (notices[r] # <<>> /\ notices'[r] = Tail(notices[r]))

(* A step of memmgr, as the bundy-auth processes see it. *)
MemStep ==
  /\ plan' = plan /\ announced' = announced /\ auth' = auth /\ current <= current'
  /\ Tells /\ Keeps /\ Takes

LEMMA PlanFacts ==
  ASSUME plan \in Plans
  PROVE  /\ plan.readers \subseteq Readers /\ plan.joined \subseteq plan.readers
         /\ plan.mapped \in Seq(BOOLEAN) /\ Len(plan.mapped) \in Gens
         /\ DOMAIN plan.mapped = 1..Len(plan.mapped) /\ Shared \subseteq Gens
         /\ plan.updates \in Nat /\ MaxGeneration \in Nat
<1>1. /\ plan.readers \subseteq Readers /\ plan.joined \subseteq plan.readers
      /\ plan.mapped \in Seq(BOOLEAN) /\ Len(plan.mapped) \in Gens
      /\ plan.updates \in Nat /\ MaxGeneration \in Nat
  BY Zenon, PlansAssumption, GenerationAssumption DEF PlansAssumption, GenerationAssumption
<1>2. DOMAIN plan.mapped = 1..Len(plan.mapped)
  BY <1>1
<1> QED
  BY <1>1, <1>2 DEF Shared, Gens

LEMMA SeqMono ==
  ASSUME NEW S, NEW T, S \subseteq T, NEW q \in Seq(S)
  PROVE  q \in Seq(T)
OBVIOUS

LEMMA SegmentTypes ==
  ASSUME NEW g \in Gens, NEW R \in SUBSET Readers, NEW s \in SegmentOf(g, R)
  PROVE  s \in SegmentType
<1>1. EventsOf(g) \subseteq Commands /\ SUBSET R \subseteq SUBSET Readers
  BY DEF EventsOf, Commands
<1>2. s.events \in Seq(Commands)
  BY Zenon, <1>1, SeqMono DEF SegmentOf
<1> QED
  BY Zenon, <1>1, <1>2 DEF SegmentOf, SegmentType

(* The commands that a generation's segment gives are expected. *)
LEMMA ExpectedEvents ==
  ASSUME MainInv, NEW g \in Shared, g <= current
  PROVE  EventsOf(g) \subseteq Expected(current)
<1>1. Shared \subseteq Gens
  BY PlanFacts DEF MainInv
<1> QED
  BY <1>1 DEF EventsOf, Expected, Commands

LEMMA CommandsGiven ==
  ASSUME MainInv, PipeInv, NEW g \in Shared, g <= current, NEW c \in EventsOf(g) \cup {None}
  PROVE  commands \o cmd_to_builder(c) \in Seq(Expected(current))
<1> DEFINE E == Expected(current)
<1>1. EventsOf(g) \subseteq E
  BY Zenon, ExpectedEvents
<1>2. commands \in Seq(E)
  BY Zenon DEF PipeInv
<1> HIDE DEF E
<1>3. cmd_to_builder(c) \in Seq(E)
  BY <1>1 DEF cmd_to_builder
<1>4. commands \o cmd_to_builder(c) \in Seq(E)
  BY <1>2, <1>3
<1> QED
  BY Zenon, <1>4 DEF E

LEMMA ExpectedGrows ==
  ASSUME MainInv, plan' = plan, current' \in Gens, current <= current',
         NEW q \in Seq(Expected(current))
  PROVE  q \in Seq(Expected(current)')
<1>1. Shared' = Shared
  BY Zenon DEF Shared
<1>2. current \in Int /\ current' \in Int /\ \A g \in Gens : g \in Int
  BY PlanFacts DEF MainInv, Gens
<1>3. Shared \subseteq Gens
  BY PlanFacts DEF MainInv
<1>4. Expected(current) \subseteq Expected(current)'
  <2> SUFFICES ASSUME NEW c \in Expected(current)
               PROVE  c \in Expected(current)'
    OBVIOUS
  <2>1. /\ c \in Commands /\ c.gen \in Gens
        /\ IF c.op = "cancel" THEN c.gen < current ELSE c.gen \in Shared /\ c.gen <= current
    BY Zenon DEF Expected, Commands
  <2>2. \A g \in Gens : (g < current => g < current') /\ (g <= current => g <= current')
    BY <1>2
  <2> QED
    BY Zenon, <1>1, <2>1, <2>2 DEF Expected
<1> QED
  BY Zenon, <1>4, SeqMono

LEMMA LinkStep ==
  ASSUME MainInv, LinkInv, plan' = plan, auth' = auth, Tells, Takes
  PROVE  LinkInv'
<1>1. ASSUME NEW r \in Readers, r \notin plan.readers PROVE Quiet(r)'
  <2>1. Quiet(r)
    BY Zenon, <1>1 DEF LinkInv
  <2>2. sock'[r] = sock[r]
    BY Zenon, <1>1 DEF Tells, Told
  <2>3. acks'[r] = acks[r] /\ notices'[r] = notices[r]
    BY Zenon, <2>1 DEF Takes, Quiet
  <2> QED
    BY Zenon, <2>1, <2>2, <2>3 DEF Quiet
<1> QED
  BY Zenon, <1>1 DEF LinkInv, Tells, Takes

(* One segment changes. *)
LEMMA SegStep ==
  ASSUME MainInv, SegInv, plan' = plan, NEW g \in Gens,
         NEW s \in SegmentOf(g, plan.readers), Calm(s), seg' = [seg EXCEPT ![g] = s]
  PROVE  SegInv' /\ seg'[g] = s /\ \A h \in Gens \ {g} : seg'[h] = seg[h]
<1>1. s \in SegmentType
  BY Zenon, SegmentTypes, PlanFacts DEF MainInv
<1>2. seg'[g] = s /\ \A h \in Gens \ {g} : seg'[h] = seg[h]
  BY Zenon DEF SegInv
<1>3. seg' \in [Gens -> SegmentType]
  BY Zenon, <1>1 DEF SegInv
<1> QED
  BY Zenon, <1>2, <1>3 DEF SegInv

(* Only the readers of generation g may change, and none is lost. *)
LEMMA KeepsAll ==
  ASSUME MainInv, cleaned' = cleaned, NEW g \in Gens,
         AllReaders(seg[g]) \subseteq AllReaders(seg'[g]),
         \A h \in Gens \ {g} : seg'[h] = seg[h]
  PROVE  Keeps
<1>1. \A h \in Shared : h \in Gens
  BY PlanFacts DEF MainInv
<1>2. ASSUME NEW r \in Readers, NEW h \in Shared, r \in AllReaders(seg[h])
      PROVE  r \in AllReaders(seg'[h])
  BY <1>1, <1>2
<1> QED
  BY Zenon, <1>2 DEF Keeps

LEMMA TakesNothing ==
  ASSUME LinkInv, acks' = acks, notices' = notices
  PROVE  Takes
BY Zenon DEF LinkInv, Takes

LEMMA TakesAck ==
  ASSUME LinkInv, NEW r \in Readers, acks[r] # <<>>, acks' = [acks EXCEPT ![r] = Tail(@)],
         notices' = notices
  PROVE  Takes
<1>1. Tail(acks[r]) \in Seq(Acks)
  BY DEF LinkInv
<1> QED
  BY Zenon, <1>1 DEF LinkInv, Takes

LEMMA TakesNotice ==
  ASSUME LinkInv, NEW r \in Readers, notices[r] # <<>>, acks' = acks,
         notices' = [notices EXCEPT ![r] = Tail(@)]
  PROVE  Takes
<1>1. Tail(notices[r]) \in Seq({"subscribed", "unsubscribed"})
  BY DEF LinkInv
<1> QED
  BY Zenon, <1>1 DEF LinkInv, Takes

LEMMA TellsNothing ==
  ASSUME LinkInv, sock' = sock
  PROVE  Tells
BY Zenon DEF LinkInv, Tells

(* A step in which the builder's queues change. *)
LEMMA PipeStep ==
  ASSUME MemInv, UNCHANGED <<plan, announced, mainVars, auth, channelVars>>,
         alive' \in BOOLEAN, PipeInv'
  PROVE  MemInv' /\ MemStep
<1>1. /\ plan' = plan /\ announced' = announced /\ current' = current /\ old' = old
      /\ seg' = seg /\ cleaned' = cleaned /\ known' = known /\ outstanding' = outstanding
      /\ failed' = failed /\ updates' = updates /\ auth' = auth /\ sock' = sock
      /\ acks' = acks /\ notices' = notices
  BY Zenon DEF mainVars, channelVars
<1>2. MainInv' /\ SegInv'
  BY Zenon, <1>1 DEF MemInv, MainInv, SegInv
<1>3. WaitInv'
  BY Zenon, <1>1 DEF MemInv, WaitInv, Shared
<1>4. Tells /\ Takes
  BY Zenon, <1>1, TellsNothing, TakesNothing DEF MemInv
<1>5. Keeps
  BY Zenon, <1>1 DEF Keeps
<1>6. LinkInv'
  BY Zenon, <1>1, <1>4, LinkStep DEF MemInv
<1>7. current <= current'
  BY <1>1, PlanFacts DEF MemInv, MainInv, Gens
<1> QED
  BY Zenon, <1>1, <1>2, <1>3, <1>4, <1>5, <1>6, <1>7 DEF MemInv, MemStep

LEMMA BuilderStep ==
  ASSUME MemInv, BuilderNext
  PROVE  MemInv' /\ MemStep
<1> DEFINE E == Expected(current)
<1>1. /\ UNCHANGED <<plan, announced, mainVars, auth, channelVars>> /\ plan' = plan
      /\ current' = current
  BY Zenon DEF BuilderNext, BuilderTake, BuilderAnswer, BuilderLoad, BuilderPeek, BuilderLoaded,
     mainVars
<1>2. Expected(current)' = E /\ Shared' = Shared
  BY Zenon, <1>1 DEF Expected, Shared
<1>3. /\ commands \in Seq(E) /\ peeked \in Seq(E) /\ batch \in Seq(E) /\ responses \in Seq(E)
      /\ loading # None => loading \in Shared /\ loading <= current
      /\ alive \in BOOLEAN
  BY Zenon DEF MemInv, MainInv, PipeInv
<1>4. \A g \in Shared : g <= current => [op |-> "load", gen |-> g] \in E
  BY ExpectedEvents DEF MemInv, EventsOf
<1>5. \A c \in E : c.op = "load" => c.gen \in Shared /\ c.gen <= current
  BY Zenon DEF Expected
<1> HIDE DEF E
<1> SUFFICES /\ alive' \in BOOLEAN
             /\ commands' \in Seq(E) /\ peeked' \in Seq(E) /\ batch' \in Seq(E)
             /\ responses' \in Seq(E)
             /\ loading' # None => loading' \in Shared /\ loading' <= current
  BY Zenon, <1>1, <1>2, PipeStep DEF PipeInv
<1>6. CASE BuilderTake
  <2>1. <<>> \in Seq(E) /\ peeked \o commands \in Seq(E)
    BY <1>3
  <2> QED
    BY Zenon, <1>3, <1>6, <2>1, HandleCancels DEF BuilderTake
<1>7. CASE BuilderAnswer
  <2>1. /\ responses' = Append(responses, Head(batch)) /\ batch' = Tail(batch) /\ batch # <<>>
        /\ commands' = commands /\ peeked' = peeked /\ loading' = loading /\ alive' = alive
    BY Zenon, <1>7 DEF BuilderAnswer
  <2>2. Head(batch) \in E /\ Tail(batch) \in Seq(E)
    BY <1>3, <2>1
  <2>3. responses' \in Seq(E)
    BY <1>3, <2>1, <2>2
  <2> QED
    BY Zenon, <1>3, <2>1, <2>2, <2>3
<1>8. CASE BuilderLoad
  <2>1. /\ batch' = Tail(batch) /\ batch # <<>> /\ Head(batch).op = "load"
        /\ commands' = commands /\ peeked' = peeked /\ responses' = responses
        /\ loading' \in {loading, Head(batch).gen} /\ alive' \in {alive, FALSE}
    BY Zenon, <1>8 DEF BuilderLoad
  <2>2. Head(batch) \in E /\ Tail(batch) \in Seq(E)
    BY <1>3, <2>1
  <2> QED
    BY Zenon, <1>3, <1>5, <2>1, <2>2
<1>9. CASE BuilderPeek
  <2>1. /\ peeked' = peeked \o commands /\ commands' = <<>> /\ loading' \in {loading, None}
        /\ batch' = batch /\ responses' = responses /\ alive' = alive
    BY Zenon, <1>9 DEF BuilderPeek
  <2>2. <<>> \in Seq(E) /\ peeked \o commands \in Seq(E)
    BY <1>3
  <2> QED
    BY Zenon, <1>3, <2>1, <2>2
<1>10. CASE BuilderLoaded
  <2>1. /\ responses' = Append(responses, [op |-> "load", gen |-> loading]) /\ loading' = None
        /\ commands' = commands /\ peeked' = peeked /\ batch' = batch /\ alive' = alive
        /\ loading # None
    BY Zenon, <1>10 DEF BuilderLoaded
  <2>2. [op |-> "load", gen |-> loading] \in E
    BY Zenon, <1>3, <1>4, <2>1
  <2>3. responses' \in Seq(E)
    BY <1>3, <2>1, <2>2
  <2> QED
    BY Zenon, <1>3, <2>1, <2>3
<1> QED
  BY Zenon, <1>6, <1>7, <1>8, <1>9, <1>10 DEF BuilderNext

LEMMA ConfigStep ==
  ASSUME MemInv, DatasrcConfigHandler
  PROVE  MemInv' /\ MemStep
<1> DEFINE g == current + 1
           i == init_segment(g, known)
<1>1. /\ current < announced /\ current' = g /\ old' = old \cup {current}
      /\ seg' = [seg EXCEPT ![g] = i] /\ cleaned' = cleaned
      /\ commands' = commands \o <<[op |-> "cancel", gen |-> current]>>
           \o (IF g \in Shared THEN <<[op |-> "validate", gen |-> g]>> ELSE <<>>)
      /\ plan' = plan /\ announced' = announced /\ known' = known /\ outstanding' = outstanding
      /\ failed' = failed /\ updates' = updates /\ peeked' = peeked /\ batch' = batch
      /\ loading' = loading /\ alive' = alive /\ responses' = responses /\ auth' = auth
      /\ sock' = sock /\ acks' = acks /\ notices' = notices
  BY Zenon DEF DatasrcConfigHandler, channelVars
<1>2. /\ current \in Gens /\ announced \in Gens /\ g \in Gens /\ current \in Int /\ g \in Int
      /\ current < g /\ g <= announced /\ current <= g
  BY <1>1, PlanFacts DEF MemInv, MainInv, Gens
<1>3. \A x \in Gens : x \in Int
  BY PlanFacts DEF MemInv, MainInv, Gens
<1>0. \A x \in Gens : (x < current => x < g) /\ (x <= current => x <= g)
  BY <1>2, <1>3
<1>4. MainInv'
  <2>1. \A h \in old' \cup cleaned' : h \in Gens /\ h < g
    <3> HIDE DEF g
    <3> QED
      BY Zenon, <1>0, <1>1, <1>2 DEF MemInv, MainInv
  <2> QED
    BY Zenon, <1>1, <1>2, <2>1 DEF MemInv, MainInv
<1>5. SegInv' /\ \A h \in Gens \ {g} : seg'[h] = seg[h]
  <2>1. i \in SegmentOf(g, plan.readers) /\ Calm(i)
    BY Zenon, InitSegment DEF MemInv, MainInv
  <2> HIDE DEF i, g
  <2> QED
    BY Zenon, <1>1, <1>2, <2>1, SegStep DEF MemInv
<1>6. WaitInv'
  BY Zenon, <1>1 DEF MemInv, WaitInv, Shared
<1>7. PipeInv'
  <2> DEFINE E == Expected(current)
             F == Expected(current)'
  <2>1. \A q \in Seq(E) : q \in Seq(F)
    BY Zenon, <1>1, <1>2, ExpectedGrows DEF MemInv
  <2>2. /\ [op |-> "cancel", gen |-> current] \in F
        /\ g \in Shared => [op |-> "validate", gen |-> g] \in F
    BY <1>1, <1>2 DEF Expected, Commands, Shared
  <2>3. commands \in Seq(E) /\ peeked \in Seq(E) /\ batch \in Seq(E) /\ responses \in Seq(E)
    BY Zenon DEF MemInv, PipeInv
  <2>4. loading' # None => loading' \in Shared' /\ loading' <= current'
    <3>1. loading # None => loading \in Shared /\ loading <= current
      BY Zenon DEF MemInv, PipeInv
    <3>2. Shared' = Shared /\ Shared \subseteq Gens
      BY <1>1, PlanFacts DEF MemInv, MainInv, Shared
    <3> HIDE DEF g
    <3> QED
      BY Zenon, <1>0, <1>1, <3>1, <3>2
  <2> HIDE DEF E, F
  <2>5. commands' \in Seq(F)
    <3> DEFINE a == <<[op |-> "cancel", gen |-> current]>>
               c == IF g \in Shared THEN <<[op |-> "validate", gen |-> g]>> ELSE <<>>
    <3>1. a \in Seq(F) /\ c \in Seq(F) /\ commands \in Seq(F)
      BY <2>1, <2>2, <2>3
    <3>2. commands' = commands \o a \o c
      BY Zenon, <1>1
    <3> HIDE DEF a, c
    <3> QED
      BY <3>1, <3>2
  <2> QED
    BY Zenon, <1>1, <2>1, <2>3, <2>4, <2>5 DEF PipeInv, F
<1>8. Tells /\ Takes
  BY Zenon, <1>1, TellsNothing, TakesNothing DEF MemInv
<1>9. Keeps
  <2>1. \A h \in Shared : h <= current => h \in Gens \ {g}
    BY <1>2, <1>3, PlanFacts DEF MemInv, MainInv
  <2> QED
    BY Zenon, <1>1, <1>5, <2>1 DEF Keeps
<1>10. LinkInv'
  BY Zenon, <1>1, <1>8, LinkStep DEF MemInv
<1> QED
  BY Zenon, <1>1, <1>2, <1>4, <1>5, <1>6, <1>7, <1>8, <1>9, <1>10 DEF MemInv, MemStep

(* A step of the main thread within a generation. *)
LEMMA MainStep ==
  ASSUME MemInv, plan' = plan, announced' = announced, current' = current, auth' = auth,
         MainInv', SegInv', WaitInv', Tells, Keeps, Takes,
         commands' \in Seq(Expected(current)), responses' \in Seq(Expected(current)),
         peeked' = peeked, batch' = batch, loading' = loading
  PROVE  MemInv' /\ MemStep
<1>1. Expected(current)' = Expected(current) /\ Shared' = Shared
  BY Zenon DEF Expected, Shared
<1>2. PipeInv'
  BY Zenon, <1>1 DEF MemInv, PipeInv
<1>3. LinkInv'
  BY Zenon, LinkStep DEF MemInv
<1>4. current <= current'
  BY PlanFacts DEF MemInv, MainInv, Gens
<1> QED
  BY Zenon, <1>2, <1>3, <1>4 DEF MemInv, MemStep

(* Readers are told about a segment that counts them. *)
LEMMA Notifies ==
  ASSUME MemInv, plan' = plan, NEW g \in Shared, g <= current, NEW s, NEW rs,
         rs \subseteq plan.readers, rs \subseteq AllReaders(seg'[g]), g \notin cleaned',
         notify_readers(g, s, rs)
  PROVE  Tells /\ WaitInv'
<1> DEFINE m == [op |-> "update", gen |-> g, inuse_only |-> ~loaded(s)]
<1>1. g \in Gens
  BY Zenon, PlanFacts DEF MemInv, MainInv
<1>2. m \in Messages
  BY <1>1 DEF Messages
<1>3. m.op = "update" /\ m.gen = g
  BY Zenon
<1>4. /\ sock' = [r \in Readers |-> IF r \in rs THEN Append(sock[r], m) ELSE sock[r]]
      /\ outstanding' = [r \in Readers |-> IF r \in rs
                            THEN [outstanding[r] EXCEPT ![g] = @ + 1] ELSE outstanding[r]]
  BY Zenon DEF notify_readers
<1> HIDE DEF m
<1>5. Tells
  <2>1. \A r \in rs : Told(r, m)
    BY Zenon, <1>3 DEF Told
  <2>2. sock' \in [Readers -> Seq(Messages)]
    BY <1>2, <1>4 DEF MemInv, LinkInv
  <2> QED
    BY Zenon, <1>2, <1>4, <2>1, <2>2 DEF Tells
<1>6. WaitInv'
  <2>1. ASSUME NEW r \in Readers
        PROVE  /\ outstanding'[r] \in [Gens -> Nat]
               /\ \A h \in Gens : outstanding'[r][h] > 0 => h \in Shared
    BY <1>1, <1>4 DEF MemInv, WaitInv
  <2>2. outstanding' \in [Readers -> [Gens -> Nat]]
    BY Zenon, <1>4, <2>1
  <2> QED
    BY Zenon, <2>1, <2>2 DEF WaitInv, Shared
<1> QED
  BY <1>5, <1>6

(* The main thread takes the builder's next answer. *)
LEMMA Answers ==
  ASSUME MemInv, responses # <<>>
  PROVE  Head(responses) \in Expected(current) /\ Tail(responses) \in Seq(Expected(current))
<1> DEFINE E == Expected(current)
<1>1. responses \in Seq(E)
  BY Zenon DEF MemInv, PipeInv
<1> HIDE DEF E
<1>2. Head(responses) \in E /\ Tail(responses) \in Seq(E)
  BY <1>1
<1> QED
  BY Zenon, <1>2 DEF E

LEMMA CompletedStep ==
  ASSUME MemInv, CommandCompleted
  PROVE  MemInv' /\ MemStep
<1> DEFINE g == Head(responses).gen
           res == IF Head(responses).op = "validate"
                    THEN complete_validate(seg[g], FALSE) ELSE complete_update(seg[g], TRUE)
           rs == res.seg.old_readers
<1>1. /\ responses # <<>> /\ Head(responses).op # "cancel" /\ responses' = Tail(responses)
      /\ failed' = (g \in cleaned \/ res.raised \/ ~(rs \subseteq known))
      /\ IF g \in cleaned THEN UNCHANGED <<seg, commands>>
         ELSE /\ seg' = [seg EXCEPT ![g] = res.seg]
              /\ commands' = commands \o cmd_to_builder(res.cmd)
      /\ IF failed' THEN UNCHANGED <<sock, outstanding>> ELSE notify_readers(g, res.seg, rs)
      /\ plan' = plan /\ announced' = announced /\ current' = current /\ old' = old
      /\ cleaned' = cleaned /\ known' = known /\ updates' = updates /\ peeked' = peeked
      /\ batch' = batch /\ loading' = loading /\ alive' = alive /\ auth' = auth
      /\ acks' = acks /\ notices' = notices
  BY Zenon DEF CommandCompleted
<1>2. g \in Shared /\ g <= current /\ g \in Gens
  BY Zenon, <1>1, Answers, PlanFacts DEF Expected, MemInv, MainInv
<1>3. Leaves(g, plan.readers, AllReaders(seg[g]), res)
  <2>1. seg[g] \in SegmentOf(g, plan.readers) /\ Calm(seg[g])
    BY Zenon, <1>2 DEF MemInv, SegInv
  <2> HIDE DEF g
  <2> QED
    BY Zenon, <2>1, LeavesCompleted
<1> HIDE DEF g, res
<1>4. /\ res.seg \in SegmentOf(g, plan.readers) /\ Calm(res.seg)
      /\ AllReaders(res.seg) = AllReaders(seg[g]) /\ res.cmd \in EventsOf(g) \cup {None}
      /\ rs \subseteq plan.readers /\ rs \subseteq AllReaders(res.seg)
  <2>1. res.seg.old_readers \in SUBSET plan.readers
    BY Zenon, <1>3 DEF Leaves, SegmentOf
  <2> QED
    BY <1>3, <2>1 DEF Leaves, AllReaders
<1>5. MainInv'
  BY Zenon, <1>1 DEF MemInv, MainInv
<1>6. /\ SegInv' /\ commands' \in Seq(Expected(current))
      /\ \A h \in Gens : AllReaders(seg'[h]) = AllReaders(seg[h])
      /\ g \notin cleaned => seg'[g] = res.seg
  <2>1. CASE g \in cleaned
    <3>1. seg' = seg /\ commands' = commands
      BY Zenon, <1>1, <2>1
    <3> QED
      BY Zenon, <1>1, <2>1, <3>1 DEF MemInv, SegInv, PipeInv
  <2>2. CASE g \notin cleaned
    <3>1. seg' = [seg EXCEPT ![g] = res.seg] /\ commands' = commands \o cmd_to_builder(res.cmd)
      BY Zenon, <1>1, <2>2
    <3>2. SegInv' /\ seg'[g] = res.seg /\ \A h \in Gens \ {g} : seg'[h] = seg[h]
      BY Zenon, <1>1, <1>2, <1>4, <3>1, SegStep DEF MemInv
    <3>3. commands' \in Seq(Expected(current))
      BY Zenon, <1>2, <1>4, <3>1, CommandsGiven DEF MemInv
    <3> QED
      BY Zenon, <1>4, <3>2, <3>3
  <2> QED
    BY <2>1, <2>2
<1>7. Tells /\ WaitInv'
  <2>1. CASE failed'
    <3>1. sock' = sock /\ outstanding' = outstanding
      BY Zenon, <1>1, <2>1
    <3> QED
      BY Zenon, <1>1, <3>1, TellsNothing DEF MemInv, WaitInv, Shared
  <2>2. CASE ~failed'
    <3>1. notify_readers(g, res.seg, rs) /\ g \notin cleaned
      BY Zenon, <1>1, <2>2
    <3> HIDE DEF rs
    <3> QED
      BY Zenon, <1>1, <1>2, <1>4, <1>6, <3>1, Notifies
  <2> QED
    BY <2>1, <2>2
<1>8. Keeps /\ Takes
  <2>1. Shared \subseteq Gens
    BY PlanFacts DEF MemInv, MainInv
  <2> QED
    BY Zenon, <1>1, <1>6, <2>1, TakesNothing DEF Keeps, MemInv
<1>9. responses' \in Seq(Expected(current))
  BY Zenon, <1>1, Answers
<1> QED
  BY Zenon, <1>1, <1>5, <1>6, <1>7, <1>8, <1>9, MainStep

LEMMA CancelFacts ==
  ASSUME MemInv, NEW g \in Gens, NEW r
  PROVE  /\ cancel(g, r).seg \in SegmentOf(g, plan.readers) /\ Calm(cancel(g, r).seg)
         /\ AllReaders(seg[g]) \ {r} \subseteq AllReaders(cancel(g, r).seg)
         /\ g \in Shared /\ g \notin cleaned =>
              cancel(g, r).readers = AllReaders(cancel(g, r).seg)
         /\ cancel(g, r).readers \subseteq plan.readers
         /\ r = None => cancel(g, r).seg = seg[g]
<1> DEFINE s == seg[g]
           has == g \in Shared /\ g \notin cleaned
           res == IF has /\ r # None /\ r \in AllReaders(s) THEN remove_reader(s, r)
                                                          ELSE Returns(s, None)
<1>1. s \in SegmentOf(g, plan.readers) /\ Calm(s)
  BY Zenon DEF MemInv, SegInv
<1>2. /\ cancel(g, r).seg = res.seg
      /\ cancel(g, r).readers = IF has THEN AllReaders(res.seg) ELSE {}
  BY Zenon DEF cancel
<1>3. \/ res = Returns(s, None)
      \/ res = remove_reader(s, r) /\ r # None
  BY Zenon
<1> HIDE DEF s, has, res
<1>4. Returns(s, None).seg = s
  BY Zenon DEF Returns
<1>5. res.seg \in SegmentOf(g, plan.readers) /\ Calm(res.seg)
      /\ AllReaders(s) \ {r} \subseteq AllReaders(res.seg) /\ (r = None => res.seg = s)
  <2>1. CASE res = Returns(s, None)
    BY <1>1, <1>4, <2>1
  <2>2. CASE res = remove_reader(s, r) /\ r # None
    <3>1. PICK A : /\ Leaves(g, plan.readers, A, remove_reader(s, r))
                   /\ AllReaders(s) \ {r} \subseteq A
      BY Zenon, <1>1, RemoveLeaves
    <3> QED
      BY Zenon, <2>2, <3>1 DEF Leaves
  <2> QED
    BY <1>3, <2>1, <2>2
<1>6. AllReaders(res.seg) \subseteq plan.readers
  <2>1. res.seg.readers \in SUBSET plan.readers /\ res.seg.old_readers \in SUBSET plan.readers
    BY Zenon, <1>5 DEF SegmentOf
  <2> QED
    BY <2>1 DEF AllReaders
<1> QED
  BY <1>2, <1>5, <1>6 DEF s, has

LEMMA CancelStep ==
  ASSUME MemInv, CancelCompleted
  PROVE  MemInv' /\ MemStep
<1> DEFINE g == Head(responses).gen
           rs == cancel(g, None).readers
           m == [op |-> "release", gen |-> g]
<1>1. /\ responses # <<>> /\ Head(responses).op = "cancel" /\ responses' = Tail(responses)
      /\ sock' = [r \in Readers |-> IF r \in rs THEN Append(sock[r], m) ELSE sock[r]]
      /\ cleaned' = IF rs = {} THEN cleaned \cup {g} ELSE cleaned
      /\ old' = IF rs = {} THEN old \ {g} ELSE old
      /\ failed' = (rs = {} /\ g \notin old)
      /\ plan' = plan /\ announced' = announced /\ current' = current /\ seg' = seg
      /\ known' = known /\ outstanding' = outstanding /\ updates' = updates
      /\ commands' = commands /\ peeked' = peeked /\ batch' = batch /\ loading' = loading
      /\ alive' = alive /\ auth' = auth /\ acks' = acks /\ notices' = notices
  BY Zenon DEF CancelCompleted
<1>2. g \in Gens /\ g < current
  BY Zenon, <1>1, Answers DEF Expected, Commands
<1> HIDE DEF g
<1>3. /\ rs \subseteq plan.readers
      /\ g \in Shared /\ g \notin cleaned => rs = AllReaders(seg[g])
  BY Zenon, <1>2, CancelFacts
<1> HIDE DEF rs
<1>4. MainInv'
  <2>1. \A h \in old' \cup cleaned' : h \in old \cup cleaned \/ h = g
    BY <1>1
  <2> QED
    BY Zenon, <1>1, <1>2, <2>1 DEF MemInv, MainInv
<1>5. SegInv' /\ WaitInv'
  BY Zenon, <1>1 DEF MemInv, SegInv, WaitInv, Shared
<1>6. Tells
  <2>1. m \in Messages
    BY <1>2 DEF Messages
  <2>2. \A r \in rs : Told(r, m)
    BY Zenon, <1>2, <1>3 DEF Told
  <2> HIDE DEF m
  <2>3. sock' \in [Readers -> Seq(Messages)]
    BY <1>1, <2>1 DEF MemInv, LinkInv
  <2> QED
    BY Zenon, <1>1, <2>1, <2>2, <2>3 DEF Tells
<1>7. Keeps
  <2> SUFFICES ASSUME NEW r \in Readers, NEW h \in Shared, r \in AllReaders(seg[h]),
                      h \notin cleaned
               PROVE  r \in AllReaders(seg'[h]) /\ h \notin cleaned'
    BY Zenon DEF Keeps
  <2>1. CASE h = g
    <3>1. rs # {}
      BY <1>3, <2>1
    <3> QED
      BY Zenon, <1>1, <3>1
  <2>2. CASE h # g
    BY <1>1, <2>2
  <2> QED
    BY <2>1, <2>2
<1>8. Takes
  BY Zenon, <1>1, TakesNothing DEF MemInv
<1>9. responses' \in Seq(Expected(current)) /\ commands' \in Seq(Expected(current))
  BY Zenon, <1>1, Answers DEF MemInv, PipeInv
<1> QED
  BY Zenon, <1>1, <1>4, <1>5, <1>6, <1>7, <1>8, <1>9, MainStep

LEMMA ZoneStep ==
  ASSUME MemInv, UpdateZone
  PROVE  MemInv' /\ MemStep
<1> DEFINE res == start_update(add_event(seg[current], [op |-> "load", gen |-> current]))
<1>1. /\ updates < plan.updates /\ current \in Shared
      /\ seg' = [seg EXCEPT ![current] = res.seg] /\ updates' = updates + 1
      /\ commands' = commands \o cmd_to_builder(res.cmd)
      /\ plan' = plan /\ announced' = announced /\ current' = current /\ old' = old
      /\ cleaned' = cleaned /\ known' = known /\ outstanding' = outstanding
      /\ failed' = failed /\ peeked' = peeked /\ batch' = batch /\ loading' = loading
      /\ alive' = alive /\ responses' = responses /\ auth' = auth /\ sock' = sock
      /\ acks' = acks /\ notices' = notices
  BY Zenon DEF UpdateZone, channelVars
<1>2. current \in Gens /\ current <= current
  BY PlanFacts DEF MemInv, MainInv, Gens
<1>3. Leaves(current, plan.readers, AllReaders(seg[current]), res)
  <2>1. seg[current] \in SegmentOf(current, plan.readers) /\ Calm(seg[current])
    BY Zenon, <1>2 DEF MemInv, SegInv
  <2> QED
    BY Zenon, <2>1, LeavesUpdate
<1> HIDE DEF res
<1>4. /\ res.seg \in SegmentOf(current, plan.readers) /\ Calm(res.seg)
      /\ AllReaders(res.seg) = AllReaders(seg[current])
      /\ res.cmd \in EventsOf(current) \cup {None}
  BY Zenon, <1>3 DEF Leaves
<1>5. MainInv'
  <2>1. updates + 1 \in 0..plan.updates
    BY <1>1, PlanFacts DEF MemInv, MainInv
  <2> QED
    BY Zenon, <1>1, <2>1 DEF MemInv, MainInv
<1>6. SegInv' /\ seg'[current] = res.seg /\ \A h \in Gens \ {current} : seg'[h] = seg[h]
  BY Zenon, <1>1, <1>2, <1>4, SegStep DEF MemInv
<1>7. WaitInv' /\ responses' \in Seq(Expected(current))
  BY Zenon, <1>1 DEF MemInv, WaitInv, Shared, PipeInv
<1>8. commands' \in Seq(Expected(current))
  BY Zenon, <1>1, <1>2, <1>4, CommandsGiven DEF MemInv
<1>9. Tells /\ Takes
  BY Zenon, <1>1, TellsNothing, TakesNothing DEF MemInv
<1>10. Keeps
  <2>1. AllReaders(seg[current]) \subseteq AllReaders(seg'[current])
    BY <1>4, <1>6
  <2> QED
    BY Zenon, <1>1, <1>2, <1>6, <2>1, KeepsAll DEF MemInv
<1> QED
  BY Zenon, <1>1, <1>5, <1>6, <1>7, <1>8, <1>9, <1>10, MainStep

LEMMA UpdateAckStep ==
  ASSUME MemInv, NEW r \in Readers, SegmentInfoUpdateAck(r)
  PROVE  MemInv' /\ MemStep
<1> DEFINE g == Head(acks[r]).gen
           res == sync_reader(seg[g], r)
           waits == g = current /\ r \in known /\ outstanding[r][g] > 0
           last == waits /\ outstanding[r][g] = 1
<1>1. /\ acks[r] # <<>> /\ acks' = [acks EXCEPT ![r] = Tail(@)]
      /\ outstanding' = IF waits THEN [outstanding EXCEPT ![r][g] = @ - 1] ELSE outstanding
      /\ seg' = IF last THEN [seg EXCEPT ![g] = res.seg] ELSE seg
      /\ commands' = IF last THEN commands \o cmd_to_builder(res.cmd) ELSE commands
      /\ plan' = plan /\ announced' = announced /\ current' = current /\ old' = old
      /\ cleaned' = cleaned /\ known' = known /\ failed' = failed /\ updates' = updates
      /\ peeked' = peeked /\ batch' = batch /\ loading' = loading /\ alive' = alive
      /\ responses' = responses /\ auth' = auth /\ sock' = sock /\ notices' = notices
  BY Zenon DEF SegmentInfoUpdateAck
<1>2. g \in Gens /\ r \in plan.readers /\ current \in Gens /\ current <= current
  <2>1. Head(acks[r]) \in Acks
    <3>1. acks[r] \in Seq(Acks) /\ acks[r] # <<>>
      BY Zenon, <1>1 DEF MemInv, LinkInv
    <3> QED
      BY Zenon, <3>1, HeadIn
  <2>2. current \in Gens /\ current <= current
    BY PlanFacts DEF MemInv, MainInv, Gens
  <2> QED
    BY Zenon, <1>1, <2>1, <2>2 DEF Acks, MemInv, LinkInv, Quiet
<1>3. seg[g] \in SegmentOf(g, plan.readers) /\ Calm(seg[g])
  BY Zenon, <1>2 DEF MemInv, SegInv
<1>4. last => g \in Shared /\ g <= current
  BY Zenon, <1>2 DEF MemInv, WaitInv
<1> HIDE DEF g
<1>5. Leaves(g, plan.readers, AllReaders(seg[g]), res)
  BY Zenon, <1>2, <1>3, LeavesReaders
<1> HIDE DEF res, last
<1>6. /\ res.seg \in SegmentOf(g, plan.readers) /\ Calm(res.seg)
      /\ AllReaders(res.seg) = AllReaders(seg[g]) /\ res.cmd \in EventsOf(g) \cup {None}
  BY Zenon, <1>5 DEF Leaves
<1>7. MainInv' /\ responses' \in Seq(Expected(current))
  BY Zenon, <1>1 DEF MemInv, MainInv, PipeInv
<1>8. /\ SegInv' /\ AllReaders(seg[g]) \subseteq AllReaders(seg'[g])
      /\ \A h \in Gens \ {g} : seg'[h] = seg[h]
  <2>1. CASE last
    <3>1. seg' = [seg EXCEPT ![g] = res.seg]
      BY Zenon, <1>1, <2>1
    <3>2. SegInv' /\ seg'[g] = res.seg /\ \A h \in Gens \ {g} : seg'[h] = seg[h]
      BY Zenon, <1>1, <1>2, <1>6, <3>1, SegStep DEF MemInv
    <3> QED
      BY <1>6, <3>2
  <2>2. CASE ~last
    <3>1. seg' = seg
      BY Zenon, <1>1, <2>2
    <3> QED
      BY Zenon, <1>1, <3>1 DEF MemInv, SegInv
  <2> QED
    BY <2>1, <2>2
<1>9. commands' \in Seq(Expected(current))
  <2>1. CASE last
    BY Zenon, <1>1, <1>4, <1>6, <2>1, CommandsGiven DEF MemInv
  <2>2. CASE ~last
    BY Zenon, <1>1, <2>2 DEF MemInv, PipeInv
  <2> QED
    BY <2>1, <2>2
<1>10. WaitInv'
  <2>1. CASE waits
    <3>1. outstanding' = [outstanding EXCEPT ![r][g] = @ - 1]
      BY Zenon, <1>1, <2>1
    <3>2. outstanding' \in [Readers -> [Gens -> Nat]]
      BY <1>2, <2>1, <3>1 DEF MemInv, WaitInv
    <3>3. \A x \in Readers, h \in Gens :
            outstanding'[x][h] > 0 => outstanding[x][h] > 0
      BY <1>2, <2>1, <3>1 DEF MemInv, WaitInv
    <3> QED
      BY Zenon, <1>1, <3>2, <3>3 DEF MemInv, WaitInv, Shared
  <2>2. CASE ~waits
    <3>1. outstanding' = outstanding
      BY Zenon, <1>1, <2>2
    <3> QED
      BY Zenon, <1>1, <3>1 DEF MemInv, WaitInv, Shared
  <2> QED
    BY <2>1, <2>2
<1>11. Tells /\ Takes /\ Keeps
  BY Zenon, <1>1, <1>2, <1>8, TellsNothing, TakesAck, KeepsAll DEF MemInv
<1> QED
  BY Zenon, <1>1, <1>7, <1>8, <1>9, <1>10, <1>11, MainStep

LEMMA ReleaseAckStep ==
  ASSUME MemInv, NEW r \in Readers, ReleaseSegmentsAck(r)
  PROVE  MemInv' /\ MemStep
<1> DEFINE g == Head(acks[r]).gen
           c == cancel(g, r)
           done == g \in old /\ ~(c.raised \/ c.readers # {})
<1>1. /\ acks[r] # <<>> /\ Head(acks[r]).op = "release_ack"
      /\ acks' = [acks EXCEPT ![r] = Tail(@)]
      /\ seg' = IF g \in old THEN [seg EXCEPT ![g] = c.seg] ELSE seg
      /\ cleaned' = IF done THEN cleaned \cup {g} ELSE cleaned
      /\ old' = IF done THEN old \ {g} ELSE old
      /\ plan' = plan /\ announced' = announced /\ current' = current /\ known' = known
      /\ outstanding' = outstanding /\ failed' = failed /\ updates' = updates
      /\ commands' = commands /\ peeked' = peeked /\ batch' = batch /\ loading' = loading
      /\ alive' = alive /\ responses' = responses /\ auth' = auth /\ sock' = sock
      /\ notices' = notices
  BY Zenon DEF ReleaseSegmentsAck, builderVars
<1>2. g \in Gens
  <2>1. Head(acks[r]) \in Acks
    <3>1. acks[r] \in Seq(Acks) /\ acks[r] # <<>>
      BY Zenon, <1>1 DEF MemInv, LinkInv
    <3> QED
      BY Zenon, <3>1, HeadIn
  <2> QED
    BY Zenon, <2>1 DEF Acks
<1>3. Head(acks[r]).gen = g
  OBVIOUS
<1> HIDE DEF g
<1>4. /\ c.seg \in SegmentOf(g, plan.readers) /\ Calm(c.seg)
      /\ AllReaders(seg[g]) \ {r} \subseteq AllReaders(c.seg)
      /\ g \in Shared /\ g \notin cleaned => c.readers = AllReaders(c.seg)
  BY Zenon, <1>2, CancelFacts
<1> HIDE DEF c
<1>5. MainInv'
  <2>1. \A h \in old' \cup cleaned' : h \in old \cup cleaned
    BY Zenon, <1>1
  <2> QED
    BY Zenon, <1>1, <2>1 DEF MemInv, MainInv
<1>6. /\ SegInv' /\ \A h \in Gens \ {g} : seg'[h] = seg[h]
      /\ AllReaders(seg[g]) \ {r} \subseteq AllReaders(seg'[g])
      /\ g \in old => seg'[g] = c.seg
  <2>1. CASE g \in old
    <3>1. seg' = [seg EXCEPT ![g] = c.seg]
      BY Zenon, <1>1, <2>1
    <3>2. SegInv' /\ seg'[g] = c.seg /\ \A h \in Gens \ {g} : seg'[h] = seg[h]
      BY Zenon, <1>1, <1>2, <1>4, <3>1, SegStep DEF MemInv
    <3> QED
      BY Zenon, <1>4, <3>2
  <2>2. CASE g \notin old
    <3>1. seg' = seg
      BY Zenon, <1>1, <2>2
    <3> QED
      BY <1>1, <2>2, <3>1 DEF MemInv, SegInv
  <2> QED
    BY <2>1, <2>2
<1>7. WaitInv' /\ responses' \in Seq(Expected(current)) /\ commands' \in Seq(Expected(current))
  BY Zenon, <1>1 DEF MemInv, WaitInv, Shared, PipeInv
<1>8. Tells /\ Takes
  BY Zenon, <1>1, TellsNothing, TakesAck DEF MemInv
<1>9. Keeps
  <2> SUFFICES ASSUME NEW x \in Readers, NEW h \in Shared, x \in AllReaders(seg[h]),
                      h \notin cleaned, ~(x = r /\ h = g)
               PROVE  x \in AllReaders(seg'[h]) /\ h \notin cleaned'
    BY Zenon, <1>1, <1>3 DEF Keeps
  <2>0. h \in Gens
    BY PlanFacts DEF MemInv, MainInv
  <2>1. CASE h = g
    <3>1. x \in AllReaders(seg'[g])
      BY <1>6, <2>1
    <3>2. ~done
      BY Zenon, <1>4, <1>6, <2>1, <3>1
    <3> QED
      BY Zenon, <1>1, <2>1, <3>1, <3>2
  <2>2. CASE h # g
    <3>1. h \notin cleaned'
      BY <1>1, <2>2
    <3> QED
      BY Zenon, <1>6, <2>0, <2>2, <3>1
  <2> QED
    BY <2>1, <2>2
<1> QED
  BY Zenon, <1>1, <1>5, <1>6, <1>7, <1>8, <1>9, MainStep

LEMMA SubscribedStep ==
  ASSUME MemInv, NEW r \in Readers, ReaderSubscribed(r)
  PROVE  MemInv' /\ MemStep
<1> DEFINE res == add_reader(seg[current], r)
           adds == r \notin known /\ current \in Shared
<1>1. /\ notices[r] # <<>> /\ notices' = [notices EXCEPT ![r] = Tail(@)]
      /\ seg' = IF adds THEN [seg EXCEPT ![current] = res.seg] ELSE seg
      /\ \/ sock' = sock /\ outstanding' = outstanding
         \/ adds /\ notify_readers(current, res.seg, {r})
      /\ known' = known \cup {r}
      /\ plan' = plan /\ announced' = announced /\ current' = current /\ old' = old
      /\ cleaned' = cleaned /\ failed' = failed /\ updates' = updates
      /\ commands' = commands /\ peeked' = peeked /\ batch' = batch /\ loading' = loading
      /\ alive' = alive /\ responses' = responses /\ auth' = auth /\ acks' = acks
  BY Zenon DEF ReaderSubscribed, builderVars
<1>2. r \in plan.readers /\ current \in Gens /\ current <= current /\ current \notin cleaned
  <2>1. current \in Gens /\ current <= current /\ ~(current < current)
    BY PlanFacts DEF MemInv, MainInv, Gens
  <2> QED
    BY Zenon, <1>1, <2>1 DEF MemInv, MainInv, LinkInv, Quiet
<1>3. Leaves(current, plan.readers, AllReaders(seg[current]) \cup {r}, res)
  BY Zenon, <1>2, LeavesReaders DEF MemInv, SegInv
<1> HIDE DEF res, adds
<1>4. /\ res.seg \in SegmentOf(current, plan.readers) /\ Calm(res.seg)
      /\ AllReaders(res.seg) = AllReaders(seg[current]) \cup {r}
  BY Zenon, <1>3 DEF Leaves
<1>5. MainInv'
  <2>1. known' \subseteq plan.readers
    BY <1>1, <1>2 DEF MemInv, MainInv
  <2> QED
    BY Zenon, <1>1, <2>1 DEF MemInv, MainInv
<1>6. /\ SegInv' /\ AllReaders(seg[current]) \subseteq AllReaders(seg'[current])
      /\ \A h \in Gens \ {current} : seg'[h] = seg[h]
      /\ adds => r \in AllReaders(seg'[current])
  <2>1. CASE adds
    <3>1. seg' = [seg EXCEPT ![current] = res.seg]
      BY Zenon, <1>1, <2>1
    <3>2. SegInv' /\ seg'[current] = res.seg /\ \A h \in Gens \ {current} : seg'[h] = seg[h]
      BY Zenon, <1>1, <1>2, <1>4, <3>1, SegStep DEF MemInv
    <3> QED
      BY <1>4, <3>2
  <2>2. CASE ~adds
    <3>1. seg' = seg
      BY Zenon, <1>1, <2>2
    <3> QED
      BY <1>1, <2>2, <3>1 DEF MemInv, SegInv
  <2> QED
    BY <2>1, <2>2
<1>7. responses' \in Seq(Expected(current)) /\ commands' \in Seq(Expected(current))
  BY Zenon, <1>1 DEF MemInv, PipeInv
<1>8. Tells /\ WaitInv'
  <2>1. CASE sock' = sock /\ outstanding' = outstanding
    BY Zenon, <1>1, <2>1, TellsNothing DEF MemInv, WaitInv, Shared
  <2>2. CASE adds /\ notify_readers(current, res.seg, {r})
    <3>1. /\ {r} \subseteq plan.readers /\ {r} \subseteq AllReaders(seg'[current])
          /\ current \notin cleaned' /\ current \in Shared
      BY <1>1, <1>2, <1>6, <2>2 DEF adds
    <3> QED
      BY Zenon, <1>1, <1>2, <2>2, <3>1, Notifies
  <2> QED
    BY <1>1, <2>1, <2>2
<1>9. Takes /\ Keeps
  BY Zenon, <1>1, <1>2, <1>6, TakesNotice, KeepsAll DEF MemInv
<1> QED
  BY Zenon, <1>1, <1>5, <1>6, <1>7, <1>8, <1>9, MainStep

LEMMA UnsubscribedStep ==
  ASSUME MemInv, NEW r \in Readers, ReaderUnsubscribed(r)
  PROVE  MemInv' /\ MemStep
<1> DEFINE raised == \E g \in old : cancel(g, r).raised
           done == {g \in old : ~cancel(g, r).raised /\ cancel(g, r).readers = {}}
           res == remove_reader(seg[current], r)
           goes == current \in Shared /\ ~raised
<1>1. /\ notices[r] # <<>> /\ Head(notices[r]) = "unsubscribed"
      /\ notices' = [notices EXCEPT ![r] = Tail(@)]
      /\ plan' = plan /\ announced' = announced /\ current' = current /\ failed' = failed
      /\ updates' = updates /\ peeked' = peeked /\ batch' = batch /\ loading' = loading
      /\ alive' = alive /\ responses' = responses /\ auth' = auth /\ sock' = sock
      /\ acks' = acks
  BY Zenon DEF ReaderUnsubscribed
<1>2. \/ UNCHANGED <<known, outstanding, seg, old, cleaned, commands>>
      \/ /\ known' = known \ {r}
         /\ outstanding' = [outstanding EXCEPT ![r] = [g \in Gens |-> 0]]
         /\ cleaned' = cleaned \cup done
         /\ old' = old \ done
         /\ seg' = [g \in Gens |->
              IF g \in old THEN cancel(g, r).seg
              ELSE IF g = current /\ g \in Shared /\ ~raised THEN res.seg ELSE seg[g]]
         /\ commands' = commands \o (IF goes THEN cmd_to_builder(res.cmd) ELSE <<>>)
  BY Zenon DEF ReaderUnsubscribed
<1>3. /\ responses' \in Seq(Expected(current)) /\ Tells /\ Takes
  BY Zenon, <1>1, TellsNothing, TakesNotice DEF MemInv, PipeInv
<1>4. /\ current \in Gens /\ current <= current /\ current \notin old
      /\ \A g \in old : g \in Gens
      /\ commands \in Seq(Expected(current))
  <2>1. current \in Gens /\ current <= current /\ ~(current < current)
    BY PlanFacts DEF MemInv, MainInv, Gens
  <2> QED
    BY Zenon, <2>1 DEF MemInv, MainInv, PipeInv
<1>5. CASE UNCHANGED <<known, outstanding, seg, old, cleaned, commands>>
  <2>1. /\ known' = known /\ outstanding' = outstanding /\ seg' = seg /\ old' = old
        /\ cleaned' = cleaned /\ commands' = commands
    BY Zenon, <1>5
  <2>2. MainInv' /\ SegInv' /\ WaitInv'
    BY Zenon, <1>1, <2>1 DEF MemInv, MainInv, SegInv, WaitInv, Shared
  <2>3. Keeps
    BY Zenon, <2>1 DEF Keeps
  <2> QED
    BY Zenon, <1>1, <1>3, <1>4, <2>1, <2>2, <2>3, MainStep
<1>6. CASE /\ known' = known \ {r}
           /\ outstanding' = [outstanding EXCEPT ![r] = [g \in Gens |-> 0]]
           /\ cleaned' = cleaned \cup done
           /\ old' = old \ done
           /\ seg' = [g \in Gens |->
                IF g \in old THEN cancel(g, r).seg
                ELSE IF g = current /\ g \in Shared /\ ~raised THEN res.seg ELSE seg[g]]
           /\ commands' = commands \o (IF goes THEN cmd_to_builder(res.cmd) ELSE <<>>)
  <2>1. \A g \in done : g \in old /\ cancel(g, r).readers = {}
    OBVIOUS
  <2>2. PICK A : /\ Leaves(current, plan.readers, A, res)
                 /\ AllReaders(seg[current]) \ {r} \subseteq A
    BY Zenon, <1>4, RemoveLeaves DEF MemInv, SegInv
  <2>3. \A g \in Gens : seg'[g] =
          IF g \in old THEN cancel(g, r).seg ELSE IF g = current /\ goes THEN res.seg ELSE seg[g]
    BY Zenon, <1>6
  <2> HIDE DEF done, goes, res
  <2>4. /\ res.seg \in SegmentOf(current, plan.readers) /\ Calm(res.seg)
        /\ AllReaders(res.seg) = A /\ res.cmd \in EventsOf(current) \cup {None}
    BY Zenon, <2>2 DEF Leaves
  <2>5. ASSUME NEW g \in Gens
        PROVE  /\ seg'[g] \in SegmentOf(g, plan.readers) /\ Calm(seg'[g])
               /\ AllReaders(seg[g]) \ {r} \subseteq AllReaders(seg'[g])
    <3>1. CASE g \in old
      <4>1. seg'[g] = cancel(g, r).seg
        BY Zenon, <2>3, <3>1
      <4> QED
        BY Zenon, <4>1, CancelFacts
    <3>2. CASE g = current /\ goes
      <4>1. seg'[g] = res.seg
        BY Zenon, <1>4, <2>3, <3>2
      <4> QED
        BY Zenon, <2>2, <2>4, <3>2, <4>1
    <3>3. CASE g \notin old /\ ~(g = current /\ goes)
      <4>1. seg'[g] = seg[g]
        BY Zenon, <2>3, <3>3
      <4> QED
        BY <4>1 DEF MemInv, SegInv
    <3> QED
      BY <3>1, <3>2, <3>3
  <2>6. MainInv'
    <3>1. known' \subseteq plan.readers /\ \A h \in old' \cup cleaned' : h \in old \cup cleaned
      BY <1>6, <2>1 DEF MemInv, MainInv
    <3> QED
      BY Zenon, <1>1, <3>1 DEF MemInv, MainInv
  <2>7. SegInv'
    <3>1. \A g \in Gens : seg'[g] \in SegmentType
      BY Zenon, <2>5, SegmentTypes, PlanFacts DEF MemInv, MainInv
    <3>2. seg' \in [Gens -> SegmentType]
      BY Zenon, <1>6, <3>1
    <3> QED
      BY Zenon, <1>1, <2>5, <3>2 DEF SegInv
  <2>8. WaitInv'
    <3>1. outstanding' \in [Readers -> [Gens -> Nat]]
      BY <1>6 DEF MemInv, WaitInv
    <3>2. \A x \in Readers, h \in Gens : outstanding'[x][h] > 0 => outstanding[x][h] > 0
      BY <1>6 DEF MemInv, WaitInv
    <3> QED
      BY Zenon, <1>1, <3>1, <3>2 DEF MemInv, WaitInv, Shared
  <2>9. commands' \in Seq(Expected(current))
    <3>1. CASE goes
      BY Zenon, <1>4, <1>6, <2>4, <3>1, CommandsGiven DEF MemInv, goes
    <3>2. CASE ~goes
      <4>1. commands' = commands \o <<>>
        BY Zenon, <1>6, <3>2
      <4>2. commands' = commands
        BY <1>4, <4>1
      <4> QED
        BY Zenon, <1>4, <4>2
    <3> QED
      BY <3>1, <3>2
  <2>10. Keeps
    <3> SUFFICES ASSUME NEW x \in Readers, NEW h \in Shared, x \in AllReaders(seg[h]),
                        h \notin cleaned, x # r
                 PROVE  x \in AllReaders(seg'[h]) /\ h \notin cleaned'
      BY Zenon, <1>1 DEF Keeps
    <3>1. h \in Gens
      BY PlanFacts DEF MemInv, MainInv
    <3>2. x \in AllReaders(seg'[h])
      BY <2>5, <3>1
    <3>3. h \notin done
      <4> SUFFICES ASSUME h \in done PROVE FALSE
        OBVIOUS
      <4>1. seg'[h] = cancel(h, r).seg /\ cancel(h, r).readers = {}
        BY Zenon, <2>1, <2>3, <3>1
      <4>2. cancel(h, r).readers = AllReaders(cancel(h, r).seg)
        BY Zenon, <3>1, CancelFacts
      <4> QED
        BY <3>2, <4>1, <4>2
    <3> QED
      BY <1>6, <3>2, <3>3
  <2> QED
    BY Zenon, <1>1, <1>3, <2>6, <2>7, <2>8, <2>9, <2>10, MainStep
<1> QED
  BY Zenon, <1>2, <1>5, <1>6

LEMMA MemmgrStep ==
  ASSUME MemInv, MainNext \/ BuilderNext
  PROVE  MemInv' /\ MemStep
BY Zenon, BuilderStep, ConfigStep, CompletedStep, CancelStep, ZoneStep, UpdateAckStep,
   ReleaseAckStep, SubscribedStep, UnsubscribedStep DEF MainNext

-----------------------------------------------------------------------------
(* The messages ahead of a bundy-auth. *)

Elems(q) == {q[i] : i \in 1..Len(q)}

LEMMA ElemsIn ==
  ASSUME NEW S, NEW q \in Seq(S)
  PROVE  Elems(q) \subseteq S
BY DEF Elems

(* p is q without its element at k. *)
Without(q, k, p) ==
  /\ k \in 1..Len(q) /\ Len(p) = Len(q) - 1
  /\ \A i \in 1..Len(p) : p[i] = IF i < k THEN q[i] ELSE q[i + 1]

(* The configurations in p are announced in order; they are later than t,  *)
(* up to n.                                                                *)
Configs(t, n, p) ==
  /\ \A i \in 1..Len(p) : p[i].op = "config" => t < p[i].gen /\ p[i].gen <= n
  /\ \A i, j \in 1..Len(p) :
       i < j /\ p[i].op = "config" /\ p[j].op = "config" => p[i].gen < p[j].gen

(* A generation is to be released only when a later one has arrived, or    *)
(* is ahead of the release.                                                *)
Releases(t, p) == \A i \in 1..Len(p) : p[i].op = "release" =>
  t > p[i].gen \/ \E j \in 1..(i - 1) : p[j].op = "config" /\ p[j].gen > p[i].gen

LEMMA Appended ==
  ASSUME NEW S, NEW q \in Seq(S), NEW m \in S
  PROVE  /\ Append(q, m) \in Seq(S) /\ Len(Append(q, m)) = Len(q) + 1 /\ Len(q) \in Nat
         /\ Append(q, m)[Len(q) + 1] = m /\ \A i \in 1..Len(q) : Append(q, m)[i] = q[i]
         /\ Elems(Append(q, m)) = Elems(q) \cup {m}
<1>1. /\ Append(q, m) \in Seq(S) /\ Len(Append(q, m)) = Len(q) + 1 /\ Len(q) \in Nat
      /\ Append(q, m)[Len(q) + 1] = m /\ \A i \in 1..Len(q) : Append(q, m)[i] = q[i]
  OBVIOUS
<1>2. Elems(Append(q, m)) = Elems(q) \cup {m}
  BY <1>1 DEF Elems
<1> QED
  BY <1>1, <1>2

LEMMA Removed ==
  ASSUME NEW S, NEW q \in Seq(S), NEW p, NEW k, Without(q, k, p)
  PROVE  /\ Elems(p) \subseteq Elems(q) /\ Elems(q) \subseteq Elems(p) \cup {q[k]}
<1>1. Len(q) \in Nat /\ k \in 1..Len(q) /\ Len(p) = Len(q) - 1
  BY DEF Without
<1>2. \A i \in 1..Len(p) : p[i] = IF i < k THEN q[i] ELSE q[i + 1]
  BY DEF Without
<1>3. Elems(p) \subseteq Elems(q)
  BY <1>1, <1>2 DEF Elems
<1>4. ASSUME NEW i \in 1..Len(q), i # k PROVE q[i] \in Elems(p)
  <2>1. CASE i < k
    BY <1>1, <1>2, <2>1 DEF Elems
  <2>2. CASE i > k
    <3>1. i - 1 \in 1..Len(p) /\ p[i - 1] = q[i]
      BY <1>1, <1>2, <2>2
    <3> QED
      BY <3>1 DEF Elems
  <2> QED
    BY <1>1, <1>4, <2>1, <2>2
<1> QED
  BY Zenon, <1>3, <1>4 DEF Elems

LEMMA TailIsWithout ==
  ASSUME NEW S, NEW q \in Seq(S), q # <<>>
  PROVE  /\ Without(q, 1, Tail(q)) /\ Tail(q) \in Seq(S)
         /\ Head(q) = q[1] /\ Head(q) \in S /\ Head(q) \in Elems(q)
<1>1. /\ Len(q) \in Nat /\ Len(q) # 0 /\ Len(Tail(q)) = Len(q) - 1 /\ Tail(q) \in Seq(S)
      /\ Head(q) = q[1] /\ Head(q) \in S /\ \A i \in 1..Len(Tail(q)) : Tail(q)[i] = q[i + 1]
  OBVIOUS
<1> QED
  BY <1>1 DEF Without, Elems

LEMMA ConfigsAppend ==
  ASSUME NEW q \in Seq(Messages), NEW m \in Messages, NEW t \in Nat, NEW n \in Nat,
         Configs(t, n, q)
  PROVE  /\ m.op # "config" => Configs(t, n, Append(q, m))
         /\ m.op = "config" /\ m.gen = n + 1 /\ t <= n => Configs(t, n + 1, Append(q, m))
<1> DEFINE p == Append(q, m)
<1>1. /\ Len(p) = Len(q) + 1 /\ Len(q) \in Nat /\ p[Len(q) + 1] = m
      /\ \A i \in 1..Len(q) : p[i] = q[i]
  BY Appended
<1> HIDE DEF p
<1>2. \A i \in 1..Len(p) : i \in 1..Len(q) \/ i = Len(q) + 1
  BY <1>1
<1>3. \A i \in 1..Len(q) : q[i] \in Messages /\ q[i].gen \in Nat
  <2>1. \A x \in Messages : x.gen \in Gens
    BY Zenon DEF Messages
  <2> QED
    BY <2>1 DEF Gens
<1>4. \A i, j \in 1..Len(p) : i < j => i \in 1..Len(q)
  BY <1>1
<1>5. m.op # "config" => Configs(t, n, p)
  BY Zenon, <1>1, <1>2, <1>4 DEF Configs
<1>6. ASSUME m.op = "config", m.gen = n + 1, t <= n PROVE Configs(t, n + 1, p)
  <2>1. \A i \in 1..Len(q) : q[i].op = "config" =>
           t < q[i].gen /\ q[i].gen <= n + 1 /\ q[i].gen < n + 1
    BY <1>3 DEF Configs
  <2>2. t < n + 1 /\ n + 1 <= n + 1
    BY <1>6
  <2> QED
    BY Zenon, <1>1, <1>2, <1>4, <1>6, <2>1, <2>2 DEF Configs
<1> QED
  BY <1>5, <1>6 DEF p

LEMMA ConfigsWithout ==
  ASSUME NEW q \in Seq(Messages), NEW t, NEW n, NEW p, NEW k, Without(q, k, p), Configs(t, n, q)
  PROVE  /\ Configs(t, n, p)
         /\ k = 1 /\ q[1].op = "config" => t < q[1].gen /\ q[1].gen <= n /\ Configs(q[1].gen, n, p)
<1>1. /\ Len(q) \in Nat /\ k \in 1..Len(q) /\ Len(p) = Len(q) - 1
      /\ \A i \in 1..Len(p) : p[i] = IF i < k THEN q[i] ELSE q[i + 1]
  BY DEF Without
<1> DEFINE f(i) == IF i < k THEN i ELSE i + 1
<1>2. \A i \in 1..Len(p) : f(i) \in 1..Len(q) /\ p[i] = q[f(i)]
  BY <1>1
<1>3. \A i, j \in 1..Len(p) : i < j => f(i) < f(j)
  BY <1>1
<1>4. 1 \in 1..Len(q) /\ \A i \in 1..Len(p) : k = 1 => 1 < f(i)
  BY <1>1
<1> HIDE DEF f
<1>5. Configs(t, n, p)
  BY Zenon, <1>2, <1>3 DEF Configs
<1> QED
  BY Zenon, <1>2, <1>4, <1>5 DEF Configs

LEMMA ReleasesAppend ==
  ASSUME NEW q \in Seq(Messages), NEW m \in Messages, NEW t, Releases(t, q),
         m.op = "release" => \/ t > m.gen
                             \/ \E c \in Elems(q) : c.op = "config" /\ c.gen > m.gen
  PROVE  Releases(t, Append(q, m))
<1> DEFINE p == Append(q, m)
<1>1. /\ Len(p) = Len(q) + 1 /\ Len(q) \in Nat /\ p[Len(q) + 1] = m
      /\ \A i \in 1..Len(q) : p[i] = q[i]
  BY Appended
<1> HIDE DEF p
<1>2. /\ \A i \in 1..Len(p) : i \in 1..Len(q) \/ i = Len(q) + 1
      /\ \A i \in 1..Len(q) : \A j \in 1..(i - 1) : j \in 1..Len(q)
      /\ \A j \in 1..Len(q) : j \in 1..((Len(q) + 1) - 1)
  BY <1>1
<1>3. ASSUME NEW i \in 1..Len(q), p[i].op = "release"
      PROVE  t > p[i].gen \/ \E j \in 1..(i - 1) : p[j].op = "config" /\ p[j].gen > p[i].gen
  <2>1. CASE t > q[i].gen
    BY Zenon, <1>1, <2>1
  <2>2. ASSUME NEW j \in 1..(i - 1), q[j].op = "config", q[j].gen > q[i].gen
        PROVE  \E x \in 1..(i - 1) : p[x].op = "config" /\ p[x].gen > p[i].gen
    BY Zenon, <1>1, <1>2, <2>2
  <2> QED
    BY Zenon, <1>1, <1>3, <2>1, <2>2 DEF Releases
<1>4. ASSUME m.op = "release"
      PROVE  t > m.gen \/ \E j \in 1..((Len(q) + 1) - 1) : p[j].op = "config" /\ p[j].gen > m.gen
  <2>1. CASE t > m.gen
    BY <2>1
  <2>2. ASSUME NEW j \in 1..Len(q), q[j].op = "config", q[j].gen > m.gen
        PROVE  \E x \in 1..((Len(q) + 1) - 1) : p[x].op = "config" /\ p[x].gen > m.gen
    BY Zenon, <1>1, <1>2, <2>2
  <2> QED
    BY Zenon, <1>4, <2>1, <2>2 DEF Elems
<1>5. Releases(t, p)
  BY Zenon, <1>1, <1>2, <1>3, <1>4 DEF Releases
<1> QED
  BY Zenon, <1>5 DEF p

LEMMA NatOrder ==
  /\ \A x, y \in Nat : x <= y /\ y <= x => x = y
  /\ \A x, y, z \in Nat : x <= y /\ y < z => x < z
  /\ \A x \in Nat : x <= x
OBVIOUS

LEMMA ReleasesWithout ==
  ASSUME NEW q \in Seq(Messages), NEW t \in Nat, NEW p, NEW k, Without(q, k, p), Releases(t, q)
  PROVE  /\ q[k].op # "config" => Releases(t, p)
         /\ k = 1 /\ q[1].op = "config" /\ t < q[1].gen => Releases(q[1].gen, p)
         /\ k = 1 /\ q[1].op = "release" => t > q[1].gen
<1>1. /\ Len(q) \in Nat /\ k \in 1..Len(q) /\ Len(p) = Len(q) - 1
      /\ \A i \in 1..Len(p) : p[i] = IF i < k THEN q[i] ELSE q[i + 1]
  BY DEF Without
<1> DEFINE f(i) == IF i < k THEN i ELSE i + 1
<1>2. \A i \in 1..Len(p) : f(i) \in 1..Len(q) /\ p[i] = q[f(i)]
  BY <1>1
<1>3. \A i \in 1..Len(p) : \A j \in 1..(f(i) - 1) : j = k \/ \E x \in 1..(i - 1) : f(x) = j /\ p[x] = q[j]
  <2> TAKE i \in 1..Len(p)
  <2> TAKE j \in 1..(f(i) - 1)
  <2>1. CASE j < k
    <3>1. j \in 1..(i - 1) /\ f(j) = j /\ j \in 1..Len(p)
      BY <1>1, <2>1
    <3> QED
      BY <1>2, <3>1
  <2>2. CASE j > k
    <3>1. j - 1 \in 1..(i - 1) /\ f(j - 1) = j /\ j - 1 \in 1..Len(p)
      BY <1>1, <2>2
    <3> QED
      BY Zenon, <1>2, <3>1
  <2> QED
    BY <1>1, <2>1, <2>2
<1>4. \A x \in Messages : x.gen \in Nat
  <2>1. \A x \in Messages : x.gen \in Gens
    BY Zenon DEF Messages
  <2> QED
    BY <2>1 DEF Gens
<1>5. \A i \in 1..Len(q) : q[i] \in Messages
  OBVIOUS
<1>6. 1 \in 1..Len(q) /\ \A j \in 1..(1 - 1) : FALSE
  BY <1>1
<1> HIDE DEF f
<1>7. ASSUME q[k].op # "config" PROVE Releases(t, p)
  <2> SUFFICES ASSUME NEW i \in 1..Len(p), p[i].op = "release"
               PROVE  \/ t > p[i].gen
                      \/ \E j \in 1..(i - 1) : p[j].op = "config" /\ p[j].gen > p[i].gen
    BY Zenon DEF Releases
  <2>1. ASSUME NEW j \in 1..(f(i) - 1), q[j].op = "config", q[j].gen > q[f(i)].gen
        PROVE  \E x \in 1..(i - 1) : p[x].op = "config" /\ p[x].gen > p[i].gen
    BY Zenon, <1>2, <1>3, <1>7, <2>1
  <2> QED
    BY Zenon, <1>2, <2>1 DEF Releases
<1>8. ASSUME k = 1, q[1].op = "config", t < q[1].gen PROVE Releases(q[1].gen, p)
  <2> SUFFICES ASSUME NEW i \in 1..Len(p), p[i].op = "release"
               PROVE  \/ q[1].gen > p[i].gen
                      \/ \E j \in 1..(i - 1) : p[j].op = "config" /\ p[j].gen > p[i].gen
    BY Zenon DEF Releases
  <2>1. CASE t > p[i].gen
    <3>1. p[i].gen \in Nat /\ q[1].gen \in Nat
      BY Zenon, <1>2, <1>4, <1>5, <1>6
    <3>2. q[1].gen > p[i].gen
      BY <1>8, <2>1, <3>1
    <3> QED
      BY Zenon, <3>2
  <2>2. CASE \E j \in 1..(f(i) - 1) : q[j].op = "config" /\ q[j].gen > q[f(i)].gen
    BY ZenonT(60), <1>2, <1>3, <1>8, <2>2
  <2> QED
    BY Zenon, <1>2, <2>1, <2>2 DEF Releases
<1> QED
  BY Zenon, <1>6, <1>7, <1>8 DEF Releases

-----------------------------------------------------------------------------
(* The steps of the bundy-auth processes. *)

Remote(b) == [op |-> "reconfigured", remote |-> b]
ReleaseAck(g) == [op |-> "release_ack", gen |-> g]

(* What installClientsMap() leaves of the callbacks. *)
Released(a) == IF a.release = 0 THEN a.callbacks ELSE Append(a.callbacks, ReleaseAck(a.release))

(* What handling message m makes of a bundy-auth, a before and b after.    *)
(* It waits for the segment of a new generation;                           *)
Waits(a, m, b) ==
  /\ m.op = "config" /\ m.gen \in Shared
  /\ b.gen_id = a.gen_id /\ b.mapped = a.mapped /\ b.pending = m.gen /\ b.release = a.release
  /\ b.callbacks = Append(a.callbacks, Remote(TRUE)) /\ b.running = a.running

(* installs one that needs no segment; *)
Installs(a, m, b) ==
  /\ m.op = "config" /\ m.gen \notin Shared
  /\ b.gen_id = m.gen /\ b.mapped = FALSE /\ b.pending = 0 /\ b.release = 0
  /\ b.callbacks = Append(Released(a), Remote(FALSE)) /\ b.running = a.running

(* switches to the one it waits for; *)
Switches(a, m, b) ==
  /\ m.op = "update" /\ m.gen = a.pending /\ m.gen \notin cleaned
  /\ b.gen_id = a.pending /\ b.mapped = (a.pending \in Shared) /\ b.pending = 0
  /\ b.release = 0 /\ b.running = a.running
  /\ b.callbacks = Append(Released(a), [op |-> "update_ack", gen |-> m.gen])

(* or stays where it is: it rejects a configuration, does not find a file, *)
(* answers, or has to answer later.                                        *)
Remains(a, m, b) ==
  /\ b.gen_id = a.gen_id /\ b.mapped = a.mapped /\ b.pending = a.pending
  /\ \/ /\ plan.rejects /\ m.op = "config" /\ b.callbacks = Append(a.callbacks, Remote(FALSE))
        /\ b.release = a.release /\ b.running = a.running
     \/ /\ m.op = "update" /\ m.gen \in cleaned /\ (m.gen = a.gen_id \/ m.gen = a.pending)
        /\ b.callbacks = a.callbacks /\ b.release = a.release
     \/ /\ m.op = "update" /\ b.release = a.release /\ b.running = a.running
        /\ b.callbacks = Append(a.callbacks, [op |-> "update_ack", gen |-> m.gen])
     \/ /\ m.op = "release" /\ m.gen # a.gen_id /\ b.release = a.release
        /\ b.callbacks = Append(a.callbacks, ReleaseAck(m.gen)) /\ b.running = a.running
     \/ /\ m.op = "release" /\ m.gen = a.gen_id /\ b.release = a.gen_id
        /\ b.callbacks = a.callbacks /\ b.running = a.running

Handled(a, m, b) ==
  /\ b \in AuthType /\ b.queue = Tail(a.queue) /\ b.subscribed = a.subscribed
  /\ Waits(a, m, b) \/ Installs(a, m, b) \/ Switches(a, m, b) \/ Remains(a, m, b)

LEMMA CallbackTypes ==
  ASSUME NEW g \in Gens, NEW q \in Seq(Callbacks)
  PROVE  /\ \A b \in BOOLEAN : Remote(b) \in Callbacks /\ Append(q, Remote(b)) \in Seq(Callbacks)
         /\ ReleaseAck(g) \in Callbacks /\ Append(q, ReleaseAck(g)) \in Seq(Callbacks)
         /\ [op |-> "update_ack", gen |-> g] \in Callbacks
         /\ Append(q, [op |-> "update_ack", gen |-> g]) \in Seq(Callbacks)
<1>1. /\ \A b \in BOOLEAN : Remote(b) \in Callbacks
      /\ ReleaseAck(g) \in Callbacks /\ [op |-> "update_ack", gen |-> g] \in Callbacks
  BY DEF Callbacks, Acks, Remote, ReleaseAck
<1> QED
  BY <1>1

LEMMA ReleasedType ==
  ASSUME NEW a \in AuthType
  PROVE  Released(a) \in Seq(Callbacks)
<1>1. a.release \in Gens \cup {0} /\ a.callbacks \in Seq(Callbacks)
  BY Zenon DEF AuthType
<1> QED
  BY Zenon, <1>1, CallbackTypes DEF Released

LEMMA InstallFacts ==
  ASSUME NEW a \in AuthType
  PROVE  LET i == installClientsMap(a)
         IN  /\ i \in AuthType /\ i.queue = a.queue /\ i.subscribed = a.subscribed
             /\ i.gen_id = a.pending /\ i.mapped = (a.pending \in Shared) /\ i.pending = 0
             /\ i.release = 0 /\ i.callbacks = Released(a) /\ i.running = a.running
<1>1. Released(a) \in Seq(Callbacks)
  BY Zenon, ReleasedType
<1>2. installClientsMap(a) = [a EXCEPT !.gen_id = a.pending, !.mapped = a.pending \in Shared,
                                       !.pending = 0, !.callbacks = Released(a), !.release = 0]
  BY Zenon DEF installClientsMap, Released, ReleaseAck
<1>3. a.pending \in Gens \cup {0} /\ 0 \in Gens \cup {0}
  BY Zenon DEF AuthType
<1>4. (a.pending \in Shared) \in BOOLEAN
  OBVIOUS
<1> QED
  BY Zenon, <1>1, <1>2, <1>3, <1>4 DEF AuthType

LEMMA ReconfigureHandled ==
  ASSUME NEW a \in AuthType, NEW q \in Seq(Messages), q = Tail(a.queue),
         NEW m \in Messages, m.op = "config"
  PROVE  /\ Handled(a, m, doReconfigure([a EXCEPT !.queue = q], m.gen))
         /\ plan.rejects => Handled(a, m, doReconfigureFails([a EXCEPT !.queue = q]))
<1> DEFINE p == [a EXCEPT !.queue = q, !.pending = m.gen]
<1>1. m.gen \in Gens /\ m.gen \in Gens \cup {0}
  BY Zenon DEF Messages
<1>2. /\ p \in AuthType /\ p.queue = q /\ p.pending = m.gen /\ p.gen_id = a.gen_id
      /\ p.mapped = a.mapped /\ p.release = a.release /\ p.callbacks = a.callbacks
      /\ p.subscribed = a.subscribed /\ p.running = a.running
  BY Zenon, <1>1 DEF AuthType
<1>3. [[a EXCEPT !.queue = q] EXCEPT !.pending = m.gen] = p
  BY Zenon
<1>4. \A b \in BOOLEAN : Append(a.callbacks, Remote(b)) \in Seq(Callbacks)
  BY Zenon, <1>1, CallbackTypes DEF AuthType
<1> HIDE DEF p
<1>5. ASSUME m.gen \in Shared PROVE Handled(a, m, doReconfigure([a EXCEPT !.queue = q], m.gen))
  <2>1. doReconfigure([a EXCEPT !.queue = q], m.gen)
          = [p EXCEPT !.callbacks = Append(p.callbacks, Remote(TRUE))]
    BY Zenon, <1>3, <1>5 DEF doReconfigure, Remote
  <2> DEFINE b == [p EXCEPT !.callbacks = Append(p.callbacks, Remote(TRUE))]
  <2>2. b \in AuthType /\ b.queue = q /\ b.subscribed = a.subscribed
    BY Zenon, <1>2, <1>4 DEF AuthType
  <2>3. Waits(a, m, b)
    BY Zenon, <1>2, <1>5 DEF AuthType, Waits
  <2> HIDE DEF b
  <2>4. Handled(a, m, b)
    BY Zenon, <2>2, <2>3 DEF Handled
  <2> QED
    BY Zenon, <2>1, <2>4 DEF b
<1>6. ASSUME m.gen \notin Shared PROVE Handled(a, m, doReconfigure([a EXCEPT !.queue = q], m.gen))
  <2> DEFINE i == installClientsMap(p)
             b == [i EXCEPT !.callbacks = Append(i.callbacks, Remote(FALSE))]
  <2>1. doReconfigure([a EXCEPT !.queue = q], m.gen) = b
    BY Zenon, <1>3, <1>6 DEF doReconfigure, Remote
  <2>2. /\ i \in AuthType /\ i.queue = q /\ i.subscribed = a.subscribed
        /\ i.gen_id = m.gen /\ i.mapped = FALSE /\ i.pending = 0
        /\ i.release = 0 /\ i.callbacks = Released(p) /\ i.running = a.running
    <3>1. (m.gen \in Shared) = FALSE
      BY <1>6
    <3> QED
      BY Zenon, <1>2, <3>1, InstallFacts
  <2> HIDE DEF i
  <2>3. Released(p) = Released(a)
    BY Zenon, <1>2 DEF Released
  <2>4. Append(Released(a), Remote(FALSE)) \in Seq(Callbacks)
    BY Zenon, <1>1, ReleasedType, CallbackTypes
  <2>5. b \in AuthType /\ b.queue = q /\ b.subscribed = a.subscribed
    BY Zenon, <2>2, <2>3, <2>4 DEF AuthType
  <2>6. Installs(a, m, b)
    BY Zenon, <1>6, <2>2, <2>3 DEF AuthType, Installs
  <2> HIDE DEF b
  <2>7. Handled(a, m, b)
    BY Zenon, <2>5, <2>6 DEF Handled
  <2> QED
    BY Zenon, <2>1, <2>7
<1>7. ASSUME plan.rejects PROVE Handled(a, m, doReconfigureFails([a EXCEPT !.queue = q]))
  <2> DEFINE b == [a EXCEPT !.queue = q, !.callbacks = Append(a.callbacks, Remote(FALSE))]
  <2>1. doReconfigureFails([a EXCEPT !.queue = q]) = b
    BY Zenon DEF doReconfigureFails, Remote, AuthType
  <2>2. b \in AuthType /\ b.queue = q /\ b.subscribed = a.subscribed
    BY Zenon, <1>4 DEF AuthType
  <2>3. Remains(a, m, b)
    BY Zenon, <1>7 DEF AuthType, Remains
  <2> HIDE DEF b
  <2>4. Handled(a, m, b)
    BY Zenon, <2>2, <2>3 DEF Handled
  <2> QED
    BY Zenon, <2>1, <2>4
<1> QED
  BY Zenon, <1>5, <1>6, <1>7

LEMMA UpdateHandled ==
  ASSUME NEW a \in AuthType, NEW q \in Seq(Messages), q = Tail(a.queue),
         NEW m \in Messages, m.op = "update"
  PROVE  Handled(a, m, doSegmentUpdate([a EXCEPT !.queue = q], m))
<1> DEFINE p == [a EXCEPT !.queue = q]
           u == [op |-> "update_ack", gen |-> m.gen]
           ack(b) == [b EXCEPT !.callbacks = Append(b.callbacks, u)]
           b == doSegmentUpdate(p, m)
<1>1. m.gen \in Gens
  BY Zenon DEF Messages
<1>2. /\ p \in AuthType /\ p.queue = q /\ p.pending = a.pending /\ p.gen_id = a.gen_id
      /\ p.mapped = a.mapped /\ p.release = a.release /\ p.callbacks = a.callbacks
      /\ p.subscribed = a.subscribed /\ p.running = a.running
  BY Zenon DEF AuthType
<1> HIDE DEF p
<1>3. \/ (m.gen = p.gen_id \/ m.gen = p.pending) /\ m.gen \in cleaned /\ b = [p EXCEPT !.running = FALSE]
      \/ m.gen = p.pending /\ m.gen \notin cleaned /\ b = ack(installClientsMap(p))
      \/ b = ack(p)
  BY SMTT(30) DEF doSegmentUpdate
<1>4. Append(a.callbacks, u) \in Seq(Callbacks) /\ Append(Released(a), u) \in Seq(Callbacks)
  BY Zenon, <1>1, ReleasedType, CallbackTypes DEF AuthType
<1>5. Released(p) = Released(a)
  BY Zenon, <1>2 DEF Released
<1> HIDE DEF b
<1>6. ASSUME m.gen = p.gen_id \/ m.gen = p.pending, m.gen \in cleaned, b = [p EXCEPT !.running = FALSE]
      PROVE  Handled(a, m, b)
  <2>1. b \in AuthType /\ b.queue = q /\ b.subscribed = a.subscribed
    BY Zenon, <1>2, <1>6 DEF AuthType
  <2>2. Remains(a, m, b)
    BY Zenon, <1>2, <1>6 DEF AuthType, Remains
  <2> QED
    BY Zenon, <2>1, <2>2 DEF Handled
<1>7. ASSUME m.gen = p.pending, m.gen \notin cleaned, b = ack(installClientsMap(p))
      PROVE  Handled(a, m, b)
  <2> DEFINE i == installClientsMap(p)
  <2>1. /\ i \in AuthType /\ i.queue = q /\ i.subscribed = a.subscribed
        /\ i.gen_id = a.pending /\ i.mapped = (a.pending \in Shared) /\ i.pending = 0
        /\ i.release = 0 /\ i.callbacks = Released(a) /\ i.running = a.running
    BY Zenon, <1>2, <1>5, InstallFacts
  <2>2. b = [i EXCEPT !.callbacks = Append(i.callbacks, u)]
    BY Zenon, <1>7
  <2> HIDE DEF i
  <2>3. b \in AuthType /\ b.queue = q /\ b.subscribed = a.subscribed
    BY Zenon, <1>4, <2>1, <2>2 DEF AuthType
  <2>4. Switches(a, m, b)
    BY Zenon, <1>2, <1>7, <2>1, <2>2 DEF AuthType, Switches
  <2> QED
    BY Zenon, <2>3, <2>4 DEF Handled
<1>8. ASSUME b = ack(p) PROVE Handled(a, m, b)
  <2>1. b \in AuthType /\ b.queue = q /\ b.subscribed = a.subscribed
    BY Zenon, <1>2, <1>4, <1>8 DEF AuthType
  <2>2. Remains(a, m, b)
    BY Zenon, <1>2, <1>8 DEF AuthType, Remains
  <2> QED
    BY Zenon, <2>1, <2>2 DEF Handled
<1> QED
  BY Zenon, <1>3, <1>6, <1>7, <1>8 DEF b, p

LEMMA ReleaseHandled ==
  ASSUME NEW a \in AuthType, NEW q \in Seq(Messages), q = Tail(a.queue),
         NEW m \in Messages, m.op = "release"
  PROVE  Handled(a, m, doReleaseSegments([a EXCEPT !.queue = q], m.gen))
<1> DEFINE b == doReleaseSegments([a EXCEPT !.queue = q], m.gen)
<1>1. m.gen \in Gens /\ m.gen \in Gens \cup {0}
  BY Zenon DEF Messages
<1>2. Append(a.callbacks, ReleaseAck(m.gen)) \in Seq(Callbacks)
  BY Zenon, <1>1, CallbackTypes DEF AuthType
<1>3. b = IF m.gen = a.gen_id THEN [a EXCEPT !.queue = q, !.release = m.gen]
          ELSE [a EXCEPT !.queue = q, !.callbacks = Append(a.callbacks, ReleaseAck(m.gen))]
  BY Zenon DEF doReleaseSegments, ReleaseAck, AuthType
<1> HIDE DEF b
<1>4. b \in AuthType /\ b.queue = q /\ b.subscribed = a.subscribed
  BY Zenon, <1>1, <1>2, <1>3 DEF AuthType
<1>5. ASSUME m.gen = a.gen_id PROVE Remains(a, m, b)
  BY Zenon, <1>3, <1>5 DEF AuthType, Remains
<1>6. ASSUME m.gen # a.gen_id PROVE Remains(a, m, b)
  BY Zenon, <1>3, <1>6 DEF AuthType, Remains
<1>7. Handled(a, m, b)
  BY Zenon, <1>4, <1>5, <1>6 DEF Handled
<1> QED
  BY Zenon, <1>7 DEF b

(* handleCommand() *)
LEMMA HandleFacts ==
  ASSUME LinkInv, NEW r \in Readers, AuthHandleCommand(r)
  PROVE  /\ auth[r].running /\ auth[r].queue # <<>> /\ auth' \in [Readers -> AuthType]
         /\ Handled(auth[r], Head(auth[r].queue), auth'[r])
         /\ \A s \in Readers \ {r} : auth'[s] = auth[s]
         /\ UNCHANGED <<plan, announced, mainVars, builderVars, channelVars>>
<1> DEFINE a == auth[r]
           m == Head(a.queue)
           q == Tail(a.queue)
           e == [a EXCEPT !.queue = q]
<1>1. a.running /\ a.queue # <<>> /\ UNCHANGED <<plan, announced, mainVars, builderVars, channelVars>>
  BY Zenon DEF AuthHandleCommand
<1>2. PICK b \in CASE m.op = "config" -> {doReconfigure(e, m.gen)} \cup
                        (IF plan.rejects THEN {doReconfigureFails(e)} ELSE {})
                   [] m.op = "update" -> {doSegmentUpdate(e, m)}
                   [] m.op = "release" -> {doReleaseSegments(e, m.gen)} :
           auth' = [auth EXCEPT ![r] = b]
  BY Zenon DEF AuthHandleCommand
<1>3. a \in AuthType /\ auth \in [Readers -> AuthType]
  BY Zenon DEF LinkInv
<1>4. a.queue \in Seq(Messages)
  BY Zenon, <1>3 DEF AuthType
<1>5. m \in Messages /\ q \in Seq(Messages)
  BY Zenon, <1>1, <1>4, TailIsWithout
<1>6. m.op = "config" \/ m.op = "update" \/ m.op = "release"
  BY <1>5 DEF Messages
<1> HIDE DEF m, q, a
<1>7. Handled(a, m, b)
  <2>1. CASE m.op = "config"
    <3>1. b = doReconfigure(e, m.gen) \/ (plan.rejects /\ b = doReconfigureFails(e))
      BY <1>2, <2>1
    <3> QED
      BY Zenon, <1>3, <1>5, <2>1, <3>1, ReconfigureHandled DEF q
  <2>2. CASE m.op = "update"
    <3>1. b = doSegmentUpdate(e, m)
      BY <1>2, <2>2
    <3> QED
      BY Zenon, <1>3, <1>5, <2>2, <3>1, UpdateHandled DEF q
  <2>3. CASE m.op = "release"
    <3>1. b = doReleaseSegments(e, m.gen)
      BY <1>2, <2>3
    <3> QED
      BY Zenon, <1>3, <1>5, <2>3, <3>1, ReleaseHandled DEF q
  <2> QED
    BY Zenon, <1>6, <2>1, <2>2, <2>3
<1>8. b \in AuthType
  BY Zenon, <1>7 DEF Handled
<1>9. auth' \in [Readers -> AuthType] /\ auth'[r] = b /\ \A s \in Readers \ {r} : auth'[s] = auth[s]
  BY Zenon, <1>2, <1>3, <1>8
<1> QED
  BY Zenon, <1>1, <1>7, <1>9 DEF a, m

LEMMA ReceiveFacts ==
  ASSUME LinkInv, NEW r \in Readers, AuthReceive(r)
  PROVE  LET a == auth[r]
             b == auth'[r]
             m == Head(sock[r])
         IN  /\ sock[r] # <<>> /\ m \in Messages
             /\ auth' \in [Readers -> AuthType] /\ sock' \in [Readers -> Seq(Messages)]
             /\ sock'[r] = Tail(sock[r])
             /\ \/ b = a /\ m.op # "config"
                \/ b = [a EXCEPT !.queue = Append(a.queue, m)]
             /\ \A s \in Readers \ {r} : auth'[s] = auth[s] /\ sock'[s] = sock[s]
             /\ UNCHANGED <<plan, announced, mainVars, builderVars, acks, notices>>
<1> DEFINE a == auth[r]
           m == Head(sock[r])
           t == Tail(sock[r])
           e == [a EXCEPT !.queue = Append(a.queue, m)]
<1>1. sock[r] # <<>> /\ UNCHANGED <<plan, announced, mainVars, builderVars, acks, notices>>
  BY Zenon DEF AuthReceive
<1>2. /\ auth' = [auth EXCEPT ![r] = e] \/ (auth' = auth /\ m.op # "config")
      /\ sock' = [sock EXCEPT ![r] = t]
  BY Zenon DEF AuthReceive
<1>3. /\ a \in AuthType /\ auth \in [Readers -> AuthType]
      /\ sock \in [Readers -> Seq(Messages)] /\ sock[r] \in Seq(Messages)
  BY Zenon DEF LinkInv
<1>4. m \in Messages /\ t \in Seq(Messages)
  BY Zenon, <1>1, <1>3, TailIsWithout
<1>5. e \in AuthType
  <2>1. a.queue \in Seq(Messages)
    BY Zenon, <1>3 DEF AuthType
  <2>2. Append(a.queue, m) \in Seq(Messages)
    BY Zenon, <1>4, <2>1, Appended
  <2> QED
    BY Zenon, <1>3, <2>2 DEF AuthType
<1>6. sock' \in [Readers -> Seq(Messages)] /\ sock'[r] = t /\ \A s \in Readers \ {r} : sock'[s] = sock[s]
  BY Zenon, <1>2, <1>3, <1>4
<1> HIDE DEF e
<1>7. /\ auth' \in [Readers -> AuthType] /\ \A s \in Readers \ {r} : auth'[s] = auth[s]
      /\ auth'[r] = e \/ (auth'[r] = a /\ m.op # "config")
  BY Zenon, <1>2, <1>3, <1>5
<1> QED
  BY Zenon, <1>1, <1>4, <1>6, <1>7 DEF e

(* processCallbacks() *)
Called(a, c, b) ==
  /\ b = [a EXCEPT !.callbacks = Tail(a.callbacks), !.subscribed = b.subscribed]
  /\ b.subscribed = IF c.op = "reconfigured" THEN c.remote ELSE a.subscribed

LEMMA CallbackFacts ==
  ASSUME LinkInv, NEW r \in Readers, AuthCallback(r)
  PROVE  LET a == auth[r]
             b == auth'[r]
             c == Head(a.callbacks)
         IN  /\ a.callbacks # <<>> /\ auth' \in [Readers -> AuthType]
             /\ c \in Callbacks /\ Called(a, c, b)
             /\ acks' \in [Readers -> Seq(Acks)]
             /\ notices' \in [Readers -> Seq({"subscribed", "unsubscribed"})]
             /\ \/ acks'[r] = acks[r]
                \/ c \in Acks /\ acks'[r] = Append(acks[r], c)
             /\ \/ notices'[r] = notices[r]
                \/ notices'[r] = Append(notices[r], "subscribed")
                \/ /\ c = Remote(FALSE) /\ a.subscribed
                   /\ notices'[r] = Append(notices[r], "unsubscribed")
             /\ \A s \in Readers \ {r} :
                  auth'[s] = auth[s] /\ acks'[s] = acks[s] /\ notices'[s] = notices[s]
             /\ UNCHANGED <<plan, announced, mainVars, builderVars, sock>>
<1> DEFINE a == auth[r]
           q == a.callbacks
           c == Head(q)
           e == [a EXCEPT !.callbacks = Tail(q)]
           f == [e EXCEPT !.subscribed = c.remote]
           N == {"subscribed", "unsubscribed"}
<1>1. q # <<>> /\ UNCHANGED <<plan, announced, mainVars, builderVars, sock>>
  BY Zenon DEF AuthCallback
<1>2. \/ /\ c.op = "reconfigured" /\ auth' = [auth EXCEPT ![r] = f] /\ acks' = acks
         /\ notices' = IF c.remote = e.subscribed THEN notices
              ELSE [notices EXCEPT ![r] = Append(@, IF c.remote THEN "subscribed" ELSE "unsubscribed")]
      \/ /\ c.op # "reconfigured" /\ auth' = [auth EXCEPT ![r] = e] /\ notices' = notices
         /\ acks' = [acks EXCEPT ![r] = Append(@, c)]
  BY Zenon DEF AuthCallback
<1>3. /\ a \in AuthType /\ auth \in [Readers -> AuthType]
      /\ acks \in [Readers -> Seq(Acks)] /\ acks[r] \in Seq(Acks)
      /\ notices \in [Readers -> Seq(N)] /\ notices[r] \in Seq(N)
  BY Zenon DEF LinkInv
<1>4. q \in Seq(Callbacks) /\ a.subscribed \in BOOLEAN
  BY Zenon, <1>3 DEF AuthType
<1>5. c \in Callbacks /\ Tail(q) \in Seq(Callbacks)
  BY Zenon, <1>1, <1>4, TailIsWithout
<1>6. /\ c.op = "reconfigured" => c.remote \in BOOLEAN /\ (c.remote = FALSE => c = Remote(FALSE))
      /\ c.op # "reconfigured" => c \in Acks
  BY Zenon, <1>5 DEF Callbacks, Acks, Remote
<1> HIDE DEF c, q
<1>7. e \in AuthType /\ e.callbacks = Tail(q) /\ e.subscribed = a.subscribed
  BY Zenon, <1>3, <1>5 DEF AuthType
<1>8. CASE c.op = "reconfigured"
  <2>1. /\ auth' = [auth EXCEPT ![r] = f] /\ acks' = acks
        /\ notices' = IF c.remote = a.subscribed THEN notices
             ELSE [notices EXCEPT ![r] = Append(@, IF c.remote THEN "subscribed" ELSE "unsubscribed")]
    BY Zenon, <1>2, <1>7, <1>8
  <2>2. f \in AuthType /\ f.subscribed = c.remote
        /\ f = [a EXCEPT !.callbacks = Tail(q), !.subscribed = f.subscribed]
    BY Zenon, <1>3, <1>5, <1>6, <1>8 DEF AuthType
  <2> HIDE DEF f, e
  <2>3. auth' \in [Readers -> AuthType] /\ auth'[r] = f /\ \A s \in Readers \ {r} : auth'[s] = auth[s]
    BY Zenon, <1>3, <2>1, <2>2
  <2>4. Called(a, c, auth'[r])
    BY Zenon, <1>8, <2>2, <2>3 DEF Called, q
  <2>5. /\ notices' \in [Readers -> Seq(N)]
        /\ \A s \in Readers \ {r} : notices'[s] = notices[s]
        /\ \/ notices'[r] = notices[r]
           \/ notices'[r] = Append(notices[r], "subscribed")
           \/ /\ c = Remote(FALSE) /\ a.subscribed
              /\ notices'[r] = Append(notices[r], "unsubscribed")
    <3>1. CASE c.remote = a.subscribed
      BY Zenon, <1>3, <2>1, <3>1
    <3>2. CASE c.remote # a.subscribed /\ c.remote = TRUE
      <4>1. notices' = [notices EXCEPT ![r] = Append(notices[r], "subscribed")]
        BY Zenon, <2>1, <3>2
      <4>2. Append(notices[r], "subscribed") \in Seq(N)
        BY <1>3
      <4> QED
        BY Zenon, <1>3, <4>1, <4>2
    <3>3. CASE c.remote # a.subscribed /\ c.remote = FALSE
      <4>1. notices' = [notices EXCEPT ![r] = Append(notices[r], "unsubscribed")]
        BY Zenon, <2>1, <3>3
      <4>2. Append(notices[r], "unsubscribed") \in Seq(N)
        BY <1>3
      <4>3. c = Remote(FALSE) /\ a.subscribed
        BY Zenon, <1>4, <1>6, <1>8, <3>3
      <4> QED
        BY Zenon, <1>3, <4>1, <4>2, <4>3
    <3> QED
      BY Zenon, <1>6, <1>8, <3>1, <3>2, <3>3
  <2> QED
    BY Zenon, <1>1, <1>3, <1>5, <2>1, <2>3, <2>4, <2>5 DEF q, c
<1>9. CASE c.op # "reconfigured"
  <2>1. auth' = [auth EXCEPT ![r] = e] /\ notices' = notices /\ acks' = [acks EXCEPT ![r] = Append(acks[r], c)]
    BY Zenon, <1>2, <1>9
  <2>2. e = [a EXCEPT !.callbacks = Tail(q), !.subscribed = e.subscribed]
    BY Zenon, <1>3 DEF AuthType
  <2>3. Append(acks[r], c) \in Seq(Acks)
    BY Zenon, <1>3, <1>6, <1>9, Appended
  <2> HIDE DEF e
  <2>4. auth' \in [Readers -> AuthType] /\ auth'[r] = e /\ \A s \in Readers \ {r} : auth'[s] = auth[s]
    BY Zenon, <1>3, <1>7, <2>1
  <2>5. /\ acks' \in [Readers -> Seq(Acks)] /\ acks'[r] = Append(acks[r], c)
        /\ \A s \in Readers \ {r} : acks'[s] = acks[s]
    BY Zenon, <1>3, <2>1, <2>3
  <2>6. Called(a, c, auth'[r])
    BY Zenon, <1>7, <1>9, <2>2, <2>4 DEF Called, q
  <2> QED
    BY Zenon, <1>1, <1>3, <1>5, <1>6, <1>9, <2>1, <2>4, <2>5, <2>6 DEF q, c
<1> QED
  BY Zenon, <1>8, <1>9

LEMMA AnnounceFacts ==
  ASSUME MainInv, LinkInv, Announce
  PROVE  /\ announced' = announced + 1 /\ announced' \in Gens /\ announced' <= Len(plan.mapped)
         /\ sock' \in [Readers -> Seq(Messages)]
         /\ [op |-> "config", gen |-> announced'] \in Messages
         /\ \A r \in Readers : sock'[r] =
              IF r \in plan.readers THEN Append(sock[r], [op |-> "config", gen |-> announced'])
              ELSE sock[r]
         /\ UNCHANGED <<plan, mainVars, builderVars, auth, acks, notices>>
<1> DEFINE m == [op |-> "config", gen |-> announced']
<1>1. /\ announced < Len(plan.mapped) /\ announced' = announced + 1
      /\ sock' = [r \in Readers |-> IF r \in plan.readers THEN Append(sock[r], m) ELSE sock[r]]
      /\ UNCHANGED <<plan, mainVars, builderVars, auth, acks, notices>>
  BY Zenon DEF Announce
<1>2. Len(plan.mapped) \in Gens /\ announced \in Gens /\ MaxGeneration \in Nat
  BY Zenon, PlanFacts DEF MainInv
<1>3. announced' \in Gens /\ announced' <= Len(plan.mapped)
  BY <1>1, <1>2 DEF Gens
<1>4. m \in Messages
  BY <1>3 DEF Messages
<1> HIDE DEF m
<1>5. ASSUME NEW r \in Readers PROVE sock[r] \in Seq(Messages) /\ Append(sock[r], m) \in Seq(Messages)
  <2>1. sock[r] \in Seq(Messages)
    BY Zenon DEF LinkInv
  <2> QED
    BY Zenon, <1>4, <2>1, Appended
<1>6. sock' \in [Readers -> Seq(Messages)]
  BY Zenon, <1>1, <1>5
<1>7. \A r \in Readers : sock'[r] = IF r \in plan.readers THEN Append(sock[r], m) ELSE sock[r]
  BY Zenon, <1>1
<1> QED
  BY Zenon, <1>1, <1>3, <1>4, <1>6, <1>7 DEF m

(* memmgr is not touched. *)
LEMMA MemInvKept ==
  ASSUME MemInv, UNCHANGED <<plan, mainVars, builderVars>>, LinkInv',
         announced' \in Gens, announced <= announced', announced' <= Len(plan.mapped)
  PROVE  MemInv'
<1>1. /\ plan' = plan /\ current' = current /\ old' = old
      /\ seg' = seg /\ cleaned' = cleaned /\ known' = known /\ outstanding' = outstanding
      /\ failed' = failed /\ updates' = updates
      /\ commands' = commands /\ peeked' = peeked /\ batch' = batch /\ loading' = loading
      /\ alive' = alive /\ responses' = responses
  BY Zenon DEF mainVars, builderVars
<1>2. current \in Gens /\ announced \in Gens /\ current <= announced
  BY Zenon DEF MemInv, MainInv
<1>3. current <= announced'
  BY <1>2 DEF Gens
<1>4. MainInv'
  BY Zenon, <1>1, <1>3 DEF MemInv, MainInv
<1>5. Shared' = Shared /\ Expected(current)' = Expected(current)
  BY Zenon, <1>1 DEF Shared, Expected
<1>6. SegInv' /\ WaitInv' /\ PipeInv'
  BY Zenon, <1>1, <1>5 DEF MemInv, SegInv, WaitInv, PipeInv
<1> QED
  BY Zenon, <1>4, <1>6 DEF MemInv

LEMMA AnnounceMem ==
  ASSUME MemInv, Announce
  PROVE  MemInv'
<1>1. /\ announced' = announced + 1 /\ announced' \in Gens /\ announced' <= Len(plan.mapped)
      /\ sock' \in [Readers -> Seq(Messages)]
      /\ \A r \in Readers : r \notin plan.readers => sock'[r] = sock[r]
      /\ UNCHANGED <<plan, mainVars, builderVars, auth, acks, notices>>
  BY Zenon, AnnounceFacts DEF MemInv
<1>2. plan' = plan /\ auth' = auth /\ acks' = acks /\ notices' = notices
  BY Zenon, <1>1
<1>3. LinkInv'
  BY Zenon, <1>1, <1>2 DEF MemInv, LinkInv, Quiet
<1>4. announced <= announced'
  BY <1>1 DEF MemInv, MainInv, Gens
<1> QED
  BY Zenon, <1>1, <1>3, <1>4, MemInvKept

LEMMA AuthMem ==
  ASSUME MemInv, NEW r \in Readers, AuthNext(r)
  PROVE  MemInv'
<1>1. LinkInv /\ announced \in Gens /\ announced <= Len(plan.mapped)
  BY Zenon DEF MemInv, MainInv
<1>2. announced <= announced
  BY <1>1 DEF Gens
<1>3. CASE AuthReceive(r)
  <2>1. /\ sock[r] # <<>> /\ auth' \in [Readers -> AuthType] /\ sock' \in [Readers -> Seq(Messages)]
        /\ \A s \in Readers \ {r} : auth'[s] = auth[s] /\ sock'[s] = sock[s]
        /\ UNCHANGED <<plan, announced, mainVars, builderVars, acks, notices>>
    BY Zenon, <1>1, <1>3, ReceiveFacts
  <2>2. plan' = plan /\ acks' = acks /\ notices' = notices /\ announced' = announced
    BY Zenon, <2>1
  <2>3. r \in plan.readers
    BY Zenon, <1>1, <2>1 DEF LinkInv, Quiet
  <2>4. LinkInv'
    BY Zenon, <1>1, <2>1, <2>2, <2>3 DEF LinkInv, Quiet
  <2> QED
    BY Zenon, <1>1, <1>2, <2>1, <2>2, <2>4, MemInvKept
<1>4. CASE AuthHandleCommand(r)
  <2>1. /\ auth[r].queue # <<>> /\ auth' \in [Readers -> AuthType]
        /\ \A s \in Readers \ {r} : auth'[s] = auth[s]
        /\ UNCHANGED <<plan, announced, mainVars, builderVars, channelVars>>
    BY Zenon, <1>1, <1>4, HandleFacts
  <2>2. plan' = plan /\ acks' = acks /\ notices' = notices /\ announced' = announced /\ sock' = sock
    BY Zenon, <2>1 DEF channelVars
  <2>3. r \in plan.readers
    BY Zenon, <1>1, <2>1 DEF LinkInv, Quiet
  <2>4. LinkInv'
    BY Zenon, <1>1, <2>1, <2>2, <2>3 DEF LinkInv, Quiet
  <2> QED
    BY Zenon, <1>1, <1>2, <2>1, <2>2, <2>4, MemInvKept
<1>5. CASE AuthCallback(r)
  <2>1. /\ auth[r].callbacks # <<>> /\ auth' \in [Readers -> AuthType]
        /\ acks' \in [Readers -> Seq(Acks)]
        /\ notices' \in [Readers -> Seq({"subscribed", "unsubscribed"})]
        /\ \A s \in Readers \ {r} :
             auth'[s] = auth[s] /\ acks'[s] = acks[s] /\ notices'[s] = notices[s]
        /\ UNCHANGED <<plan, announced, mainVars, builderVars, sock>>
    BY Zenon, <1>1, <1>5, CallbackFacts
  <2>2. plan' = plan /\ announced' = announced /\ sock' = sock
    BY Zenon, <2>1
  <2>3. r \in plan.readers
    BY Zenon, <1>1, <2>1 DEF LinkInv, Quiet
  <2>4. LinkInv'
    BY Zenon, <1>1, <2>1, <2>2, <2>3 DEF LinkInv, Quiet
  <2> QED
    BY Zenon, <1>1, <1>2, <2>1, <2>2, <2>4, MemInvKept
<1> QED
  BY Zenon, <1>3, <1>4, <1>5 DEF AuthNext

LEMMA InitMem ==
  ASSUME Init
  PROVE  MemInv
<1>1. /\ plan \in Plans /\ announced = 1 /\ current = 1 /\ old = {} /\ cleaned = {}
      /\ known = (IF 1 \in Shared THEN plan.joined ELSE {})
      /\ seg = [g \in Gens |-> init_segment(g, IF g = 1 THEN known ELSE {})]
      /\ outstanding = [r \in Readers |-> [g \in Gens |-> 0]]
      /\ failed = FALSE /\ alive = TRUE /\ updates = 0
      /\ commands = (IF 1 \in Shared THEN <<[op |-> "validate", gen |-> 1]>> ELSE <<>>)
      /\ peeked = <<>> /\ batch = <<>> /\ loading = None /\ responses = <<>>
      /\ auth = [r \in Readers |-> NewAuth(r \in plan.readers, r \in known)]
      /\ sock = [r \in Readers |-> <<>>] /\ acks = [r \in Readers |-> <<>>]
      /\ notices = [r \in Readers |-> <<>>]
  BY Zenon DEF Init
<1>2. /\ plan.readers \subseteq Readers /\ plan.joined \subseteq plan.readers
      /\ Len(plan.mapped) \in Gens /\ plan.updates \in Nat /\ MaxGeneration \in Nat
  BY Zenon, <1>1, PlanFacts
<1>3. 1 \in Gens /\ 1 <= Len(plan.mapped) /\ 0 \in 0..plan.updates /\ 1 <= 1
  BY <1>2 DEF Gens
<1>4. known \subseteq plan.readers
  BY Zenon, <1>1, <1>2
<1>5. MainInv
  BY Zenon, <1>1, <1>3, <1>4 DEF MainInv
<1>6. ASSUME NEW g \in Gens
      PROVE  seg[g] \in SegmentOf(g, plan.readers) /\ Calm(seg[g]) /\ seg[g] \in SegmentType
  <2> DEFINE R == IF g = 1 THEN known ELSE {}
  <2>1. R \in SUBSET plan.readers /\ plan.readers \in SUBSET Readers
    BY Zenon, <1>2, <1>4
  <2>2. seg[g] = init_segment(g, R)
    BY Zenon, <1>1
  <2> HIDE DEF R
  <2>3. init_segment(g, R) \in SegmentOf(g, plan.readers) /\ Calm(init_segment(g, R))
    BY Zenon, <2>1, InitSegment
  <2>4. init_segment(g, R) \in SegmentType
    BY Zenon, <2>1, <2>3, SegmentTypes
  <2> QED
    BY Zenon, <2>2, <2>3, <2>4
<1>7. SegInv
  <2>1. seg \in [Gens -> SegmentType]
    <3> DEFINE f(g) == init_segment(g, IF g = 1 THEN known ELSE {})
    <3>1. \A g \in Gens : seg[g] = f(g)
      BY Zenon, <1>1
    <3>2. seg = [g \in Gens |-> f(g)]
      BY Zenon, <1>1
    <3>3. \A g \in Gens : f(g) \in SegmentType
      BY Zenon, <1>6, <3>1
    <3> HIDE DEF f
    <3> QED
      BY Zenon, <3>2, <3>3
  <2> QED
    BY Zenon, <1>6, <2>1 DEF SegInv
<1>8. WaitInv
  BY <1>1 DEF WaitInv
<1>9. PipeInv
  <2>1. 1 \in Shared => [op |-> "validate", gen |-> 1] \in Expected(1)
    BY <1>3 DEF Expected, Commands
  <2>2. <<>> \in Seq(Expected(1))
    OBVIOUS
  <2>3. commands \in Seq(Expected(1))
    BY <1>1, <2>1
  <2> QED
    BY Zenon, <1>1, <2>2, <2>3 DEF PipeInv
<1>10. ASSUME NEW r \in Readers
       PROVE  /\ auth[r] = NewAuth(r \in plan.readers, r \in known) /\ auth[r] \in AuthType
              /\ sock[r] = <<>> /\ acks[r] = <<>> /\ notices[r] = <<>>
              /\ r \notin plan.readers => Quiet(r)
  <2>1. /\ auth[r] = NewAuth(r \in plan.readers, r \in known)
        /\ sock[r] = <<>> /\ acks[r] = <<>> /\ notices[r] = <<>>
    BY Zenon, <1>1
  <2>2. [op |-> "config", gen |-> 1] \in Messages
    BY <1>3 DEF Messages
  <2>3. auth[r].queue \in Seq(Messages) /\ auth[r].callbacks = <<>> /\ <<>> \in Seq(Callbacks)
    BY <2>1, <2>2 DEF NewAuth
  <2>4. auth[r] \in AuthType
    BY <1>3, <2>1, <2>3 DEF NewAuth, AuthType
  <2>5. r \notin plan.readers => auth[r].queue = <<>>
    BY <2>1 DEF NewAuth
  <2> QED
    BY Zenon, <2>1, <2>3, <2>4, <2>5 DEF Quiet
<1>11. LinkInv
  <2>1. /\ sock \in [Readers -> Seq(Messages)] /\ acks \in [Readers -> Seq(Acks)]
        /\ notices \in [Readers -> Seq({"subscribed", "unsubscribed"})]
    BY <1>1
  <2>2. auth \in [Readers -> AuthType]
    <3> DEFINE f(r) == NewAuth(r \in plan.readers, r \in known)
    <3>1. auth = [r \in Readers |-> f(r)] /\ \A r \in Readers : f(r) \in AuthType
      BY Zenon, <1>1, <1>10
    <3> HIDE DEF f
    <3> QED
      BY Zenon, <3>1
  <2> QED
    BY Zenon, <1>10, <2>1, <2>2 DEF LinkInv
<1> QED
  BY Zenon, <1>5, <1>7, <1>8, <1>9, <1>11 DEF MemInv

LEMMA MemTypes ==
  ASSUME MemInv
  PROVE  TypeOK
<1>1. Expected(current) \subseteq Commands /\ Responses = Commands /\ Shared \subseteq Gens
  BY Zenon, PlanFacts DEF MemInv, MainInv, Expected, Commands, Responses
<1>2. /\ commands \in Seq(Commands) /\ peeked \in Seq(Commands) /\ batch \in Seq(Commands)
      /\ responses \in Seq(Responses)
  BY Zenon, <1>1, SeqMono DEF MemInv, PipeInv
<1>3. known \subseteq Readers
  BY Zenon, PlanFacts DEF MemInv, MainInv
<1>4. old \subseteq Gens /\ cleaned \subseteq Gens
  BY Zenon DEF MemInv, MainInv
<1>5. loading \in Gens \cup {None}
  BY Zenon, <1>1 DEF MemInv, PipeInv
<1> QED
  BY Zenon, <1>2, <1>3, <1>4, <1>5 DEF TypeOK, MemInv, MainInv, SegInv, WaitInv, LinkInv

-----------------------------------------------------------------------------
(* The callbacks of a bundy-auth: s tells whether it is subscribed. *)

(* It will be subscribed when they have been run. *)
LastTrue(s, q) ==
  \/ s /\ \A i \in 1..Len(q) : q[i] # Remote(FALSE)
  \/ \E i \in 1..Len(q) : q[i] = Remote(TRUE) /\ \A j \in 1..Len(q) : i <= j => q[j] # Remote(FALSE)

(* None of them makes it unsubscribe. *)
Idle(s, q) == \A i \in 1..Len(q) : q[i] = Remote(FALSE) =>
  ~s /\ \A j \in 1..Len(q) : j <= i => q[j] # Remote(TRUE)

LEMMA RemoteFacts ==
  /\ Remote(TRUE) # Remote(FALSE) /\ \A b : Remote(b).op = "reconfigured" /\ Remote(b).remote = b
  /\ \A g, b : ReleaseAck(g) # Remote(b) /\ [op |-> "update_ack", gen |-> g] # Remote(b)
  /\ \A g : ReleaseAck(g).op = "release_ack" /\ ReleaseAck(g).gen = g
  /\ \A c \in Callbacks : c.op = "reconfigured" =>
       c.remote \in BOOLEAN /\ c = Remote(c.remote)
<1>1. \A b : Remote(b).op = "reconfigured" /\ Remote(b).remote = b
  BY DEF Remote
<1>2. Remote(TRUE) # Remote(FALSE)
  BY DEF Remote
<1>3. \A g : ReleaseAck(g).op = "release_ack" /\ ReleaseAck(g).gen = g
  BY DEF ReleaseAck
<1>4. \A g, b : ReleaseAck(g) # Remote(b) /\ [op |-> "update_ack", gen |-> g] # Remote(b)
  BY <1>1, <1>3
<1>5. \A c \in Callbacks : c.op = "reconfigured" => c.remote \in BOOLEAN /\ c = Remote(c.remote)
  BY DEF Callbacks, Acks, Remote
<1> QED
  BY Zenon, <1>1, <1>2, <1>3, <1>4, <1>5

LEMMA LastTrueAppend ==
  ASSUME NEW s, NEW q \in Seq(Callbacks), NEW c \in Callbacks, c # Remote(FALSE),
         LastTrue(s, q) \/ c = Remote(TRUE)
  PROVE  LastTrue(s, Append(q, c))
<1> DEFINE p == Append(q, c)
<1>1. /\ Len(p) = Len(q) + 1 /\ Len(q) \in Nat /\ p[Len(q) + 1] = c
      /\ \A i \in 1..Len(q) : p[i] = q[i]
  BY Appended
<1> HIDE DEF p
<1>2. /\ \A i \in 1..Len(p) : i \in 1..Len(q) \/ i = Len(q) + 1
      /\ \A i \in 1..Len(q) : i \in 1..Len(p)
      /\ Len(q) + 1 \in 1..Len(p) /\ \A j \in 1..Len(q) : ~(Len(q) + 1 <= j)
  BY <1>1
<1>3. CASE s /\ \A i \in 1..Len(q) : q[i] # Remote(FALSE)
  BY Zenon, <1>1, <1>2, <1>3 DEF LastTrue, p
<1>4. ASSUME NEW i \in 1..Len(q), q[i] = Remote(TRUE),
             \A j \in 1..Len(q) : i <= j => q[j] # Remote(FALSE)
      PROVE  LastTrue(s, p)
  BY Zenon, <1>1, <1>2, <1>4 DEF LastTrue
<1>5. ASSUME c = Remote(TRUE) PROVE LastTrue(s, p)
  BY Zenon, <1>1, <1>2, <1>5 DEF LastTrue
<1> QED
  BY Zenon, <1>3, <1>4, <1>5 DEF LastTrue, p

LEMMA LastTrueTail ==
  ASSUME NEW s, NEW q \in Seq(Callbacks), q # <<>>, LastTrue(s, q)
  PROVE  LastTrue(IF Head(q).op = "reconfigured" THEN Head(q).remote ELSE s, Tail(q))
<1> DEFINE p == Tail(q)
           c == Head(q)
           t == IF c.op = "reconfigured" THEN c.remote ELSE s
<1>1. /\ Len(q) \in Nat /\ Len(p) = Len(q) - 1 /\ c = q[1] /\ 1 \in 1..Len(q) /\ c \in Callbacks
      /\ \A i \in 1..Len(p) : i + 1 \in 1..Len(q) /\ p[i] = q[i + 1]
      /\ \A i \in 1..Len(q) : i = 1 \/ i - 1 \in 1..Len(p)
  OBVIOUS
<1> HIDE DEF p, c
<1>2. ASSUME s, \A i \in 1..Len(q) : q[i] # Remote(FALSE) PROVE LastTrue(t, p)
  <2>1. t = TRUE \/ t = s
    <3>1. c # Remote(FALSE)
      BY Zenon, <1>1, <1>2
    <3>2. c.op = "reconfigured" => c.remote = TRUE
      BY Zenon, <1>1, <3>1, RemoteFacts
    <3> QED
      BY Zenon, <3>2
  <2>2. \A i \in 1..Len(p) : p[i] # Remote(FALSE)
    BY Zenon, <1>1, <1>2
  <2> QED
    BY Zenon, <1>2, <2>1, <2>2 DEF LastTrue
<1>3. ASSUME NEW i \in 1..Len(q), q[i] = Remote(TRUE),
             \A j \in 1..Len(q) : i <= j => q[j] # Remote(FALSE)
      PROVE  LastTrue(t, p)
  <2>1. CASE i = 1
    <3>1. t = TRUE
      BY Zenon, <1>1, <1>3, <2>1, RemoteFacts
    <3>2. \A j \in 1..Len(p) : 1 <= j + 1
      BY <1>1
    <3>3. \A j \in 1..Len(p) : p[j] # Remote(FALSE)
      BY Zenon, <1>1, <1>3, <2>1, <3>2
    <3> QED
      BY Zenon, <3>1, <3>3 DEF LastTrue
  <2>2. CASE i # 1
    <3>1. i - 1 \in 1..Len(p) /\ p[i - 1] = q[i] /\ \A j \in 1..Len(p) : i - 1 <= j => i <= j + 1
      BY <1>1, <2>2
    <3>2. \A j \in 1..Len(p) : i - 1 <= j => p[j] # Remote(FALSE)
      BY Zenon, <1>1, <1>3, <3>1
    <3> QED
      BY Zenon, <1>3, <3>1, <3>2 DEF LastTrue
  <2> QED
    BY <2>1, <2>2
<1> QED
  BY Zenon, <1>2, <1>3 DEF LastTrue, p, c

LEMMA IdleAppend ==
  ASSUME NEW s, NEW q \in Seq(Callbacks), NEW c \in Callbacks, Idle(s, q),
         c = Remote(FALSE) => ~s /\ Remote(TRUE) \notin Elems(q)
  PROVE  Idle(s, Append(q, c))
<1> DEFINE p == Append(q, c)
<1>1. /\ Len(p) = Len(q) + 1 /\ Len(q) \in Nat /\ p[Len(q) + 1] = c
      /\ \A i \in 1..Len(q) : p[i] = q[i]
  BY Appended
<1> HIDE DEF p
<1>2. \A i \in 1..Len(p) : i \in 1..Len(q) \/ i = Len(q) + 1
  BY <1>1
<1>3. ASSUME NEW i \in 1..Len(q), p[i] = Remote(FALSE)
      PROVE  ~s /\ \A j \in 1..Len(p) : j <= i => p[j] # Remote(TRUE)
  <2>1. \A j \in 1..Len(p) : j <= i => j \in 1..Len(q)
    BY <1>1
  <2> QED
    BY Zenon, <1>1, <1>3, <2>1 DEF Idle
<1>4. ASSUME c = Remote(FALSE)
      PROVE  ~s /\ \A j \in 1..Len(p) : p[j] # Remote(TRUE)
  <2>1. \A j \in 1..Len(q) : q[j] \in Elems(q)
    BY DEF Elems
  <2>2. c # Remote(TRUE)
    BY Zenon, <1>4, RemoteFacts
  <2>3. ~s /\ Remote(TRUE) \notin Elems(q)
    BY Zenon, <1>4
  <2> QED
    BY Zenon, <1>1, <1>2, <2>1, <2>2, <2>3
<1>5. Idle(s, p)
  BY Zenon, <1>1, <1>2, <1>3, <1>4 DEF Idle
<1> QED
  BY Zenon, <1>5 DEF p

LEMMA IdleTail ==
  ASSUME NEW s, NEW q \in Seq(Callbacks), q # <<>>, Idle(s, q)
  PROVE  /\ Idle(IF Head(q).op = "reconfigured" THEN Head(q).remote ELSE s, Tail(q))
         /\ Head(q) = Remote(FALSE) => ~s
<1> DEFINE p == Tail(q)
           c == Head(q)
           t == IF c.op = "reconfigured" THEN c.remote ELSE s
<1>1. /\ Len(q) \in Nat /\ Len(p) = Len(q) - 1 /\ c = q[1] /\ 1 \in 1..Len(q) /\ c \in Callbacks
      /\ \A i \in 1..Len(p) : i + 1 \in 1..Len(q) /\ p[i] = q[i + 1]
  OBVIOUS
<1>2. /\ \A i, j \in 1..Len(p) : j <= i => j + 1 <= i + 1
      /\ \A i \in 1..Len(p) : 1 <= i + 1
  BY <1>1
<1> HIDE DEF p, c
<1>3. ASSUME NEW i \in 1..Len(p), p[i] = Remote(FALSE)
      PROVE  ~t /\ \A j \in 1..Len(p) : j <= i => p[j] # Remote(TRUE)
  <2>1. ~s /\ \A j \in 1..Len(q) : j <= i + 1 => q[j] # Remote(TRUE)
    BY Zenon, <1>1, <1>3 DEF Idle
  <2>2. c # Remote(TRUE)
    BY Zenon, <1>1, <1>2, <2>1
  <2>3. ~t
    BY Zenon, <1>1, <2>1, <2>2, RemoteFacts
  <2> QED
    BY Zenon, <1>1, <1>2, <2>1, <2>3
<1>4. Idle(t, p)
  BY Zenon, <1>3 DEF Idle
<1>5. c = Remote(FALSE) => ~s
  BY Zenon, <1>1 DEF Idle
<1> QED
  BY Zenon, <1>4, <1>5 DEF p, c

-----------------------------------------------------------------------------
(* What holds for each bundy-auth. *)

(* The messages ahead of it. *)
Ahead(r) == auth[r].queue \o sock[r]

(* The latest generation it knows. *)
Top(a) == IF a.pending # 0 THEN a.pending ELSE a.gen_id

(* It does not use generation g, and never will again. *)
Done(a, g) == a.gen_id # g /\ Top(a) > g

(* Generations arrive in order. *)
Order(a, p) ==
  /\ a.pending # 0 => a.pending > a.gen_id /\ a.pending \in Shared
  /\ Top(a) <= announced /\ Configs(Top(a), announced, p)
  /\ a.mapped => a.gen_id \in Shared
  /\ a.release # 0 => a.release = a.gen_id

Subscribes(a) == a.mapped \/ a.pending # 0 => LastTrue(a.subscribed, a.callbacks)

(* Generation g is past the end of the use of mapped segments. *)
After(g) == \E b \in Shared, f \in DOMAIN plan.mapped \ Shared : b < f /\ f <= g

(* It knows, or is about to learn, the latest generation; it acknowledges  *)
(* the release of a generation only when it is done with it, and           *)
(* unsubscribes only when the use of mapped segments has ended.            *)
Progress(r, a, p, k, n) ==
  /\ r \in plan.readers =>
       Top(a) = announced \/ [op |-> "config", gen |-> announced] \in Elems(p)
  /\ Releases(Top(a), p)
  /\ \A x \in Elems(a.callbacks) \cup Elems(k) : x.op = "release_ack" => Done(a, x.gen)
  /\ a.subscribed \/ Remote(TRUE) \in Elems(a.callbacks) => \E b \in Shared : b <= Top(a)
  /\ After(a.gen_id) \/ Idle(a.subscribed, a.callbacks)
  /\ "unsubscribed" \in Elems(n) => After(a.gen_id)

(* It serves from the segment of generation g, or may be told to map it. *)
Serves(a, p, g) ==
  \/ a.mapped /\ a.gen_id = g
  \/ \E x \in Elems(p) : x.op = "update" /\ x.gen = g

(* memmgr knows it as a reader of what it serves from, and has the files. *)
Safe(r, a, p) ==
  /\ a.running
  /\ \A g \in Gens : Serves(a, p, g) =>
       /\ g \in Shared /\ g <= current
       /\ Done(a, g) \/ (r \in AllReaders(seg[g]) /\ g \notin cleaned)

ReaderInv(r) ==
  /\ Order(auth[r], Ahead(r))
  /\ ~plan.rejects => Subscribes(auth[r])
  /\ ~plan.rejects /\ ~ComesBack =>
       /\ Progress(r, auth[r], Ahead(r), acks[r], notices[r])
       /\ Safe(r, auth[r], Ahead(r))

GenInv == MemInv /\ \A r \in Readers : ReaderInv(r)

(* The generations of b are not before those of a. *)
Moves(a, b) ==
  /\ a.gen_id <= b.gen_id /\ Top(a) <= Top(b)
  /\ \A g \in Nat : Done(a, g) => Done(b, g)

LEMMA Concatenated ==
  ASSUME NEW S, NEW q \in Seq(S), NEW s \in Seq(S)
  PROVE  /\ q \o s \in Seq(S) /\ \A m \in S : q \o Append(s, m) = Append(q \o s, m)
OBVIOUS

LEMMA ConcatHead ==
  ASSUME NEW S, NEW q \in Seq(S), NEW s \in Seq(S), q # <<>>
  PROVE  Tail(q) \o s = Tail(q \o s) /\ Head(q \o s) = Head(q) /\ q \o s # <<>>
OBVIOUS

LEMMA ConcatRest ==
  ASSUME NEW S, NEW q \in Seq(S), NEW s \in Seq(S), s # <<>>
  PROVE  /\ Append(q, Head(s)) \o Tail(s) = q \o s
         /\ Without(q \o s, Len(q) + 1, q \o Tail(s))
         /\ (q \o s)[Len(q) + 1] = Head(s)
<1>1. Append(q, Head(s)) \o Tail(s) = q \o s /\ (q \o s)[Len(q) + 1] = Head(s)
  OBVIOUS
<1>2. Without(q \o s, Len(q) + 1, q \o Tail(s))
  BY DEF Without
<1> QED
  BY <1>1, <1>2

LEMMA TopFacts ==
  ASSUME NEW a \in AuthType, a.pending # 0 => a.pending > a.gen_id
  PROVE  /\ Top(a) \in Nat /\ a.gen_id \in Nat /\ a.pending \in Nat /\ a.gen_id <= Top(a)
         /\ a.pending # 0 => Top(a) = a.pending
         /\ a.pending = 0 => Top(a) = a.gen_id
<1>1. a.gen_id \in Gens \cup {0} /\ a.pending \in Gens \cup {0}
  BY Zenon DEF AuthType
<1>2. a.gen_id \in Nat /\ a.pending \in Nat
  BY <1>1 DEF Gens
<1> QED
  BY <1>2 DEF Top

LEMMA DoneMoves ==
  ASSUME NEW a, NEW b, a.gen_id \in Nat, b.gen_id \in Nat, Top(a) \in Nat, Top(b) \in Nat,
         a.gen_id <= b.gen_id, Top(a) <= Top(b), b.gen_id = a.gen_id \/ b.gen_id >= Top(a)
  PROVE  Moves(a, b)
BY DEF Moves, Done

(* Handling the message m that is next. *)
LEMMA HandledOrder ==
  ASSUME MainInv, NEW a \in AuthType, NEW p \in Seq(Messages), p # <<>>, NEW b,
         Handled(a, Head(p), b), Order(a, p)
  PROVE  Order(b, Tail(p)) /\ Moves(a, b)
<1> DEFINE m == Head(p)
           q == Tail(p)
<1>1. m \in Messages /\ m = p[1] /\ Without(p, 1, q)
  BY Zenon, TailIsWithout
<1>2. m.gen \in Nat \ {0} /\ announced \in Nat
  <2>1. m.gen \in Gens /\ announced \in Gens
    BY Zenon, <1>1 DEF Messages, MainInv
  <2> QED
    BY <2>1 DEF Gens
<1>3. Configs(Top(a), announced, p)
  BY Zenon DEF Order
<1>4. /\ Configs(Top(a), announced, q)
      /\ m.op = "config" => /\ Top(a) < m.gen /\ m.gen <= announced
                            /\ Configs(m.gen, announced, q)
  BY Zenon, <1>1, <1>3, ConfigsWithout
<1>5. /\ a.pending # 0 => a.pending > a.gen_id /\ a.pending \in Shared
      /\ Top(a) <= announced
      /\ a.mapped => a.gen_id \in Shared
      /\ a.release # 0 => a.release = a.gen_id
  BY Zenon DEF Order
<1>6. /\ Top(a) \in Nat /\ a.gen_id \in Nat /\ a.pending \in Nat /\ a.gen_id <= Top(a)
      /\ a.pending # 0 => Top(a) = a.pending
      /\ a.pending = 0 => Top(a) = a.gen_id
  BY Zenon, <1>5, TopFacts
<1>7. b \in AuthType /\ (Waits(a, m, b) \/ Installs(a, m, b) \/ Switches(a, m, b) \/ Remains(a, m, b))
  BY Zenon DEF Handled
<1> HIDE DEF m, q
<1>8. ASSUME Waits(a, m, b) PROVE Order(b, q) /\ Moves(a, b)
  <2>1. /\ m.op = "config" /\ m.gen \in Shared /\ b.gen_id = a.gen_id /\ b.mapped = a.mapped
        /\ b.pending = m.gen /\ b.release = a.release
    BY Zenon, <1>8 DEF Waits
  <2>2. Top(b) = m.gen /\ m.gen > a.gen_id /\ Top(a) <= Top(b) /\ a.gen_id <= b.gen_id
    BY <1>2, <1>4, <1>6, <2>1 DEF Top
  <2>3. Order(b, q)
    BY Zenon, <1>4, <1>5, <2>1, <2>2 DEF Order
  <2>4. Moves(a, b)
    BY <1>2, <1>6, <2>1, <2>2, DoneMoves
  <2> QED
    BY <2>3, <2>4
<1>9. ASSUME Installs(a, m, b) PROVE Order(b, q) /\ Moves(a, b)
  <2>1. /\ m.op = "config" /\ b.gen_id = m.gen /\ b.mapped = FALSE /\ b.pending = 0 /\ b.release = 0
    BY Zenon, <1>9 DEF Installs
  <2>2. Top(b) = m.gen /\ Top(a) <= Top(b) /\ a.gen_id <= b.gen_id /\ b.gen_id >= Top(a)
    BY <1>2, <1>4, <1>6, <2>1 DEF Top
  <2>3. Order(b, q)
    BY Zenon, <1>4, <2>1, <2>2 DEF Order
  <2>4. Moves(a, b)
    BY <1>2, <1>6, <2>1, <2>2, DoneMoves
  <2> QED
    BY <2>3, <2>4
<1>10. ASSUME Switches(a, m, b) PROVE Order(b, q) /\ Moves(a, b)
  <2>1. /\ m.gen = a.pending /\ b.gen_id = a.pending /\ b.mapped = (a.pending \in Shared)
        /\ b.pending = 0 /\ b.release = 0
    BY Zenon, <1>10 DEF Switches
  <2>2. Top(b) = Top(a) /\ a.gen_id <= b.gen_id /\ b.gen_id = Top(a) /\ a.pending # 0
    BY <1>2, <1>5, <1>6, <2>1 DEF Top
  <2>3. Order(b, q)
    BY Zenon, <1>4, <1>5, <2>1, <2>2 DEF Order
  <2>4. Moves(a, b)
    <3>1. Top(a) <= Top(b) /\ b.gen_id >= Top(a)
      BY <1>6, <2>2
    <3> QED
      BY Zenon, <1>6, <2>1, <2>2, <3>1, DoneMoves
  <2> QED
    BY <2>3, <2>4
<1>11. ASSUME Remains(a, m, b) PROVE Order(b, q) /\ Moves(a, b)
  <2>1. /\ b.gen_id = a.gen_id /\ b.mapped = a.mapped /\ b.pending = a.pending
        /\ b.release = a.release \/ b.release = a.gen_id
    BY Zenon, <1>11 DEF Remains
  <2>2. Top(b) = Top(a) /\ Top(a) <= Top(b) /\ a.gen_id <= b.gen_id
    BY <1>6, <2>1 DEF Top
  <2>3. Order(b, q)
    BY Zenon, <1>4, <1>5, <2>1, <2>2 DEF Order
  <2>4. Moves(a, b)
    BY Zenon, <1>6, <2>1, <2>2, DoneMoves
  <2> QED
    BY <2>3, <2>4
<1> QED
  BY Zenon, <1>7, <1>8, <1>9, <1>10, <1>11 DEF q

LEMMA HandledSubscribes ==
  ASSUME NEW a \in AuthType, NEW m \in Messages, NEW b, Handled(a, m, b), ~plan.rejects,
         Subscribes(a)
  PROVE  Subscribes(b)
<1>1. /\ b \in AuthType /\ b.subscribed = a.subscribed
      /\ Waits(a, m, b) \/ Installs(a, m, b) \/ Switches(a, m, b) \/ Remains(a, m, b)
  BY Zenon DEF Handled
<1>2. m.gen \in Gens /\ 0 \notin Gens
  <2>1. m.gen \in Gens
    BY Zenon DEF Messages
  <2> QED
    BY <2>1 DEF Gens
<1>3. a.callbacks \in Seq(Callbacks) /\ a.release \in Gens \cup {0}
  BY Zenon DEF AuthType
<1> DEFINE u == [op |-> "update_ack", gen |-> m.gen]
<1>4. /\ Remote(TRUE) \in Callbacks /\ u \in Callbacks /\ ReleaseAck(m.gen) \in Callbacks
      /\ u # Remote(FALSE) /\ Remote(TRUE) # Remote(FALSE)
      /\ \A g : ReleaseAck(g) # Remote(FALSE)
  BY Zenon, <1>2, <1>3, CallbackTypes, RemoteFacts
<1> HIDE DEF u
<1>5. CASE Waits(a, m, b)
  <2>1. b.callbacks = Append(a.callbacks, Remote(TRUE))
    BY Zenon, <1>5 DEF Waits
  <2> QED
    BY Zenon, <1>1, <1>3, <1>4, <2>1, LastTrueAppend DEF Subscribes
<1>6. CASE Installs(a, m, b)
  BY <1>6 DEF Installs, Subscribes
<1>7. CASE Switches(a, m, b)
  <2>1. /\ m.gen = a.pending /\ b.callbacks = Append(Released(a), u)
    BY Zenon, <1>7 DEF Switches, u
  <2>2. LastTrue(a.subscribed, a.callbacks)
    BY Zenon, <1>2, <2>1 DEF Subscribes
  <2>3. LastTrue(a.subscribed, Released(a)) /\ Released(a) \in Seq(Callbacks)
    <3>1. CASE a.release = 0
      BY Zenon, <1>3, <2>2, <3>1 DEF Released
    <3>2. CASE a.release \in Gens
      <4>1. ReleaseAck(a.release) \in Callbacks
        BY Zenon, <1>3, <3>2, CallbackTypes
      <4>2. LastTrue(a.subscribed, Append(a.callbacks, ReleaseAck(a.release)))
        BY Zenon, <1>3, <1>4, <2>2, <4>1, LastTrueAppend
      <4> QED
        BY Zenon, <1>2, <3>2, <4>2, ReleasedType DEF Released
    <3> QED
      BY Zenon, <1>3, <3>1, <3>2
  <2>4. LastTrue(a.subscribed, Append(Released(a), u))
    BY Zenon, <1>4, <2>3, LastTrueAppend
  <2> QED
    BY Zenon, <1>1, <2>1, <2>4 DEF Subscribes
<1>8. CASE Remains(a, m, b)
  <2>1. /\ b.mapped = a.mapped /\ b.pending = a.pending
        /\ \/ b.callbacks = a.callbacks
           \/ b.callbacks = Append(a.callbacks, u)
           \/ b.callbacks = Append(a.callbacks, ReleaseAck(m.gen))
    BY Zenon, <1>8 DEF Remains, u
  <2>2. LastTrue(a.subscribed, a.callbacks) => LastTrue(a.subscribed, b.callbacks)
    BY Zenon, <1>3, <1>4, <2>1, LastTrueAppend
  <2> QED
    BY Zenon, <1>1, <2>1, <2>2 DEF Subscribes
<1> QED
  BY Zenon, <1>1, <1>5, <1>6, <1>7, <1>8

LEMMA HandledSafe ==
  ASSUME NEW r, NEW a \in AuthType, NEW p \in Seq(Messages), p # <<>>, NEW b,
         Handled(a, Head(p), b), ~plan.rejects, Order(a, p), Safe(r, a, p), Moves(a, b)
  PROVE  Safe(r, b, Tail(p))
<1> DEFINE m == Head(p)
           q == Tail(p)
<1>1. m \in Messages /\ m \in Elems(p) /\ Elems(q) \subseteq Elems(p)
  BY Zenon, TailIsWithout, Removed
<1>2. m.gen \in Gens /\ Gens \subseteq Nat \ {0}
  <2>1. m.gen \in Gens
    BY Zenon, <1>1 DEF Messages
  <2> QED
    BY <2>1 DEF Gens
<1>3. Waits(a, m, b) \/ Installs(a, m, b) \/ Switches(a, m, b) \/ Remains(a, m, b)
  BY Zenon DEF Handled
<1>4. /\ a.running
      /\ \A g \in Gens : Serves(a, p, g) =>
            /\ g \in Shared /\ g <= current
            /\ Done(a, g) \/ (r \in AllReaders(seg[g]) /\ g \notin cleaned)
      /\ \A g \in Gens : Done(a, g) => Done(b, g)
  BY Zenon, <1>2 DEF Safe, Moves
<1>5. /\ a.pending # 0 => Top(a) = a.pending
      /\ m.op = "update" => Serves(a, p, m.gen)
      /\ \A g \in Gens : a.gen_id = g => ~Done(a, g)
      /\ \A g \in Gens : a.pending = g => ~Done(a, g)
  <2>1. m.op = "update" => Serves(a, p, m.gen)
    BY Zenon, <1>1 DEF Serves
  <2>2. /\ a.pending # 0 => Top(a) = a.pending
        /\ \A g \in Gens : a.gen_id = g => ~Done(a, g)
    BY Zenon, TopFacts DEF Order, Done
  <2>3. ASSUME NEW g \in Gens, a.pending = g PROVE ~Done(a, g)
    BY <1>2, <2>3 DEF Done, Top
  <2> QED
    BY Zenon, <2>1, <2>2, <2>3
<1> HIDE DEF m, q
<1>6. b.running
  <2>1. CASE Remains(a, m, b) /\ m.op = "update" /\ m.gen \in cleaned /\ (m.gen = a.gen_id \/ m.gen = a.pending)
    BY Zenon, <1>2, <1>4, <1>5, <2>1
  <2>2. b.running = a.running \/ (Remains(a, m, b) /\ m.op = "update" /\ m.gen \in cleaned
                                  /\ (m.gen = a.gen_id \/ m.gen = a.pending))
    BY Zenon, <1>3 DEF Waits, Installs, Switches, Remains
  <2> QED
    BY Zenon, <1>4, <2>1, <2>2
<1>7. ASSUME NEW g \in Gens, b.mapped, b.gen_id = g
      PROVE  /\ Serves(a, p, g)
             /\ (b.gen_id = a.gen_id /\ b.mapped = a.mapped) \/ ~Done(a, g)
  <2>1. CASE Waits(a, m, b) \/ Remains(a, m, b)
    <3>1. b.gen_id = a.gen_id /\ b.mapped = a.mapped
      BY Zenon, <2>1 DEF Waits, Remains
    <3> QED
      BY Zenon, <1>7, <3>1 DEF Serves
  <2>2. CASE Installs(a, m, b)
    BY Zenon, <1>7, <2>2 DEF Installs
  <2>3. CASE Switches(a, m, b)
    <3>1. m.op = "update" /\ m.gen = g /\ a.pending = g
      BY Zenon, <1>7, <2>3 DEF Switches
    <3> QED
      BY Zenon, <1>5, <3>1
  <2> QED
    BY Zenon, <1>3, <2>1, <2>2, <2>3
<1>8. ASSUME NEW g \in Gens, Serves(b, q, g)
      PROVE  /\ g \in Shared /\ g <= current
             /\ Done(b, g) \/ (r \in AllReaders(seg[g]) /\ g \notin cleaned)
  <2>1. Serves(a, p, g)
    BY Zenon, <1>1, <1>7, <1>8 DEF Serves
  <2> QED
    BY Zenon, <1>4, <2>1
<1> QED
  BY Zenon, <1>6, <1>8 DEF Safe, q

(* The callbacks that handling a message adds. *)
LEMMA CallbacksAdded ==
  ASSUME NEW q \in Seq(Callbacks), NEW c \in Callbacks
  PROVE  /\ Append(q, c) \in Seq(Callbacks) /\ Elems(Append(q, c)) = Elems(q) \cup {c}
BY Appended

LEMMA ReleasedFacts ==
  ASSUME NEW a \in AuthType, a.release # 0 => a.release = a.gen_id
  PROVE  /\ Released(a) \in Seq(Callbacks)
         /\ Elems(Released(a)) \subseteq Elems(a.callbacks) \cup {ReleaseAck(a.gen_id)}
         /\ Idle(a.subscribed, a.callbacks) => Idle(a.subscribed, Released(a))
<1>1. a.callbacks \in Seq(Callbacks) /\ a.release \in Gens \cup {0}
  BY Zenon DEF AuthType
<1>2. CASE a.release = 0
  BY <1>1, <1>2 DEF Released
<1>3. CASE a.release # 0
  <2>1. ReleaseAck(a.release) \in Callbacks /\ a.release = a.gen_id
    BY Zenon, <1>1, <1>3, CallbackTypes
  <2>2. Released(a) = Append(a.callbacks, ReleaseAck(a.release))
    BY Zenon, <1>3 DEF Released
  <2>3. /\ Append(a.callbacks, ReleaseAck(a.release)) \in Seq(Callbacks)
        /\ Elems(Append(a.callbacks, ReleaseAck(a.release))) = Elems(a.callbacks) \cup {ReleaseAck(a.release)}
    BY Zenon, <1>1, <2>1, CallbacksAdded
  <2>4. Idle(a.subscribed, a.callbacks) => Idle(a.subscribed, Append(a.callbacks, ReleaseAck(a.release)))
    BY ZenonT(60), <1>1, <2>1, IdleAppend, RemoteFacts
  <2> QED
    BY Zenon, <2>1, <2>2, <2>3, <2>4
<1> QED
  BY Zenon, <1>2, <1>3

LEMMA AfterGrows ==
  ASSUME plan \in Plans, NEW g \in Nat, NEW h \in Nat, g <= h
  PROVE  After(g) => After(h)
<1>1. Shared \subseteq Nat /\ DOMAIN plan.mapped \subseteq Nat
  BY PlanFacts DEF Gens
<1>2. ASSUME NEW b \in Shared, NEW f \in DOMAIN plan.mapped \ Shared, b < f, f <= g
      PROVE  b < f /\ f <= h
  BY <1>1, <1>2
<1> QED
  BY Zenon, <1>2 DEF After
LEMMA HandledProgress ==
  ASSUME MainInv, NEW r, NEW a \in AuthType, NEW p \in Seq(Messages), p # <<>>, NEW b,
         NEW k \in Seq(Acks), NEW n, Handled(a, Head(p), b), ~plan.rejects, Order(a, p), Moves(a, b),
         Order(b, Tail(p)), Progress(r, a, p, k, n)
  PROVE  Progress(r, b, Tail(p), k, n)
<1> DEFINE m == Head(p)
           q == Tail(p)
           u == [op |-> "update_ack", gen |-> m.gen]
           e == [op |-> "config", gen |-> announced]
<1>1. /\ m \in Messages /\ m = p[1] /\ m \in Elems(p) /\ Without(p, 1, q)
      /\ Elems(q) \subseteq Elems(p) /\ Elems(p) \subseteq Elems(q) \cup {m}
  <2>1. m \in Messages /\ m = p[1] /\ m \in Elems(p) /\ Without(p, 1, q)
    BY Zenon, TailIsWithout
  <2>2. Elems(q) \subseteq Elems(p) /\ Elems(p) \subseteq Elems(q) \cup {p[1]}
    BY Zenon, <2>1, Removed
  <2> QED
    BY Zenon, <2>1, <2>2
<1>2. m.gen \in Nat \ {0} /\ announced \in Nat /\ m.gen \in Gens /\ plan \in Plans
  <2>1. m.gen \in Gens /\ announced \in Gens /\ plan \in Plans
    BY Zenon, <1>1 DEF Messages, MainInv
  <2> QED
    BY <2>1 DEF Gens
<1>3. /\ Top(a) \in Nat /\ a.gen_id \in Nat /\ a.pending \in Nat /\ a.gen_id <= Top(a)
      /\ a.pending # 0 => Top(a) = a.pending
      /\ a.pending = 0 => Top(a) = a.gen_id
  BY Zenon, TopFacts DEF Order
<1>4. b \in AuthType /\ b.subscribed = a.subscribed
      /\ (Waits(a, m, b) \/ Installs(a, m, b) \/ Switches(a, m, b) \/ Remains(a, m, b))
  BY Zenon DEF Handled
<1>5. /\ Top(b) \in Nat /\ b.gen_id \in Nat
      /\ a.gen_id <= b.gen_id /\ Top(a) <= Top(b) /\ \A g \in Nat : Done(a, g) => Done(b, g)
      /\ Top(b) <= announced
  BY Zenon, <1>4, TopFacts DEF Order, Moves
<1>6. /\ Configs(Top(a), announced, p) /\ Releases(Top(a), p)
      /\ a.callbacks \in Seq(Callbacks) /\ (a.release # 0 => a.release = a.gen_id)
  BY Zenon DEF Order, Progress, AuthType
<1>7. /\ m.op = "config" => Top(a) < m.gen /\ m.gen <= announced
      /\ m.op # "config" => Releases(Top(a), q)
      /\ m.op = "config" => Releases(m.gen, q)
      /\ m.op = "release" => Top(a) > m.gen
  <2>1. m.op = "config" => Top(a) < m.gen /\ m.gen <= announced
    BY Zenon, <1>1, <1>6, ConfigsWithout
  <2>2. /\ m.op # "config" => Releases(Top(a), q)
        /\ m.op = "config" /\ Top(a) < m.gen => Releases(m.gen, q)
        /\ m.op = "release" => Top(a) > m.gen
    <3>1. /\ p[1].op # "config" => Releases(Top(a), q)
          /\ p[1].op = "config" /\ Top(a) < p[1].gen => Releases(p[1].gen, q)
          /\ p[1].op = "release" => Top(a) > p[1].gen
      BY Zenon, <1>1, <1>3, <1>6, ReleasesWithout
    <3> QED
      BY Zenon, <1>1, <3>1
  <2> QED
    BY Zenon, <2>1, <2>2
<1>8. /\ Remote(TRUE) \in Callbacks /\ Remote(FALSE) \in Callbacks
      /\ u \in Callbacks /\ ReleaseAck(m.gen) \in Callbacks
      /\ u # Remote(FALSE) /\ u # Remote(TRUE) /\ Remote(TRUE) # Remote(FALSE)
      /\ \A g : ReleaseAck(g) # Remote(FALSE) /\ ReleaseAck(g) # Remote(TRUE)
      /\ \A g : ReleaseAck(g).op = "release_ack" /\ ReleaseAck(g).gen = g
      /\ \A x : Remote(x).op # "release_ack"
      /\ u.op # "release_ack"
  <2>1. "reconfigured" # "release_ack" /\ u.op = "update_ack" /\ u.op # "release_ack"
    OBVIOUS
  <2> QED
    BY Zenon, <1>2, <1>6, <2>1, CallbackTypes, RemoteFacts
<1>9. /\ Released(a) \in Seq(Callbacks)
      /\ Elems(Released(a)) \subseteq Elems(a.callbacks) \cup {ReleaseAck(a.gen_id)}
      /\ Idle(a.subscribed, a.callbacks) => Idle(a.subscribed, Released(a))
  BY Zenon, <1>6, ReleasedFacts
<1>10. \A x \in Callbacks : x.op = "release_ack" => x.gen \in Nat
  BY DEF Callbacks, Acks, Gens
<1>11. \A x \in Elems(a.callbacks) : x \in Callbacks
  BY Zenon, <1>6, ElemsIn
<1> HIDE DEF m, q, u
(* The latest generation. *)
<1>12. Top(b) = IF m.op = "config" THEN m.gen ELSE Top(a)
  <2>1. CASE Waits(a, m, b)
    BY <1>2, <2>1 DEF Waits, Top
  <2>2. CASE Installs(a, m, b)
    BY <1>2, <2>2 DEF Installs, Top
  <2>3. CASE Switches(a, m, b)
    BY <1>2, <2>3 DEF Switches, Top
  <2>4. CASE Remains(a, m, b)
    <3>1. b.gen_id = a.gen_id /\ b.pending = a.pending /\ m.op # "config"
      BY Zenon, <2>4 DEF Remains
    <3> QED
      BY <3>1 DEF Top
  <2> QED
    BY Zenon, <1>4, <2>1, <2>2, <2>3, <2>4
<1>13. r \in plan.readers => Top(b) = announced \/ e \in Elems(q)
  <2>1. CASE Top(a) = announced
    BY Zenon, <1>3, <1>5, <2>1, NatOrder
  <2>2. CASE e \in Elems(p)
    <3>1. e.op = "config" /\ e.gen = announced
      OBVIOUS
    <3> HIDE DEF e
    <3>2. e \in Elems(q) \/ e = m
      BY Zenon, <1>1, <2>2
    <3> QED
      BY Zenon, <1>12, <3>1, <3>2
  <2> QED
    BY Zenon, <2>1, <2>2 DEF Progress
<1>14. Releases(Top(b), q)
  BY Zenon, <1>7, <1>12
(* The callbacks. *)
<1>15. \/ b.callbacks = Append(a.callbacks, Remote(TRUE)) /\ Waits(a, m, b)
       \/ b.callbacks = Append(Released(a), Remote(FALSE)) /\ Installs(a, m, b)
       \/ b.callbacks = Append(Released(a), u) /\ Switches(a, m, b)
       \/ b.callbacks = a.callbacks
       \/ b.callbacks = Append(a.callbacks, u)
       \/ b.callbacks = Append(a.callbacks, ReleaseAck(m.gen)) /\ m.op = "release" /\ m.gen # a.gen_id
  BY Zenon, <1>4 DEF Waits, Installs, Switches, Remains, u
<1>16. /\ m.op = "release" /\ m.gen # a.gen_id => Done(b, m.gen)
       /\ Installs(a, m, b) \/ Switches(a, m, b) => Done(b, a.gen_id)
  <2>1. ASSUME m.op = "release", m.gen # a.gen_id PROVE Done(b, m.gen)
    BY Zenon, <1>2, <1>5, <1>7, <2>1 DEF Done
  <2>2. ASSUME Installs(a, m, b) PROVE Done(b, a.gen_id)
    <3>1. b.gen_id = m.gen /\ m.op = "config"
      BY Zenon, <2>2 DEF Installs
    <3> QED
      BY <1>2, <1>3, <1>7, <1>12, <3>1 DEF Done
  <2>3. ASSUME Switches(a, m, b) PROVE Done(b, a.gen_id)
    <3>1. b.gen_id = a.pending /\ m.gen = a.pending /\ b.pending = 0
      BY Zenon, <2>3 DEF Switches
    <3>2. a.pending > a.gen_id /\ a.pending # 0
      BY Zenon, <1>2, <3>1 DEF Order
    <3> QED
      BY <1>3, <3>1, <3>2 DEF Done, Top
  <2> QED
    BY Zenon, <2>1, <2>2, <2>3
<1>17. \A x \in Elems(b.callbacks) :
         \/ x \in Elems(a.callbacks)
         \/ x = ReleaseAck(a.gen_id) /\ (Installs(a, m, b) \/ Switches(a, m, b))
         \/ x = ReleaseAck(m.gen) /\ m.op = "release" /\ m.gen # a.gen_id
         \/ x = u \/ x = Remote(FALSE)
         \/ x = Remote(TRUE) /\ Waits(a, m, b)
  <2>1. /\ \A c \in Callbacks : Elems(Append(a.callbacks, c)) = Elems(a.callbacks) \cup {c}
        /\ \A c \in Callbacks : Elems(Append(Released(a), c)) = Elems(Released(a)) \cup {c}
    BY Zenon, <1>6, <1>9, CallbacksAdded
  <2>2. CASE b.callbacks = Append(a.callbacks, Remote(TRUE)) /\ Waits(a, m, b)
    BY ZenonT(60), <1>8, <2>1, <2>2
  <2>3. CASE b.callbacks = Append(Released(a), Remote(FALSE)) /\ Installs(a, m, b)
    BY Zenon, <1>8, <1>9, <2>1, <2>3
  <2>4. CASE b.callbacks = Append(Released(a), u) /\ Switches(a, m, b)
    BY ZenonT(60), <1>8, <1>9, <2>1, <2>4
  <2>5. CASE b.callbacks = a.callbacks \/ b.callbacks = Append(a.callbacks, u)
    BY Zenon, <1>8, <2>1, <2>5
  <2>6. CASE b.callbacks = Append(a.callbacks, ReleaseAck(m.gen)) /\ m.op = "release" /\ m.gen # a.gen_id
    BY Zenon, <1>8, <2>1, <2>6
  <2> QED
    BY Zenon, <1>15, <2>2, <2>3, <2>4, <2>5, <2>6
<1>18. ASSUME NEW x \in Elems(b.callbacks) \cup Elems(k), x.op = "release_ack" PROVE Done(b, x.gen)
  <2>1. CASE x \in Elems(a.callbacks) \cup Elems(k)
    <3>1. Done(a, x.gen)
      BY Zenon, <1>18, <2>1 DEF Progress
    <3>2. x \in Callbacks
      <4>1. Elems(k) \subseteq Acks
        BY Zenon, ElemsIn
      <4>2. Acks \subseteq Callbacks
        BY Zenon DEF Callbacks
      <4> QED
        BY Zenon, <1>11, <2>1, <4>1, <4>2
    <3> QED
      BY Zenon, <1>5, <1>10, <1>18, <3>1, <3>2
  <2>2. CASE x \in Elems(b.callbacks) /\ x \notin Elems(a.callbacks)
    BY Zenon, <1>8, <1>16, <1>17, <1>18, <2>2
  <2> QED
    BY Zenon, <2>1, <2>2
<1>19. ASSUME b.subscribed \/ Remote(TRUE) \in Elems(b.callbacks) PROVE \E g \in Shared : g <= Top(b)
  <2>1. CASE a.subscribed \/ Remote(TRUE) \in Elems(a.callbacks)
    <3>1. PICK g \in Shared : g <= Top(a)
      BY Zenon, <2>1 DEF Progress
    <3>2. g \in Nat
      <4>1. g \in Gens
        BY Zenon, <1>2, <3>1, PlanFacts
      <4> QED
        BY <4>1 DEF Gens
    <3>3. g <= Top(b)
      BY <1>3, <1>5, <3>1, <3>2
    <3> QED
      BY Zenon, <3>3
  <2>2. CASE Waits(a, m, b)
    <3>1. m.gen \in Shared /\ m.op = "config"
      BY Zenon, <2>2 DEF Waits
    <3>2. m.gen <= m.gen
      BY <1>2
    <3> QED
      BY Zenon, <1>12, <3>1, <3>2
  <2> QED
    BY Zenon, <1>4, <1>8, <1>17, <1>19, <2>1, <2>2
<1>20. After(a.gen_id) => After(b.gen_id)
  BY Zenon, <1>2, <1>3, <1>5, AfterGrows
<1>21. ASSUME Idle(a.subscribed, a.callbacks)
       PROVE  After(b.gen_id) \/ Idle(b.subscribed, b.callbacks)
  <2>1. \A c \in Callbacks : c # Remote(FALSE) =>
          Idle(a.subscribed, Append(a.callbacks, c)) /\ Idle(a.subscribed, Append(Released(a), c))
    BY Zenon, <1>6, <1>9, <1>21, IdleAppend
  <2>2. CASE Installs(a, m, b)
    <3>1. /\ m.op = "config" /\ m.gen \notin Shared /\ b.gen_id = m.gen
          /\ b.callbacks = Append(Released(a), Remote(FALSE))
      BY Zenon, <2>2 DEF Installs
    <3>2. CASE a.subscribed \/ Remote(TRUE) \in Elems(a.callbacks)
      <4>1. PICK g \in Shared : g <= Top(a)
        BY Zenon, <3>2 DEF Progress
      <4>2. g \in Nat /\ m.gen \in DOMAIN plan.mapped
        <5>1. /\ plan \in Plans /\ announced <= Len(plan.mapped)
          BY Zenon DEF MainInv
        <5>2. /\ Shared \subseteq Gens /\ DOMAIN plan.mapped = 1..Len(plan.mapped)
              /\ Len(plan.mapped) \in Gens
          BY Zenon, <5>1, PlanFacts
        <5>3. m.gen <= announced
          BY Zenon, <1>7, <3>1
        <5> QED
          <6>1. g \in Gens
            BY Zenon, <4>1, <5>2
          <6>2. m.gen \in Nat \ {0} /\ announced \in Nat
            BY Zenon, <1>2 DEF Gens
          <6>3. g \in Nat /\ Len(plan.mapped) \in Nat
            BY <5>2, <6>1 DEF Gens
          <6>4. m.gen \in 1..Len(plan.mapped)
            BY <5>1, <5>3, <6>2, <6>3
          <6> QED
            BY Zenon, <5>2, <6>3, <6>4
      <4>3. g < m.gen /\ m.gen <= m.gen
        BY Zenon, <1>2, <1>3, <1>7, <3>1, <4>1, <4>2, NatOrder
      <4> QED
        BY Zenon, <3>1, <4>2, <4>3 DEF After
    <3>3. CASE ~a.subscribed /\ Remote(TRUE) \notin Elems(a.callbacks)
      <4>1. Remote(TRUE) \notin Elems(Released(a))
        BY Zenon, <1>8, <1>9, <3>3
      <4>2. Idle(a.subscribed, Append(Released(a), Remote(FALSE)))
        BY Zenon, <1>8, <1>9, <1>21, <3>3, <4>1, IdleAppend
      <4> QED
        BY Zenon, <1>4, <3>1, <4>2
    <3> QED
      BY Zenon, <3>2, <3>3
  <2> QED
    BY Zenon, <1>4, <1>8, <1>15, <1>21, <2>1, <2>2
<1>22. "unsubscribed" \in Elems(n) => After(b.gen_id)
  BY Zenon, <1>20 DEF Progress
<1>23. After(b.gen_id) \/ Idle(b.subscribed, b.callbacks)
  BY Zenon, <1>20, <1>21 DEF Progress
<1> QED
  BY Zenon, <1>13, <1>14, <1>18, <1>19, <1>22, <1>23 DEF Progress, q

(* A message is received, or dropped. *)
LEMMA ReceivedInv ==
  ASSUME NEW r, NEW a \in AuthType, NEW b, NEW p \in Seq(Messages), NEW q, NEW i, NEW k, NEW n,
         b.gen_id = a.gen_id, b.mapped = a.mapped, b.pending = a.pending, b.release = a.release,
         b.callbacks = a.callbacks, b.subscribed = a.subscribed, b.running = a.running,
         q = p \/ (Without(p, i, q) /\ p[i].op # "config"), Order(a, p)
  PROVE  /\ Order(b, q) /\ (Subscribes(a) => Subscribes(b))
         /\ Progress(r, a, p, k, n) => Progress(r, b, q, k, n)
         /\ Safe(r, a, p) => Safe(r, b, q)
<1>1. Top(b) = Top(a) /\ \A g : Done(b, g) = Done(a, g)
  BY Zenon DEF Top, Done
<1>2. Elems(q) \subseteq Elems(p) /\ \A x \in Elems(p) : x.op = "config" => x \in Elems(q)
  <2>1. CASE q = p
    BY Zenon, <2>1
  <2>2. CASE Without(p, i, q) /\ p[i].op # "config"
    <3>1. Elems(q) \subseteq Elems(p) /\ Elems(p) \subseteq Elems(q) \cup {p[i]}
      BY Zenon, <2>2, Removed
    <3> QED
      BY Zenon, <2>2, <3>1
  <2> QED
    BY Zenon, <2>1, <2>2
<1>3. Configs(Top(a), announced, q)
  BY Zenon, ConfigsWithout DEF Order
<1>4. Order(b, q)
  BY Zenon, <1>1, <1>3 DEF Order
<1>5. Subscribes(a) => Subscribes(b)
  BY Zenon DEF Subscribes
<1>6. Safe(r, a, p) => Safe(r, b, q)
  BY Zenon, <1>1, <1>2 DEF Safe, Serves
<1>7. ASSUME Progress(r, a, p, k, n) PROVE Progress(r, b, q, k, n)
  <2>1. Releases(Top(a), q)
    <3>1. Releases(Top(a), p) /\ Top(a) \in Nat
      BY Zenon, <1>7, TopFacts DEF Progress, Order
    <3> QED
      BY Zenon, <3>1, ReleasesWithout
  <2>2. r \in plan.readers => Top(a) = announced \/ [op |-> "config", gen |-> announced] \in Elems(q)
    <3> DEFINE e == [op |-> "config", gen |-> announced]
    <3>1. e.op = "config"
      BY Zenon
    <3>2. r \in plan.readers => Top(a) = announced \/ e \in Elems(p)
      BY Zenon, <1>7 DEF Progress
    <3> HIDE DEF e
    <3>3. r \in plan.readers => Top(a) = announced \/ e \in Elems(q)
      BY Zenon, <1>2, <3>1, <3>2
    <3> QED
      BY Zenon, <3>3 DEF e
  <2> QED
    BY Zenon, <1>1, <1>7, <2>1, <2>2 DEF Progress
<1> QED
  BY Zenon, <1>4, <1>5, <1>6, <1>7

(* A callback is run. *)
LEMMA CalledInv ==
  ASSUME NEW r, NEW a \in AuthType, NEW b, NEW p, NEW k \in Seq(Acks), NEW l,
         NEW n \in Seq({"subscribed", "unsubscribed"}), NEW o,
         a.callbacks # <<>>, Called(a, Head(a.callbacks), b),
         l = k \/ (Head(a.callbacks) \in Acks /\ l = Append(k, Head(a.callbacks))),
         \/ o = n \/ o = Append(n, "subscribed")
         \/ /\ Head(a.callbacks) = Remote(FALSE) /\ a.subscribed
            /\ o = Append(n, "unsubscribed"),
         Order(a, p)
  PROVE  /\ Order(b, p) /\ (Subscribes(a) => Subscribes(b))
         /\ Progress(r, a, p, k, n) => Progress(r, b, p, l, o)
         /\ Safe(r, a, p) => Safe(r, b, p)
<1> DEFINE c == Head(a.callbacks)
           q == Tail(a.callbacks)
<1>1. a.callbacks \in Seq(Callbacks)
  BY Zenon DEF AuthType
<1>2. c \in Callbacks /\ c \in Elems(a.callbacks) /\ Elems(q) \subseteq Elems(a.callbacks)
  BY Zenon, <1>1, TailIsWithout, Removed
<1>3. /\ b.gen_id = a.gen_id /\ b.mapped = a.mapped /\ b.pending = a.pending
      /\ b.release = a.release /\ b.running = a.running /\ b.callbacks = q
      /\ b.subscribed = IF c.op = "reconfigured" THEN c.remote ELSE a.subscribed
  <2>1. b = [a EXCEPT !.callbacks = q, !.subscribed = b.subscribed]
    BY Zenon DEF Called
  <2>2. /\ b.gen_id = a.gen_id /\ b.mapped = a.mapped /\ b.pending = a.pending
        /\ b.release = a.release /\ b.running = a.running /\ b.callbacks = q
    BY Zenon, <2>1 DEF AuthType
  <2> QED
    BY Zenon, <2>2 DEF Called
<1>4. /\ LastTrue(a.subscribed, a.callbacks) => LastTrue(b.subscribed, q)
      /\ Idle(a.subscribed, a.callbacks) => Idle(b.subscribed, q) /\ (c = Remote(FALSE) => ~a.subscribed)
  BY Zenon, <1>1, <1>3, LastTrueTail, IdleTail
<1> HIDE DEF c, q
<1>5. Top(b) = Top(a) /\ \A g : Done(b, g) = Done(a, g)
  BY Zenon, <1>3 DEF Top, Done
<1>6. Order(b, p)
  BY Zenon, <1>3, <1>5 DEF Order
<1>7. Subscribes(a) => Subscribes(b)
  BY Zenon, <1>3, <1>4 DEF Subscribes
<1>8. Safe(r, a, p) => Safe(r, b, p)
  BY Zenon, <1>3, <1>5 DEF Safe, Serves
<1>9. ASSUME Progress(r, a, p, k, n) PROVE Progress(r, b, p, l, o)
  <2>1. \A x \in Elems(l) : x \in Elems(k) \/ x = c
    <3>1. ASSUME c \in Acks PROVE Elems(Append(k, c)) = Elems(k) \cup {c}
      BY <3>1, Appended
    <3> QED
      BY Zenon, <3>1 DEF c
  <2>2. \A x \in Elems(b.callbacks) \cup Elems(l) : x.op = "release_ack" => Done(b, x.gen)
    BY Zenon, <1>2, <1>3, <1>5, <1>9, <2>1 DEF Progress
  <2>3. b.subscribed \/ Remote(TRUE) \in Elems(b.callbacks) =>
          a.subscribed \/ Remote(TRUE) \in Elems(a.callbacks)
    <3>1. ASSUME b.subscribed, ~a.subscribed PROVE c = Remote(TRUE)
      <4>1. c.op = "reconfigured" /\ c.remote
        BY Zenon, <1>3, <3>1
      <4>2. c.remote = TRUE /\ c = Remote(c.remote)
        BY Zenon, <1>2, <4>1, RemoteFacts
      <4> QED
        BY Zenon, <4>2
    <3> QED
      BY Zenon, <1>2, <1>3, <3>1
  <2>4. After(b.gen_id) \/ Idle(b.subscribed, b.callbacks)
    BY Zenon, <1>3, <1>4, <1>9 DEF Progress
  <2>5. "unsubscribed" \in Elems(o) => "unsubscribed" \in Elems(n) \/ (c = Remote(FALSE) /\ a.subscribed)
    <3>1. \A x \in {"subscribed", "unsubscribed"} : Elems(Append(n, x)) = Elems(n) \cup {x}
      BY Appended
    <3>2. "subscribed" # "unsubscribed"
      OBVIOUS
    <3> QED
      BY Zenon, <3>1, <3>2 DEF c
  <2>6. "unsubscribed" \in Elems(o) => After(b.gen_id)
    BY Zenon, <1>3, <1>4, <1>9, <2>5 DEF Progress
  <2>7. /\ r \in plan.readers =>
             Top(b) = announced \/ [op |-> "config", gen |-> announced] \in Elems(p)
        /\ Releases(Top(b), p)
    BY Zenon, <1>5, <1>9 DEF Progress
  <2>8. b.subscribed \/ Remote(TRUE) \in Elems(b.callbacks) => \E g \in Shared : g <= Top(b)
    BY Zenon, <1>5, <1>9, <2>3 DEF Progress
  <2> QED
    BY Zenon, <2>2, <2>4, <2>6, <2>7, <2>8 DEF Progress
<1> QED
  BY Zenon, <1>6, <1>7, <1>8, <1>9

LEMMA PlanKept ==
  ASSUME plan' = plan
  PROVE  Shared' = Shared /\ ComesBack' = ComesBack /\ \A g : After(g)' = After(g)
<1>1. Shared' = Shared
  BY Zenon DEF Shared
<1> QED
  BY Zenon, <1>1 DEF ComesBack, After

(* What a bundy-auth does changes nothing of the others. *)
LEMMA ReaderInvKept ==
  ASSUME UNCHANGED <<plan, announced, mainVars>>, NEW r \in Readers,
         Order(auth'[r], Ahead(r)'), ~plan.rejects => Subscribes(auth'[r]),
         ~plan.rejects /\ ~ComesBack =>
            /\ Progress(r, auth'[r], Ahead(r)', acks'[r], notices'[r])
            /\ Safe(r, auth'[r], Ahead(r)')
  PROVE  ReaderInv(r)'
<1>1. /\ plan' = plan /\ announced' = announced /\ current' = current /\ seg' = seg
      /\ cleaned' = cleaned
  BY Zenon DEF mainVars
<1>2. Shared' = Shared /\ ComesBack' = ComesBack /\ \A g : After(g)' = After(g)
  BY Zenon, <1>1, PlanKept
<1>3. Order(auth[r], Ahead(r))'
  BY Zenon, <1>1, <1>2 DEF Order
<1>4. ~plan'.rejects => Subscribes(auth[r])'
  BY Zenon, <1>1 DEF Subscribes
<1>5. ~plan'.rejects /\ ~ComesBack' => Progress(r, auth[r], Ahead(r), acks[r], notices[r])'
  BY Zenon, <1>1, <1>2 DEF Progress
<1>6. ~plan'.rejects /\ ~ComesBack' => Safe(r, auth[r], Ahead(r))'
  BY Zenon, <1>1, <1>2 DEF Safe
<1> QED
  BY Zenon, <1>3, <1>4, <1>5, <1>6 DEF ReaderInv

LEMMA AheadType ==
  ASSUME LinkInv, NEW r \in Readers
  PROVE  /\ auth[r] \in AuthType /\ auth[r].queue \in Seq(Messages) /\ sock[r] \in Seq(Messages)
         /\ Ahead(r) \in Seq(Messages) /\ acks[r] \in Seq(Acks)
         /\ notices[r] \in Seq({"subscribed", "unsubscribed"})
<1>1. /\ auth[r] \in AuthType /\ sock[r] \in Seq(Messages) /\ acks[r] \in Seq(Acks)
      /\ notices[r] \in Seq({"subscribed", "unsubscribed"})
  BY Zenon DEF LinkInv
<1>2. auth[r].queue \in Seq(Messages)
  BY Zenon, <1>1 DEF AuthType
<1> QED
  BY Zenon, <1>1, <1>2, Concatenated DEF Ahead

LEMMA OthersKept ==
  ASSUME UNCHANGED <<plan, announced, mainVars>>, NEW s \in Readers, ReaderInv(s),
         auth'[s] = auth[s], sock'[s] = sock[s], acks'[s] = acks[s], notices'[s] = notices[s]
  PROVE  ReaderInv(s)'
<1>1. Ahead(s)' = Ahead(s)
  BY Zenon DEF Ahead
<1> QED
  BY Zenon, <1>1, ReaderInvKept DEF ReaderInv

LEMMA ReceiveStep ==
  ASSUME GenInv, NEW r \in Readers, AuthReceive(r)
  PROVE  /\ \A s \in Readers : ReaderInv(s)'
         /\ \A s \in Readers : auth[s].gen_id <= auth'[s].gen_id
<1> DEFINE a == auth[r]
           b == auth'[r]
           m == Head(sock[r])
           p == Ahead(r)
<1>0. LinkInv /\ ReaderInv(r) /\ \A s \in Readers : ReaderInv(s)
  BY Zenon DEF GenInv, MemInv
<1>1. /\ sock[r] # <<>> /\ m \in Messages /\ sock'[r] = Tail(sock[r])
      /\ \/ b = a /\ m.op # "config"
         \/ b = [a EXCEPT !.queue = Append(a.queue, m)]
      /\ \A s \in Readers \ {r} : auth'[s] = auth[s] /\ sock'[s] = sock[s]
      /\ UNCHANGED <<plan, announced, mainVars>> /\ acks' = acks /\ notices' = notices
  BY Zenon, <1>0, ReceiveFacts
<1>2. a \in AuthType /\ a.queue \in Seq(Messages) /\ sock[r] \in Seq(Messages) /\ p \in Seq(Messages)
  BY Zenon, <1>0, AheadType
<1>3. /\ b.gen_id = a.gen_id /\ b.mapped = a.mapped /\ b.pending = a.pending /\ b.release = a.release
      /\ b.callbacks = a.callbacks /\ b.subscribed = a.subscribed /\ b.running = a.running
      /\ \/ b.queue = a.queue /\ m.op # "config"
         \/ b.queue = Append(a.queue, m)
  BY Zenon, <1>1, <1>2 DEF AuthType
<1>4. Ahead(r)' = p \/ (Without(p, Len(a.queue) + 1, Ahead(r)') /\ p[Len(a.queue) + 1].op # "config")
  <2>1. /\ Append(a.queue, m) \o Tail(sock[r]) = a.queue \o sock[r]
        /\ Without(a.queue \o sock[r], Len(a.queue) + 1, a.queue \o Tail(sock[r]))
        /\ (a.queue \o sock[r])[Len(a.queue) + 1] = m
    <3> DEFINE q == a.queue
               s == sock[r]
    <3>1. q \in Seq(Messages) /\ s \in Seq(Messages) /\ s # <<>>
      BY Zenon, <1>1, <1>2
    <3> HIDE DEF q, s
    <3>2. /\ Append(q, Head(s)) \o Tail(s) = q \o s
          /\ Without(q \o s, Len(q) + 1, q \o Tail(s))
          /\ (q \o s)[Len(q) + 1] = Head(s)
      BY Zenon, <3>1, ConcatRest
    <3> QED
      BY Zenon, <3>2 DEF q, s
  <2>2. Ahead(r)' = b.queue \o Tail(sock[r])
    BY Zenon, <1>1 DEF Ahead
  <2> HIDE DEF m, b
  <2> QED
    BY Zenon, <1>3, <2>1, <2>2 DEF Ahead
<1> HIDE DEF m
<1>5. /\ Order(b, Ahead(r)') /\ (Subscribes(a) => Subscribes(b))
      /\ Progress(r, a, p, acks[r], notices[r]) => Progress(r, b, Ahead(r)', acks[r], notices[r])
      /\ Safe(r, a, p) => Safe(r, b, Ahead(r)')
  <2>1. Order(a, p)
    BY Zenon, <1>0 DEF ReaderInv
  <2> DEFINE q == Ahead(r)'
             i == Len(a.queue) + 1
             k == acks[r]
             n == notices[r]
  <2>2. q = p \/ (Without(p, i, q) /\ p[i].op # "config")
    BY Zenon, <1>4
  <2> HIDE DEF a, b, p, q, i, k, n
  <2>3. /\ Order(b, q) /\ (Subscribes(a) => Subscribes(b))
        /\ Progress(r, a, p, k, n) => Progress(r, b, q, k, n)
        /\ Safe(r, a, p) => Safe(r, b, q)
    BY Zenon, <1>2, <1>3, <2>1, <2>2, ReceivedInv
  <2> QED
    BY Zenon, <2>3 DEF q, k, n
<1>6. ReaderInv(r)'
  BY Zenon, <1>0, <1>1, <1>5, ReaderInvKept DEF ReaderInv
<1>7. \A s \in Readers \ {r} : ReaderInv(s)'
  BY Zenon, <1>0, <1>1, OthersKept
<1>8. \A s \in Readers : auth'[s].gen_id = auth[s].gen_id /\ auth[s].gen_id \in Nat
  <2>1. \A s \in Readers : auth'[s].gen_id = auth[s].gen_id
    BY Zenon, <1>1, <1>3
  <2>2. \A s \in Readers : auth[s].gen_id \in Gens \cup {0}
    BY Zenon, <1>0, AheadType DEF AuthType
  <2> QED
    BY <2>1, <2>2 DEF Gens
<1>9. \A s \in Readers : auth[s].gen_id <= auth'[s].gen_id
  BY <1>8
<1> QED
  BY Zenon, <1>6, <1>7, <1>9

LEMMA HandleStep ==
  ASSUME GenInv, NEW r \in Readers, AuthHandleCommand(r)
  PROVE  /\ \A s \in Readers : ReaderInv(s)'
         /\ \A s \in Readers : auth[s].gen_id <= auth'[s].gen_id
<1> DEFINE a == auth[r]
           b == auth'[r]
           p == Ahead(r)
<1>0. MainInv /\ LinkInv /\ ReaderInv(r) /\ \A s \in Readers : ReaderInv(s)
  BY Zenon DEF GenInv, MemInv
<1>1. /\ a.queue # <<>> /\ Handled(a, Head(a.queue), b)
      /\ \A s \in Readers \ {r} : auth'[s] = auth[s]
      /\ UNCHANGED <<plan, announced, mainVars>>
      /\ sock' = sock /\ acks' = acks /\ notices' = notices
  BY Zenon, <1>0, HandleFacts DEF channelVars
<1>2. /\ a \in AuthType /\ a.queue \in Seq(Messages) /\ sock[r] \in Seq(Messages)
      /\ p \in Seq(Messages) /\ acks[r] \in Seq(Acks)
  BY Zenon, <1>0, AheadType
<1>3. Ahead(r)' = Tail(p) /\ Head(p) = Head(a.queue) /\ p # <<>>
  <2>1. /\ Tail(a.queue) \o sock[r] = Tail(a.queue \o sock[r])
        /\ Head(a.queue \o sock[r]) = Head(a.queue) /\ a.queue \o sock[r] # <<>>
    BY Zenon, <1>1, <1>2, ConcatHead
  <2>2. b.queue = Tail(a.queue)
    BY Zenon, <1>1 DEF Handled
  <2> QED
    BY Zenon, <1>1, <2>1, <2>2 DEF Ahead
<1>4. Handled(a, Head(p), b) /\ Head(p) \in Messages
  BY Zenon, <1>1, <1>2, <1>3, TailIsWithout
<1> HIDE DEF a, b, p
<1>5. Order(a, p)
  BY Zenon, <1>0 DEF ReaderInv, a, p
<1>6. Order(b, Tail(p)) /\ Moves(a, b)
  BY Zenon, <1>0, <1>2, <1>3, <1>4, <1>5, HandledOrder
<1>7. ~plan.rejects => Subscribes(b)
  BY Zenon, <1>0, <1>2, <1>4, HandledSubscribes DEF ReaderInv, a
<1>8. ASSUME ~plan.rejects, ~ComesBack
      PROVE  Progress(r, b, Tail(p), acks[r], notices[r]) /\ Safe(r, b, Tail(p))
  <2>1. Progress(r, a, p, acks[r], notices[r]) /\ Safe(r, a, p)
    BY Zenon, <1>0, <1>8 DEF ReaderInv, a, p
  <2>2. Progress(r, b, Tail(p), acks[r], notices[r])
    BY Zenon, <1>0, <1>2, <1>3, <1>4, <1>5, <1>6, <1>8, <2>1, HandledProgress
  <2>3. Safe(r, b, Tail(p))
    BY Zenon, <1>2, <1>3, <1>4, <1>5, <1>6, <1>8, <2>1, HandledSafe
  <2> QED
    BY Zenon, <2>2, <2>3
<1>9. ReaderInv(r)'
  BY Zenon, <1>1, <1>3, <1>6, <1>7, <1>8, ReaderInvKept DEF b
<1>10. \A s \in Readers \ {r} : ReaderInv(s)'
  BY Zenon, <1>0, <1>1, OthersKept
<1>11. \A s \in Readers \ {r} : auth'[s].gen_id = auth[s].gen_id /\ auth[s].gen_id <= auth[s].gen_id
  <2>1. \A s \in Readers : auth[s].gen_id \in Gens \cup {0}
    BY Zenon, <1>0, AheadType DEF AuthType
  <2>2. \A s \in Readers : auth[s].gen_id <= auth[s].gen_id
    BY <2>1 DEF Gens
  <2> QED
    BY Zenon, <1>1, <2>2
<1>12. a.gen_id <= b.gen_id
  BY Zenon, <1>6 DEF Moves
<1> QED
  BY Zenon, <1>9, <1>10, <1>11, <1>12 DEF a, b

LEMMA CallbackStep ==
  ASSUME GenInv, NEW r \in Readers, AuthCallback(r)
  PROVE  /\ \A s \in Readers : ReaderInv(s)'
         /\ \A s \in Readers : auth[s].gen_id <= auth'[s].gen_id
<1> DEFINE a == auth[r]
           b == auth'[r]
           c == Head(a.callbacks)
           p == Ahead(r)
<1>0. LinkInv /\ ReaderInv(r) /\ \A s \in Readers : ReaderInv(s)
  BY Zenon DEF GenInv, MemInv
<1>1. /\ a.callbacks # <<>> /\ Called(a, c, b)
      /\ acks'[r] = acks[r] \/ (c \in Acks /\ acks'[r] = Append(acks[r], c))
      /\ \/ notices'[r] = notices[r] \/ notices'[r] = Append(notices[r], "subscribed")
         \/ /\ c = Remote(FALSE) /\ a.subscribed
            /\ notices'[r] = Append(notices[r], "unsubscribed")
      /\ \A s \in Readers \ {r} :
           auth'[s] = auth[s] /\ acks'[s] = acks[s] /\ notices'[s] = notices[s]
      /\ UNCHANGED <<plan, announced, mainVars>> /\ sock' = sock
  BY Zenon, <1>0, CallbackFacts
<1>2. /\ a \in AuthType /\ acks[r] \in Seq(Acks)
      /\ notices[r] \in Seq({"subscribed", "unsubscribed"})
  BY Zenon, <1>0, AheadType
<1>3. b.queue = a.queue /\ b.gen_id = a.gen_id
  <2>1. b = [a EXCEPT !.callbacks = Tail(a.callbacks), !.subscribed = b.subscribed]
    BY Zenon, <1>1 DEF Called
  <2> QED
    BY Zenon, <1>2, <2>1 DEF AuthType
<1>4. Ahead(r)' = p
  BY Zenon, <1>1, <1>3 DEF Ahead
<1>5. /\ Order(b, p) /\ (Subscribes(a) => Subscribes(b))
      /\ Progress(r, a, p, acks[r], notices[r]) => Progress(r, b, p, acks'[r], notices'[r])
      /\ Safe(r, a, p) => Safe(r, b, p)
  BY ZenonT(60), <1>0, <1>1, <1>2, CalledInv DEF ReaderInv
<1>6. ReaderInv(r)'
  BY Zenon, <1>0, <1>1, <1>4, <1>5, ReaderInvKept DEF ReaderInv
<1>7. \A s \in Readers \ {r} : ReaderInv(s)'
  BY Zenon, <1>0, <1>1, OthersKept
<1>8. \A s \in Readers : auth'[s].gen_id = auth[s].gen_id
  BY Zenon, <1>1, <1>3
<1>9. \A s \in Readers : auth[s].gen_id \in Gens \cup {0}
  BY Zenon, <1>0, AheadType DEF AuthType
<1>10. \A s \in Readers : auth[s].gen_id <= auth'[s].gen_id
  BY <1>8, <1>9 DEF Gens
<1> QED
  BY Zenon, <1>6, <1>7, <1>10

LEMMA AnnounceStep ==
  ASSUME GenInv, Announce
  PROVE  auth' = auth /\ \A r \in Readers : ReaderInv(r)'
<1> DEFINE m == [op |-> "config", gen |-> announced']
<1>0. MainInv /\ LinkInv /\ \A r \in Readers : ReaderInv(r)
  BY Zenon DEF GenInv, MemInv
<1>1. /\ announced' = announced + 1 /\ m \in Messages
      /\ \A r \in Readers : sock'[r] = IF r \in plan.readers THEN Append(sock[r], m) ELSE sock[r]
      /\ plan' = plan /\ current' = current /\ seg' = seg /\ cleaned' = cleaned
      /\ auth' = auth /\ acks' = acks /\ notices' = notices
  BY Zenon, <1>0, AnnounceFacts DEF mainVars
<1>2. announced \in Nat
  BY <1>0 DEF MainInv, Gens
<1>3. m.op = "config" /\ m.op # "update" /\ m.op # "release" /\ m.gen = announced'
  OBVIOUS
<1>4. Shared' = Shared /\ ComesBack' = ComesBack /\ \A g : After(g)' = After(g)
  BY Zenon, <1>1, PlanKept
<1>5. ASSUME NEW r \in Readers PROVE ReaderInv(r)'
  <2> DEFINE a == auth[r]
             p == Ahead(r)
             q == Ahead(r)'
  <2>1. /\ a \in AuthType /\ a.queue \in Seq(Messages) /\ sock[r] \in Seq(Messages)
        /\ p \in Seq(Messages)
    BY Zenon, <1>0, AheadType
  <2>2. Order(a, p) /\ Top(a) \in Nat /\ Top(a) <= announced /\ Configs(Top(a), announced, p)
    BY Zenon, <1>0, <2>1, TopFacts DEF ReaderInv, Order
  <2>3. /\ Configs(Top(a), announced + 1, q)
        /\ Releases(Top(a), p) => Releases(Top(a), q)
        /\ \A x \in Elems(q) : x \in Elems(p) \/ x = m
        /\ r \in plan.readers => m \in Elems(q)
    <3>1. CASE r \in plan.readers
      <4>1. q = Append(p, m)
        <5>1. a.queue \o Append(sock[r], m) = Append(a.queue \o sock[r], m)
          <6> DEFINE u == a.queue
                     s == sock[r]
          <6>1. u \in Seq(Messages) /\ s \in Seq(Messages) /\ m \in Messages
            BY Zenon, <1>1, <2>1
          <6> HIDE DEF u, s, m, a
          <6>2. u \o Append(s, m) = Append(u \o s, m)
            BY <6>1, Concatenated
          <6> QED
            BY Zenon, <6>2 DEF u, s
        <5> QED
          BY Zenon, <1>1, <3>1, <5>1 DEF Ahead
      <4> HIDE DEF m, p, q, a
      <4>2. Elems(q) = Elems(p) \cup {m}
        <5>1. m \in Messages
          BY Zenon, <1>1
        <5> QED
          BY <2>1, <4>1, <5>1, Appended
      <4>3. m.gen = announced + 1
        BY Zenon, <1>1, <1>3
      <4>4. Configs(Top(a), announced + 1, q)
        BY Zenon, <1>1, <1>2, <1>3, <2>1, <2>2, <4>1, <4>3, ConfigsAppend
      <4>5. Releases(Top(a), p) => Releases(Top(a), q)
        BY Zenon, <1>1, <1>3, <2>1, <4>1, ReleasesAppend
      <4> QED
        BY Zenon, <4>2, <4>4, <4>5
    <3>2. CASE r \notin plan.readers
      <4>1. a.queue = <<>> /\ sock[r] = <<>>
        BY Zenon, <1>0, <3>2 DEF LinkInv, Quiet
      <4>2. q = p
        BY Zenon, <1>1, <3>2 DEF Ahead
      <4>3. Len(p) = 0
        BY <4>1 DEF Ahead
      <4> HIDE DEF p, q, m
      <4>4. Configs(Top(a), announced + 1, p)
        BY <4>3 DEF Configs
      <4> QED
        BY Zenon, <3>2, <4>2, <4>4
    <3> QED
      BY Zenon, <3>1, <3>2
  <2>4. Top(a) <= announced + 1
    BY <1>2, <2>2
  <2>5. auth'[r] = a /\ acks'[r] = acks[r] /\ notices'[r] = notices[r]
    BY Zenon, <1>1
  <2> HIDE DEF a, p, q, m
  <2>6. Order(auth[r], Ahead(r))'
    BY Zenon, <1>1, <1>4, <2>2, <2>3, <2>4, <2>5 DEF Order, q
  <2>7. ~plan'.rejects => Subscribes(auth[r])'
    BY Zenon, <1>0, <1>1, <2>5 DEF ReaderInv, Subscribes, a
  <2>8. ASSUME ~plan.rejects, ~ComesBack
        PROVE  Progress(r, a, p, acks[r], notices[r]) /\ Safe(r, a, p)
    BY Zenon, <1>0, <2>8 DEF ReaderInv, a, p
  <2>9. ASSUME ~plan.rejects, ~ComesBack
        PROVE  Progress(r, auth[r], Ahead(r), acks[r], notices[r])'
    BY Zenon, <1>1, <1>4, <2>3, <2>5, <2>8, <2>9 DEF Progress, q, m
  <2>10. ASSUME ~plan.rejects, ~ComesBack
         PROVE  Safe(r, auth[r], Ahead(r))'
    <3>1. \A g \in Gens : Serves(a, q, g) => Serves(a, p, g)
      BY Zenon, <1>3, <2>3 DEF Serves
    <3> QED
      BY Zenon, <1>1, <1>4, <2>5, <2>8, <2>10, <3>1 DEF Safe, q
  <2> QED
    BY Zenon, <1>1, <1>4, <2>6, <2>7, <2>9, <2>10 DEF ReaderInv
<1> QED
  BY Zenon, <1>1, <1>5

(* A step of memmgr. *)
LEMMA MemReaderStep ==
  ASSUME GenInv, MemInv', MemStep, NEW r \in Readers
  PROVE  ReaderInv(r)'
<1> DEFINE a == auth[r]
           p == Ahead(r)
           q == Ahead(r)'
           e == [op |-> "config", gen |-> announced]
<1>0. MainInv /\ LinkInv /\ ReaderInv(r)
  BY Zenon DEF GenInv, MemInv
<1>1. /\ plan' = plan /\ announced' = announced /\ auth' = auth /\ current <= current'
      /\ Tells /\ Keeps /\ Takes
  BY Zenon DEF MemStep
<1>2. Shared' = Shared /\ ComesBack' = ComesBack /\ \A g : After(g)' = After(g)
  BY Zenon, <1>1, PlanKept
<1>3. /\ announced \in Nat /\ current \in Nat /\ current' \in Nat /\ current <= announced
      /\ plan \in Plans
  <2>1. announced \in Gens /\ current \in Gens /\ current' \in Gens /\ current <= announced
        /\ plan \in Plans
    BY Zenon, <1>0 DEF MemInv, MainInv
  <2> QED
    BY <2>1 DEF Gens
<1>4. /\ a \in AuthType /\ a.queue \in Seq(Messages) /\ sock[r] \in Seq(Messages)
      /\ p \in Seq(Messages) /\ acks[r] \in Seq(Acks)
      /\ notices[r] \in Seq({"subscribed", "unsubscribed"})
  BY Zenon, <1>0, AheadType
<1>5. Order(a, p)
  BY Zenon, <1>0 DEF ReaderInv
<1>6. /\ Top(a) \in Nat /\ a.gen_id \in Nat /\ a.gen_id <= Top(a) /\ Configs(Top(a), announced, p)
  BY Zenon, <1>4, <1>5, TopFacts DEF Order
<1>7. q = p \/ \E m \in Messages : Told(r, m) /\ q = Append(p, m)
  <2>1. CASE sock'[r] = sock[r]
    BY Zenon, <1>1, <2>1 DEF Ahead
  <2>2. ASSUME NEW m \in Messages, Told(r, m), sock'[r] = Append(sock[r], m)
        PROVE  q = Append(p, m)
    <3>1. a.queue \o Append(sock[r], m) = Append(a.queue \o sock[r], m)
      <4> DEFINE u == a.queue
                 s == sock[r]
      <4>1. u \in Seq(Messages) /\ s \in Seq(Messages)
        BY Zenon, <1>4
      <4> HIDE DEF u, s, a
      <4>2. u \o Append(s, m) = Append(u \o s, m)
        BY <4>1, Concatenated
      <4> QED
        BY Zenon, <4>2 DEF u, s
    <3> QED
      BY Zenon, <1>1, <2>2, <3>1 DEF Ahead
  <2> QED
    BY Zenon, <1>1, <2>1, <2>2 DEF Tells
<1>8. auth'[r] = a
  BY Zenon, <1>1
<1>9. /\ Elems(acks'[r]) \subseteq Elems(acks[r])
      /\ Elems(notices'[r]) \subseteq Elems(notices[r])
      /\ acks[r] # <<>> => Head(acks[r]) \in Elems(acks[r])
      /\ notices[r] # <<>> => Head(notices[r]) \in Elems(notices[r])
  <2>1. /\ acks[r] # <<>> => /\ Head(acks[r]) \in Elems(acks[r])
                             /\ Elems(Tail(acks[r])) \subseteq Elems(acks[r])
        /\ notices[r] # <<>> => /\ Head(notices[r]) \in Elems(notices[r])
                                /\ Elems(Tail(notices[r])) \subseteq Elems(notices[r])
    BY Zenon, <1>4, TailIsWithout, Removed
  <2> QED
    BY Zenon, <1>1, <2>1 DEF Takes
<1> HIDE DEF a, p, q
<1>10. ASSUME NEW m \in Messages, q = Append(p, m) PROVE Elems(q) = Elems(p) \cup {m}
  BY <1>4, <1>10, Appended
<1>11. Configs(Top(a), announced, q)
  <2>1. ASSUME NEW m \in Messages, Told(r, m), q = Append(p, m) PROVE Configs(Top(a), announced, q)
    <3>1. m.op # "config"
      BY <2>1 DEF Told
    <3> QED
      BY Zenon, <1>3, <1>4, <1>6, <2>1, <3>1, ConfigsAppend
  <2> QED
    BY Zenon, <1>6, <1>7, <2>1
<1>12. Order(auth[r], Ahead(r))'
  BY Zenon, <1>1, <1>2, <1>5, <1>8, <1>11 DEF Order, q
<1>13. ~plan'.rejects => Subscribes(auth[r])'
  BY Zenon, <1>0, <1>1, <1>8 DEF ReaderInv, Subscribes, a
<1>14. ASSUME ~plan.rejects, ~ComesBack
       PROVE  Progress(r, a, p, acks[r], notices[r]) /\ Safe(r, a, p)
  BY Zenon, <1>0, <1>14 DEF ReaderInv, a, p
<1>15. ASSUME ~plan.rejects, ~ComesBack
       PROVE  Progress(r, auth[r], Ahead(r), acks[r], notices[r])'
  <2>1. Elems(p) \subseteq Elems(q)
    BY Zenon, <1>7, <1>10
  <2>2. Releases(Top(a), p) /\ (r \in plan.readers => Top(a) = announced \/ e \in Elems(p))
    BY Zenon, <1>14, <1>15 DEF Progress
  <2>3. ASSUME NEW m \in Messages, Told(r, m), q = Append(p, m) PROVE Releases(Top(a), q)
    <3>1. ASSUME m.op = "release"
          PROVE  Top(a) > m.gen \/ \E c \in Elems(p) : c.op = "config" /\ c.gen > m.gen
      <4>1. r \in plan.readers /\ m.gen < current
        BY <2>3, <3>1 DEF Told
      <4>2. m.gen \in Nat
        <5>1. m.gen \in Gens
          BY Zenon DEF Messages
        <5> QED
          BY <5>1 DEF Gens
      <4>3. announced > m.gen /\ e.op = "config" /\ e.gen = announced
        BY <1>3, <4>1, <4>2
      <4> HIDE DEF e
      <4> QED
        BY Zenon, <2>2, <4>1, <4>3
    <3> QED
      BY Zenon, <1>4, <2>2, <2>3, <3>1, ReleasesAppend
  <2>4. Releases(Top(a), q)
    BY Zenon, <1>7, <2>2, <2>3
  <2> QED
    BY Zenon, <1>1, <1>2, <1>8, <1>9, <1>14, <1>15, <2>1, <2>4 DEF Progress, q
<1>16. ASSUME ~plan.rejects, ~ComesBack
       PROVE  Safe(r, auth[r], Ahead(r))'
  <2>1. Shared \subseteq Nat /\ DOMAIN plan.mapped \subseteq Nat
    BY <1>3, PlanFacts DEF Gens
  <2>2. Progress(r, a, p, acks[r], notices[r]) /\ Safe(r, a, p)
    BY Zenon, <1>14, <1>16
  <2>3. ASSUME NEW g \in Shared, After(a.gen_id) PROVE Done(a, g)
    <3>1. PICK b \in Shared, f \in DOMAIN plan.mapped \ Shared : b < f /\ f <= a.gen_id
      BY Zenon, <2>3 DEF After
    <3>2. ~(f < g)
      BY Zenon, <1>16, <3>1 DEF ComesBack
    <3>3. f # g
      BY <3>1
    <3> QED
      BY <1>6, <2>1, <3>1, <3>2, <3>3 DEF Done
  <2>4. ASSUME NEW g \in Gens, Serves(a, p, g)
        PROVE  /\ g \in Shared /\ g <= current
               /\ Done(a, g) \/ (r \in AllReaders(seg'[g]) /\ g \notin cleaned')
    <3>1. /\ g \in Shared /\ g <= current
          /\ Done(a, g) \/ (r \in AllReaders(seg[g]) /\ g \notin cleaned)
      BY Zenon, <2>2, <2>4 DEF Safe
    <3>2. CASE r \in AllReaders(seg[g]) /\ g \notin cleaned
      <4>1. \/ r \in AllReaders(seg'[g]) /\ g \notin cleaned'
            \/ acks[r] # <<>> /\ Head(acks[r]).op = "release_ack" /\ Head(acks[r]).gen = g
            \/ notices[r] # <<>> /\ Head(notices[r]) = "unsubscribed"
        BY Zenon, <1>1, <3>1, <3>2 DEF Keeps
      <4>2. CASE acks[r] # <<>> /\ Head(acks[r]).op = "release_ack" /\ Head(acks[r]).gen = g
        BY Zenon, <1>9, <2>2, <3>1, <4>2 DEF Progress
      <4>3. CASE notices[r] # <<>> /\ Head(notices[r]) = "unsubscribed"
        BY Zenon, <1>9, <2>2, <2>3, <3>1, <4>3 DEF Progress
      <4> QED
        BY Zenon, <3>1, <4>1, <4>2, <4>3
    <3> QED
      BY Zenon, <3>1, <3>2
  <2>5. ASSUME NEW g \in Gens, Serves(a, q, g), ~Serves(a, p, g)
        PROVE  /\ g \in Shared /\ g <= current /\ r \in AllReaders(seg'[g]) /\ g \notin cleaned'
    <3>1. PICK m \in Messages : Told(r, m) /\ q = Append(p, m)
      BY Zenon, <1>7, <2>5
    <3>2. m.op = "update" /\ m.gen = g
      BY Zenon, <1>10, <2>5, <3>1 DEF Serves
    <3> QED
      BY <3>1, <3>2 DEF Told
  <2>6. ASSUME NEW g \in Shared, g <= current PROVE g <= current'
    BY <1>1, <1>3, <2>1, <2>6
  <2>7. a.running
    BY Zenon, <2>2 DEF Safe
  <2> QED
    BY Zenon, <1>2, <1>8, <2>4, <2>5, <2>6, <2>7 DEF Safe, q
<1> QED
  BY Zenon, <1>1, <1>2, <1>12, <1>13, <1>15, <1>16 DEF ReaderInv

(* What a bundy-auth starts with. *)
LEMMA NewAuthFields ==
  ASSUME NEW r \in Readers, auth[r] = NewAuth(r \in plan.readers, r \in known)
  PROVE  /\ auth[r].gen_id = 0 /\ auth[r].mapped = FALSE /\ auth[r].release = 0
         /\ auth[r].callbacks = <<>> /\ auth[r].running = TRUE
         /\ auth[r].subscribed = (r \in known)
         /\ auth[r].pending = IF r \in known THEN 1 ELSE 0
         /\ auth[r].queue = IF r \in known \/ ~(r \in plan.readers)
                           THEN <<>> ELSE <<[op |-> "config", gen |-> 1]>>
<1>1. /\ auth[r].gen_id = 0 /\ auth[r].mapped = FALSE /\ auth[r].release = 0
      /\ auth[r].callbacks = <<>> /\ auth[r].running = TRUE
      /\ auth[r].subscribed = (r \in known)
  BY DEF NewAuth
<1>2. /\ auth[r].pending = IF r \in known THEN 1 ELSE 0
      /\ auth[r].queue = IF r \in known \/ ~(r \in plan.readers)
                        THEN <<>> ELSE <<[op |-> "config", gen |-> 1]>>
  BY DEF NewAuth
<1> QED
  BY Zenon, <1>1, <1>2

LEMMA InitReader ==
  ASSUME Init, NEW r \in Readers
  PROVE  ReaderInv(r)
<1> DEFINE a == auth[r]
           p == Ahead(r)
           c == [op |-> "config", gen |-> 1]
<1>1. /\ announced = 1 /\ known = (IF 1 \in Shared THEN plan.joined ELSE {})
      /\ a = NewAuth(r \in plan.readers, r \in known)
      /\ sock[r] = <<>> /\ acks[r] = <<>> /\ notices[r] = <<>>
  BY Zenon DEF Init
<1>2. /\ a.gen_id = 0 /\ a.mapped = FALSE /\ a.release = 0 /\ a.callbacks = <<>> /\ a.running = TRUE
      /\ a.subscribed = (r \in known)
      /\ r \in known => a.pending = 1 /\ a.queue = <<>> /\ 1 \in Shared
      /\ r \notin known => a.pending = 0
      /\ r \notin plan.readers => a.queue = <<>>
      /\ r \in plan.readers /\ r \notin known => a.queue = <<c>>
  <2>1. /\ a.gen_id = 0 /\ a.mapped = FALSE /\ a.release = 0 /\ a.callbacks = <<>>
        /\ a.running = TRUE /\ a.subscribed = (r \in known)
        /\ a.pending = IF r \in known THEN 1 ELSE 0
        /\ a.queue = IF r \in known \/ ~(r \in plan.readers) THEN <<>> ELSE <<c>>
    BY Zenon, <1>1, NewAuthFields
  <2>2. r \in known => 1 \in Shared
    BY Zenon, <1>1
  <2> HIDE DEF a, c
  <2> QED
    BY Zenon, <2>1, <2>2
<1>3. p = a.queue /\ (p = <<>> \/ (p = <<c>> /\ r \notin known))
  <2>1. a.queue = <<>> \/ (a.queue = <<c>> /\ r \notin known)
    BY Zenon, <1>2
  <2>2. <<>> \o <<>> = <<>> /\ <<c>> \o <<>> = <<c>>
    OBVIOUS
  <2>3. p = a.queue \o <<>>
    BY Zenon, <1>1 DEF Ahead
  <2> HIDE DEF a, p, c
  <2> QED
    BY Zenon, <2>1, <2>2, <2>3
<1>4. Top(a) = IF r \in known THEN 1 ELSE 0
  BY Zenon, <1>2 DEF Top
<1>5. /\ c.op = "config" /\ c.gen = 1 /\ c.op # "update" /\ c.op # "release"
  OBVIOUS
<1>6. /\ Elems(<<>>) = {} /\ Elems(<<c>>) = {c}
  BY DEF Elems
<1> HIDE DEF a, p, c
<1>7. Configs(Top(a), 1, p) /\ Releases(Top(a), p)
  <2>1. CASE p = <<>>
    BY <2>1 DEF Configs, Releases
  <2>2. CASE p = <<c>> /\ r \notin known
    BY <1>4, <1>5, <2>2 DEF Configs, Releases
  <2> QED
    BY Zenon, <1>3, <2>1, <2>2
<1>8. Order(a, p)
  <2>1. Top(a) <= 1 /\ 1 > 0
    BY <1>4
  <2> QED
    BY Zenon, <1>1, <1>2, <1>7, <2>1 DEF Order
<1>9. Subscribes(a)
  <2>1. \A i \in 1..Len(<<>>) : <<>>[i] # Remote(FALSE)
    OBVIOUS
  <2>2. a.pending # 0 => a.subscribed = TRUE
    BY Zenon, <1>2
  <2> QED
    BY Zenon, <1>2, <2>1, <2>2 DEF Subscribes, LastTrue
<1>10. Progress(r, a, p, acks[r], notices[r])
  <2>1. r \in plan.readers => Top(a) = 1 \/ c \in Elems(p)
    BY Zenon, <1>2, <1>3, <1>4, <1>6
  <2>2. a.subscribed \/ Remote(TRUE) \in Elems(a.callbacks) => \E b \in Shared : b <= Top(a)
    <3>1. 1 <= 1
      OBVIOUS
    <3>2. Remote(TRUE) \notin Elems(a.callbacks)
      BY Zenon, <1>2, <1>6
    <3>3. a.subscribed => 1 \in Shared /\ Top(a) = 1
      BY Zenon, <1>2, <1>4
    <3> QED
      BY Zenon, <3>1, <3>2, <3>3
  <2>3. Idle(a.subscribed, a.callbacks)
    BY <1>2 DEF Idle
  <2>4. r \in plan.readers => Top(a) = announced \/ [op |-> "config", gen |-> announced] \in Elems(p)
    BY Zenon, <1>1, <2>1 DEF c
  <2> QED
    BY Zenon, <1>1, <1>2, <1>6, <1>7, <2>2, <2>3, <2>4 DEF Progress
<1>11. Safe(r, a, p)
  <2>1. ASSUME NEW g \in Gens PROVE ~Serves(a, p, g)
    BY Zenon, <1>2, <1>3, <1>5, <1>6 DEF Serves
  <2> QED
    BY <1>2, <2>1 DEF Safe
<1> QED
  BY Zenon, <1>8, <1>9, <1>10, <1>11 DEF ReaderInv, a, p

(* GenInv is inductive, and no bundy-auth goes back. *)
LEMMA GenStep ==
  ASSUME GenInv, [Next]_vars
  PROVE  GenInv' /\ \A r \in Readers : auth[r].gen_id <= auth'[r].gen_id
<1>1. MemInv /\ LinkInv /\ \A r \in Readers : ReaderInv(r)
  BY Zenon DEF GenInv, MemInv
<1>2. \A r \in Readers : auth[r].gen_id <= auth[r].gen_id
  <2>1. \A r \in Readers : auth[r].gen_id \in Gens \cup {0}
    BY Zenon, <1>1, AheadType DEF AuthType
  <2> QED
    BY <2>1 DEF Gens
<1>3. CASE Announce
  BY Zenon, <1>1, <1>2, <1>3, AnnounceMem, AnnounceStep DEF GenInv
<1>4. CASE MainNext \/ BuilderNext
  <2>1. MemInv' /\ MemStep
    BY Zenon, <1>1, <1>4, MemmgrStep
  <2>2. auth' = auth
    BY Zenon, <2>1 DEF MemStep
  <2>3. \A r \in Readers : ReaderInv(r)'
    BY Zenon, <2>1, MemReaderStep
  <2> QED
    BY Zenon, <1>2, <2>1, <2>2, <2>3 DEF GenInv
<1>5. ASSUME NEW r \in Readers, AuthNext(r)
      PROVE  GenInv' /\ \A s \in Readers : auth[s].gen_id <= auth'[s].gen_id
  <2>1. MemInv'
    BY Zenon, <1>1, <1>5, AuthMem
  <2>2. /\ \A s \in Readers : ReaderInv(s)'
        /\ \A s \in Readers : auth[s].gen_id <= auth'[s].gen_id
    BY Zenon, <1>5, ReceiveStep, HandleStep, CallbackStep DEF AuthNext
  <2> QED
    BY Zenon, <2>1, <2>2 DEF GenInv
<1>6. CASE UNCHANGED vars
  <2>1. /\ UNCHANGED <<plan, mainVars, builderVars>> /\ UNCHANGED <<plan, announced, mainVars>>
        /\ announced' = announced
        /\ plan' = plan /\ auth' = auth /\ sock' = sock /\ acks' = acks /\ notices' = notices
    BY Zenon, <1>6 DEF vars, channelVars
  <2>2. LinkInv'
    BY Zenon, <1>1, <2>1 DEF LinkInv, Quiet
  <2>3. announced \in Gens /\ announced <= Len(plan.mapped)
    BY Zenon, <1>1 DEF MemInv, MainInv
  <2>4. announced <= announced
    BY <2>3 DEF Gens
  <2>5. MemInv'
    BY Zenon, <1>1, <2>1, <2>2, <2>3, <2>4, MemInvKept
  <2>6. \A r \in Readers : ReaderInv(r)'
    BY Zenon, <1>1, <2>1, OthersKept
  <2> QED
    BY Zenon, <1>2, <2>1, <2>5, <2>6 DEF GenInv
<1> QED
  BY Zenon, <1>3, <1>4, <1>5, <1>6 DEF Next

THEOREM GenInvariance == Spec => []GenInv
<1>1. Init => GenInv
  BY Zenon, InitMem, InitReader DEF GenInv
<1>2. GenInv /\ [Next]_vars => GenInv'
  BY Zenon, GenStep
<1> QED
  BY <1>1, <1>2, PTL DEF Spec

(* Every variable keeps its type; in particular the builder reports only   *)
(* generations, and a bundy-auth is at, or waits for, one of them.         *)
THEOREM GenerationTypes == Spec => []TypeOK
<1>1. GenInv => TypeOK
  BY Zenon, MemTypes DEF GenInv
<1> QED
  BY <1>1, GenInvariance, PTL

(* The files of a generation are removed only when no bundy-auth serves    *)
(* from them: memmgr counts the process among the readers until it is done *)
(* with the generation.                                                    *)
THEOREM RemovedOnlyUnused == Spec => []RemovedIsUnused
<1>1. GenInv => RemovedIsUnused
  <2> SUFFICES ASSUME GenInv, ~plan.rejects, ~ComesBack, NEW r \in Readers, auth[r].mapped
               PROVE  auth[r].gen_id \notin cleaned
    BY Zenon DEF RemovedIsUnused
  <2>1. ReaderInv(r) /\ MainInv
    BY Zenon DEF GenInv, MemInv
  <2>2. auth[r].gen_id \in Shared
    BY Zenon, <2>1 DEF ReaderInv, Order
  <2>3. auth[r].gen_id \in Gens
    BY <2>1, <2>2, PlanFacts DEF MainInv
  <2>4. Serves(auth[r], Ahead(r), auth[r].gen_id) /\ ~Done(auth[r], auth[r].gen_id)
    BY Zenon DEF Serves, Done
  <2> QED
    BY Zenon, <2>1, <2>3, <2>4 DEF ReaderInv, Safe
<1> QED
  BY <1>1, GenInvariance, PTL

(* No bundy-auth is told to map a file that has been removed, on which     *)
(* resetSegment() would terminate it.                                      *)
THEOREM AuthKeepsRunning == Spec => []AuthNeverTerminates
<1>1. GenInv => AuthNeverTerminates
  BY Zenon DEF GenInv, ReaderInv, Safe, AuthNeverTerminates
<1> QED
  BY <1>1, GenInvariance, PTL

(* A bundy-auth that serves from a mapped segment is subscribed to         *)
(* memmgr's updates, or is about to be: the last reconfiguration that it   *)
(* has to report says so.                                                  *)
THEOREM MappedReaderSubscribed == Spec => []MappedIsSubscribed
<1>1. GenInv => MappedIsSubscribed
  <2> SUFFICES ASSUME GenInv, NEW r \in Readers, auth[r].mapped, ~plan.rejects
               PROVE  \/ auth[r].subscribed
                      \/ \E i \in DOMAIN auth[r].callbacks :
                            auth[r].callbacks[i] = [op |-> "reconfigured", remote |-> TRUE]
    BY Zenon DEF MappedIsSubscribed
  <2>1. LinkInv /\ LastTrue(auth[r].subscribed, auth[r].callbacks)
    BY Zenon DEF GenInv, MemInv, ReaderInv, Subscribes
  <2>2. auth[r].callbacks \in Seq(Callbacks)
    BY Zenon, <2>1, AheadType DEF AuthType
  <2>3. DOMAIN auth[r].callbacks = 1..Len(auth[r].callbacks)
    BY <2>2
  <2> QED
    BY Zenon, <2>1, <2>3 DEF LastTrue, Remote
<1> QED
  BY <1>1, GenInvariance, PTL

(* installClientsMap() and doReconfigure() never take a bundy-auth back to *)
(* an earlier generation.                                                  *)
THEOREM GenerationsNeverGoBack == Spec => GenerationsGrow
<1>1. GenInv /\ [Next]_vars => [\A r \in Readers : auth'[r].gen_id >= auth[r].gen_id]_vars
  <2> SUFFICES ASSUME GenInv, [Next]_vars PROVE \A r \in Readers : auth'[r].gen_id >= auth[r].gen_id
    BY Zenon
  <2>1. /\ GenInv' /\ \A r \in Readers : auth[r].gen_id <= auth'[r].gen_id
    BY Zenon, GenStep
  <2>2. \A r \in Readers : auth[r].gen_id \in Gens \cup {0} /\ auth'[r].gen_id \in Gens \cup {0}
    <3>1. LinkInv /\ LinkInv'
      BY Zenon, <2>1 DEF GenInv, MemInv
    <3>2. \A r \in Readers : auth[r] \in AuthType /\ auth'[r] \in AuthType
      BY Zenon, <3>1 DEF LinkInv
    <3> QED
      BY Zenon, <3>2 DEF AuthType
  <2> QED
    BY <2>1, <2>2 DEF Gens
<1> QED
  BY <1>1, GenInvariance, PTL DEF Spec, GenerationsGrow

=============================================================================
