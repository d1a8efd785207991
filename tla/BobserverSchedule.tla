------------------------- MODULE BobserverSchedule -------------------------
(***************************************************************************)
(* Who signs the next block and which hardfork comes: the bobservers, the  *)
(* shuffled schedule, the slots that time is cut into, and the votes for   *)
(* hardforks that blocks carry in their headers.                           *)
(*                                                                         *)
(* A block is applied in two steps, its header and the rest, with root's   *)
(* operations on bobservers between them.  A key is there or it is null.   *)
(* The random generator of the two shuffles, seeded by the head block's    *)
(* time, is a free choice.  Counters that only the API reads (total_missed,*)
(* last_aslot, running_version and majority_version) are left out.         *)
(***************************************************************************)
EXTENDS Integers, FiniteSets, Sequences, SequencesExt

CONSTANTS
    Bobserver,          \* the accounts that may become bobservers
    InitMiners,         \* the bobservers of the genesis state
    FirstMiner,         \* SIGMAENGINE_INIT_MINER_NAME
    NumBobservers,      \* SIGMAENGINE_NUM_BOBSERVERS
    MaxVoted,           \* SIGMAENGINE_MAX_VOTED_BOBSERVERS_HF0
    Required,           \* SIGMAENGINE_HARDFORK_REQUIRED_BOBSERVERS
    Interval,           \* SIGMAENGINE_BLOCK_INTERVAL
    GenesisTime,        \* SIGMAENGINE_GENESIS_TIME
    Window,             \* the bits of recent_slots_filled
    NumHardforks,       \* SIGMAENGINE_NUM_HARDFORKS of this node
    FirstHardforkTime,  \* SIGMAENGINE_HARDFORK_0_1_TIME
    Vote,               \* the hardfork_version_votes, version and time, in headers
    MaxBlocks,          \* bound on the number of blocks
    MaxGap,             \* bound on the seconds between blocks
    MaxOps              \* bound on root's operations

NoOne == "none"                     \* account_name_type()

ASSUME ScheduleAssumption ==
    /\ FirstMiner \in InitMiners /\ InitMiners \subseteq Bobserver
    /\ IsFiniteSet(InitMiners) /\ NoOne \notin Bobserver
    /\ NumBobservers \in Nat \ {0} /\ Interval \in Nat \ {0}
    /\ MaxVoted \in 0 .. NumBobservers
    /\ Required \in Nat /\ 2 * Required > NumBobservers
    /\ GenesisTime \in Nat /\ Window \in Nat \ {0}
    /\ NumHardforks \in Nat \ {0} /\ FirstHardforkTime \in Nat
    /\ Vote \subseteq Nat \X Nat
    /\ MaxBlocks \in Nat /\ MaxGap \in Nat /\ MaxOps \in Nat

VARIABLES
    bob,        \* bobserver_index: what exists, by name
    bpCount,    \* dgp.current_bproducer_count
    sched,      \* current_shuffled_bobservers, the scheduled part
    dgp,        \* head block number, time, current_aslot, the slot window
    hf,         \* hardfork_property_object
    phase,      \* between blocks, inside one, or rejecting every one
    block,      \* producer and timestamp of the block being applied
    ops,        \* counts root's operations
    tally,      \* history: the votes counted by the last update
    round       \* history: the producers, and the first slot, since that update

vars == <<bob, bpCount, sched, dgp, hf, phase, block, ops, tally, round>>

BobserverObject == [key : BOOLEAN, bp : BOOLEAN, excepted : BOOLEAN, vote : Nat \X Nat]
GlobalProperties == [num : Nat, time : Nat, aslot : Nat,
                     filled : [1 .. Window -> {0, 1}], count : Int]
HardforkProperties == [last : 0 .. NumHardforks, next : Nat, nextTime : Nat]

NoBlock == [by |-> NoOne, at |-> 0]
NoVote == <<0, GenesisTime>>
NoExtension == << >>

NewBobserver(k) == [key |-> k, bp |-> FALSE, excepted |-> FALSE, vote |-> NoVote]

Keyed(b) == {w \in DOMAIN b : b[w].key}
Producers(b) == {w \in DOMAIN b : b[w].bp}

Init ==
    /\ bob = [w \in InitMiners |-> NewBobserver(TRUE)]
    /\ bpCount = 0
    /\ sched = <<FirstMiner>>
    /\ dgp = [num |-> 0, time |-> GenesisTime, aslot |-> 0,
              filled |-> [i \in 1 .. Window |-> 1], count |-> Window]
    /\ hf = [last |-> 0, next |-> 0, nextTime |-> 0]
    /\ phase = "idle"
    /\ block = NoBlock
    /\ ops = 0
    /\ tally = << >>
    /\ round = [by |-> << >>, slot |-> 0]

-----------------------------------------------------------------------------
(* Slots.                                                                  *)

\* get_slot_time( 1 ): genesis need not be at the beginning of a slot.
FirstSlotTime ==
    IF dgp.num = 0 THEN dgp.time + Interval
    ELSE (dgp.time \div Interval) * Interval + Interval

\* Mutant: counts from the head block's time, not from the head block's slot.
SlotAtUnaligned(t) == (t - dgp.time) \div Interval

\* get_slot_at_time()
SlotAt(t) == IF t < FirstSlotTime THEN 0 ELSE (t - FirstSlotTime) \div Interval + 1

\* Mutant: every block starts at the beginning of the schedule.
ScheduledFromStart(slot) == sched[(slot % Len(sched)) + 1]

\* get_scheduled_bobserver()
Scheduled(slot) == sched[((dgp.aslot + slot) % Len(sched)) + 1]

\* A vote in the header of w's block becomes w's vote.  _generate_block() writes
\* one for the next hardfork of the signer's binary, or against one that it does
\* not know; nothing compares what a header brings with this node's binary.
ProcessHeaderExtensions(w, v) ==
    bob' = IF v = NoExtension THEN bob ELSE [bob EXCEPT ![w].vote = v]

\* validate_block_header(), then the extensions of the header.
BeginBlock(w, t, v) ==
    /\ phase = "idle"
    /\ dgp.num < MaxBlocks
    /\ dgp.time < t
    /\ w \in Keyed(bob)
    /\ SlotAt(t) > 0
    /\ w = Scheduled(SlotAt(t))
    /\ ProcessHeaderExtensions(w, v)
    /\ phase' = "txs"
    /\ block' = [by |-> w, at |-> t]
    /\ UNCHANGED <<bpCount, sched, dgp, hf, ops, tally, round>>

-----------------------------------------------------------------------------
(* Root's operations.                                                      *)

Operation ==
    /\ phase = "txs"
    /\ ops < MaxOps
    /\ ops' = ops + 1
    /\ UNCHANGED <<sched, dgp, hf, phase, block, tally, round>>

\* Mutant: an account that comes back as a bobserver starts from nothing.
BobserverUpdateAnew(w, k) ==
    /\ Operation
    /\ bob' = [x \in DOMAIN bob \cup {w} |-> IF x = w THEN NewBobserver(k) ELSE bob[x]]
    /\ UNCHANGED bpCount

\* bobserver_update_evaluator; the key may be the null key.
BobserverUpdate(w, k) ==
    /\ Operation
    /\ bob' = [x \in DOMAIN bob \cup {w} |->
                 IF x # w THEN bob[x]
                 ELSE IF w \in DOMAIN bob THEN [bob[w] EXCEPT !.key = k, !.excepted = FALSE]
                 ELSE NewBobserver(k)]
    /\ UNCHANGED bpCount

\* update_bproducer_evaluator
UpdateBproducer(w, approve) ==
    /\ Operation
    /\ w \in DOMAIN bob
    /\ ~bob[w].excepted
    /\ approve => MaxVoted > bpCount
    /\ bob' = [bob EXCEPT ![w].bp = approve]
    /\ bpCount' = IF approve = bob[w].bp THEN bpCount
                  ELSE IF approve THEN bpCount + 1 ELSE bpCount - 1

\* except_bobserver_evaluator
ExceptBobserver(w) ==
    /\ Operation
    /\ w \in DOMAIN bob
    /\ ~bob[w].bp
    /\ bob' = [bob EXCEPT ![w].excepted = TRUE]
    /\ UNCHANGED bpCount

-----------------------------------------------------------------------------
(* The end of a block.                                                     *)

\* The window of slots after one that was filled and m that were missed: the
\* bit that falls out is taken off the count first.
Shifted(d, m) ==
    LET S[i \in 0 .. m + 1] ==
          IF i = 0 THEN d
          ELSE LET bit == IF i = 1 THEN 1 ELSE 0
               IN  [S[i - 1] EXCEPT !.count = @ - S[i - 1].filled[1] + bit,
                                    !.filled = Append(Tail(@), bit)]
    IN  S[m + 1]

\* update_global_dynamic_data()
DynamicData(t) ==
    [Shifted(dgp, SlotAt(t) - 1) EXCEPT !.num = @ + 1, !.time = t, !.aslot = @ + SlotAt(t)]

\* The bobservers after the excepted ones have lost their keys.
ShutDown == [w \in DOMAIN bob |-> [bob[w] EXCEPT !.key = @ /\ ~bob[w].excepted]]

Swapped(s, i, j) == [k \in DOMAIN s |-> IF k = i THEN s[j] ELSE IF k = j THEN s[i] ELSE s[k]]

\* The numbers that the random generator may give for n places.
Draws(n) == {d \in [1 .. n -> 1 .. n] : \A i \in 1 .. n : d[i] >= i}

\* The loop that swaps each place with one that is not below it.
Shuffled(s, d) ==
    LET R[i \in 0 .. Len(s)] == IF i = 0 THEN s ELSE Swapped(R[i - 1], i, d[i])
    IN  R[Len(s)]

\* The producers with a key, in the order of by_is_bp, up to MaxVoted.
Voted(b) ==
    LET s == SetToSeq(Producers(b) \cap Keyed(b))
    IN  IF Len(s) > MaxVoted THEN SubSeq(s, 1, MaxVoted) ELSE s

\* The other bobservers with a key, in the order of their names.
Available(b) == SetToSeq(Keyed(b) \ ToSet(Voted(b)))

\* Mutant: no producer leaves a place to the others.
ActiveVotedOnly(b, d) ==
    IF Voted(b) # << >> THEN Voted(b) ELSE SubSeq(Shuffled(Available(b), d), 1, 1)

\* The voted ones and as many of the others, drawn, as there are places.
Active(b, d) ==
    LET places == NumBobservers - Len(Voted(b))
        a == Shuffled(Available(b), d)
    IN  Voted(b) \o (IF Len(a) > places THEN SubSeq(a, 1, places) ELSE a)

\* The votes of the bobservers that were scheduled so far.
Votes == [w \in ToSet(sched) |-> bob[w].vote]

Majority(votes) ==
    {v \in {votes[w] : w \in DOMAIN votes} :
        Cardinality({w \in DOMAIN votes : votes[w] = v}) >= Required}

\* Mutant: a hardfork stays announced when its majority is gone.
AnnouncedForGood(votes) ==
    IF Majority(votes) = {} THEN hf
    ELSE LET v == CHOOSE v \in Majority(votes) : TRUE
         IN  [hf EXCEPT !.next = v[1], !.nextTime = v[2]]

\* More than half of the bobservers: no two votes have a majority.
Announced(votes) ==
    IF Majority(votes) = {} THEN [hf EXCEPT !.next = hf.last]
    ELSE LET v == CHOOSE v \in Majority(votes) : TRUE
         IN  [hf EXCEPT !.next = v[1], !.nextTime = v[2]]

\* update_bobserver_schedule4(); with nobody to schedule one empty name is.
UpdateSchedule(n) ==
    \/ /\ n % NumBobservers = 0
       /\ bob' = ShutDown
       /\ \E pick \in Draws(Len(Available(ShutDown))) :
             LET a == Active(ShutDown, pick)
             IN  IF a = << >> THEN sched' = <<NoOne>>
                 ELSE \E d \in Draws(Len(a)) : sched' = Shuffled(a, d)
       /\ tally' = Votes
       /\ round' = [by |-> << >>, slot |-> dgp'.aslot]
    \/ /\ n % NumBobservers # 0
       /\ round' = [round EXCEPT !.by = Append(@, block.by)]
       /\ UNCHANGED <<bob, sched, tally>>

\* What the update leaves for process_hardforks().
Counted(n) == IF n % NumBobservers = 0 THEN Announced(Votes) ELSE hf

\* process_hardforks() at time t, on h: the first by its date, the others, all up
\* to the one announced, at the time that was voted for.
Voting(h) == h.last >= 1
Due(h, t) == h.next > h.last /\ h.nextTime <= t

Processed(h, t) ==
    IF ~Voting(h) /\ FirstHardforkTime <= t THEN [h EXCEPT !.last = 1]
    ELSE IF Voting(h) /\ Due(h, t) THEN [h EXCEPT !.last = h.next]
    ELSE h

Unknown(h, t) == Voting(h) /\ Due(h, t) /\ h.next > NumHardforks

\* The rest of _apply_block(), as far as it is about bobservers.
EndBlock ==
    LET n == dgp.num + 1
        t == block.at
    IN  /\ phase = "txs"
        /\ ~Unknown(Counted(n), t)
        /\ dgp' = DynamicData(t)
        /\ UpdateSchedule(n)
        /\ hf' = Processed(Counted(n), t)
        /\ phase' = "idle"
        /\ block' = NoBlock
        /\ UNCHANGED <<bpCount, ops>>

\* unknown_hardfork_exception: the block is rejected, and with it the chain.
StopAtHardfork ==
    /\ phase = "txs"
    /\ Unknown(Counted(dgp.num + 1), block.at)
    /\ phase' = "stopped"
    /\ UNCHANGED <<bob, bpCount, sched, dgp, hf, block, ops, tally, round>>

Next ==
    \/ \E w \in Bobserver, t \in dgp.time + 1 .. dgp.time + MaxGap, v \in Vote \cup {NoExtension} :
          BeginBlock(w, t, v)
    \/ \E w \in Bobserver, k \in BOOLEAN : BobserverUpdate(w, k)
    \/ \E w \in Bobserver, approve \in BOOLEAN : UpdateBproducer(w, approve)
    \/ \E w \in Bobserver : ExceptBobserver(w)
    \/ EndBlock
    \/ StopAtHardfork

Spec == Init /\ [][Next]_vars

-----------------------------------------------------------------------------
\* The variables have their types.
TypeOK ==
    /\ DOMAIN bob \subseteq Bobserver /\ bob \in [DOMAIN bob -> BobserverObject]
    /\ bpCount \in Nat
    /\ sched \in Seq(DOMAIN bob \cup {NoOne}) /\ Len(sched) \in 1 .. NumBobservers
    /\ dgp \in GlobalProperties
    /\ hf \in HardforkProperties
    /\ phase \in {"idle", "txs", "stopped"}
    /\ block \in [by : DOMAIN bob \cup {NoOne}, at : Nat]
    /\ ops \in 0 .. MaxOps
    /\ round \in [by : Seq(Bobserver), slot : Nat]

\* current_bproducer_count is the number of producers, there are never more
\* than can be scheduled, and none of them is excepted, however bobservers
\* are approved, excepted, taken back and updated.
ProducersCounted ==
    /\ bpCount = Cardinality(Producers(bob))
    /\ bpCount <= MaxVoted
    /\ \A w \in Producers(bob) : ~bob[w].excepted

\* A new schedule names each bobserver once, only such as can sign, every
\* producer that can, and leaves no place empty that somebody could fill.
ScheduleComplete ==
    [][round'.slot # round.slot =>
          \/ sched' = <<NoOne>> /\ Keyed(bob') = {}
          \/ /\ \A i, j \in DOMAIN sched' : sched'[i] = sched'[j] => i = j
             /\ ToSet(sched') \subseteq Keyed(bob')
             /\ Producers(bob') \cap Keyed(bob') \subseteq ToSet(sched')
             /\ Len(sched') = NumBobservers \/ ToSet(sched') = Keyed(bob')]_vars

\* With a full schedule nobody signs twice before everybody had a slot, as
\* long as the schedule stands: where a round begins, the absolute slot, has
\* nothing to do with the block number that ends it.
RoundRobin ==
    [][/\ phase = "idle" /\ phase' = "txs"
       /\ Len(sched) = NumBobservers
       /\ dgp.aslot + SlotAt(block'.at) <= round.slot + NumBobservers
       => block'.by \notin ToSet(round.by)]_vars

\* From the first block on, the absolute slot goes with the time: two nodes
\* that agree on the head agree on who is next, and no slot has two blocks.
\* The participation count is the number of slots of the window filled.
SlotsFollowTime ==
    [][dgp'.num # dgp.num =>
          /\ dgp'.aslot > dgp.aslot
          /\ dgp.num > 0 => dgp'.aslot - dgp.aslot = dgp'.time \div Interval - dgp.time \div Interval
          /\ dgp'.count = Cardinality({i \in 1 .. Window : dgp'.filled[i] = 1})]_vars

\* The hardfork announced, and its time, have the required number of votes of
\* the bobservers scheduled when votes were last counted.
Backed == Cardinality({w \in DOMAIN tally : tally[w] = <<hf.next, hf.nextTime>>}) >= Required

\* Whatever versions and times headers vote for: a hardfork is to come only as
\* long as the required number of scheduled bobservers agree on it and on its
\* time ("We no longer have a majority" takes it back), and after the first
\* only hardforks up to one so agreed on are applied, never before its time.
HardforkHasMajority ==
    [][/\ hf'.next > hf'.last => Backed'
       /\ hf.last >= 1 /\ hf'.last # hf.last =>
             hf'.last > hf.last /\ hf'.last = hf'.next /\ hf'.nextTime <= dgp'.time /\ Backed']_vars
=============================================================================
