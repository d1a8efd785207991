------------------------------ MODULE PeerSync ------------------------------
(***************************************************************************)
(* How a node fetches the blocks it lacks from its peers: node_impl of     *)
(* libraries/net/node.cpp and the callbacks of application_impl that it    *)
(* uses.  The node runs in the p2p thread, whose tasks yield only when     *)
(* they call the delegate; the delegate serves the calls in order in its   *)
(* own thread.  jobs is that queue: blocks to push and synopses to build.  *)
(* What follows a call in the p2p thread up to the next one is part of the *)
(* step that serves it, and a task that makes several calls makes each     *)
(* after the one before was served.  The short questions has_item(),       *)
(* get_block_time(), get_block_ids() and sync_status() are answered within *)
(* the step of the caller although they too wait for the delegate.         *)
(*                                                                         *)
(* The peers are environment: each follows a chain, adopts a longer one,   *)
(* answers its requests in the order they were sent (TCP), advertises new  *)
(* blocks, and may leave.  The delegate rejects a block that does not link *)
(* or is not valid.  No block becomes irreversible within the bound, so    *)
(* last_non_undoable_block_num() is 0, and the node starts with a chain of *)
(* at least one block: the branches for an empty synopsis of its own stay  *)
(* in the definitions but are not taken.                                   *)
(***************************************************************************)
EXTENDS Naturals, Sequences, FiniteSets, FiniteSetsExt, SequencesExt

CONSTANTS
    Peer,
    Faulty,         \* the peers that may lack an item they listed, leave out the
                    \* id their list builds on or claim too many blocks
    Nobody,         \* handler of a job that no message handler waits for, and
                    \* the peer of a call whose connection has closed
    Path,           \* for each block, the ids from number 1 up to the block
    Invalid,        \* the blocks that fail to apply; nothing builds on them
    StartHead,      \* the head of the node's own chain at first
    StartTip,       \* the block each peer's chain ends with at first
    Limit,          \* ids per reply to fetch_blockchain_item_ids
    MinPrefetch,    \* GRAPHENE_NET_MIN_BLOCK_IDS_TO_PREFETCH
    MaxPerPeer,     \* _maximum_blocks_per_peer_during_syncing
    MaxHandled,     \* _maximum_number_of_blocks_to_handle_at_one_time
    MaxPrefetched,  \* _maximum_number_of_sync_blocks_to_prefetch
    RecentSize,     \* capacity of _most_recent_blocks_accepted
    MaxConnects,    \* bound on the number of connections made
    MaxOffers       \* bound on the number of blocks requested as advertised

NoBlock == 0
Block == DOMAIN Path
Num(b) == IF b = NoBlock THEN 0 ELSE Len(Path[b])
Chain(b) == IF b = NoBlock THEN << >> ELSE Path[b]
Parent(b) == IF Num(b) = 1 THEN NoBlock ELSE Path[b][Num(b) - 1]

\* Finitely many peers, and a tree: the path to a block is the path to its
\* parent and the block itself.
SyncConstants ==
    /\ IsFiniteSet(Peer) /\ Faulty \subseteq Peer /\ Nobody \notin Peer
    /\ Path \in [Block -> Seq(Block)] /\ NoBlock \notin Block
    /\ \A b \in Block : Path[b] # << >> /\ Last(Path[b]) = b
                        /\ Chain(b) = Append(Chain(Parent(b)), b)
    /\ StartHead \in Block
    /\ \A b \in Invalid, c \in Block : Parent(c) # b
    /\ StartTip \in [Peer -> Block \cup {NoBlock}]
    /\ {Limit, MinPrefetch, MaxPerPeer, MaxHandled, MaxPrefetched, RecentSize, MaxConnects, MaxOffers} \subseteq Nat
    /\ Limit > 1 /\ MaxPerPeer > 0 /\ MaxHandled > 0 /\ RecentSize > 0

ASSUME SyncAssumption == SyncConstants

VARIABLES
    peers,      \* what the node knows of each connection (peer_connection)
    tip,        \* the last block of each peer's chain
    held,       \* the delegate: blocks it has, the head of its chain
    active,     \* _active_sync_requests
    arrived,    \* _new_received_sync_items
    received,   \* _received_sync_items
    recent,     \* _most_recent_blocks_accepted, oldest first
    jobs,       \* calls the delegate has yet to serve
    due,        \* tasks to run: "fetch" and "backlog"
    suspended,  \* _suspend_fetching_sync_blocks
    connects,
    \* What the properties remember, no part of the code:
    overtaken,  \* a task's call came to a peer that had got a list since
    missed,     \* blocks that arrived while the task of the backlog waited
    skipped,    \* peers passed over by the sync loop for an advertised block
    lacking     \* requests left active that a peer said it cannot serve

noted == << overtaken, missed, skipped, lacking >>

syncVars == << peers, tip, held, active, arrived, received, recent, jobs, due,
           suspended, connects, noted >>

-----------------------------------------------------------------------------
(* Connections *)

NewConnection ==
    [conn |-> "closed", toGet |-> << >>, processing |-> {}, unfetched |-> 0,
     requested |-> << >>, asked |-> {}, sent |-> << >>, weNeed |-> TRUE,
     peerNeeds |-> TRUE, inhibit |-> FALSE, seen |-> NoBlock,
     normal |-> {}, offered |-> {}, informs |-> FALSE]

Active(p) == peers[p].conn = "active"
Connected(p) == peers[p].conn # "closed"

\* peer_connection::idle
Idle(c) == c.requested = << >> /\ c.asked = {} /\ c.normal = {}

\* peer_connection::is_currently_handling_message: the handler of a message of
\* p waits for the delegate.  The next message of p is read when it returns.
Handling(p) == \E i \in DOMAIN jobs : jobs[i].handler = p
MayReceive(p) == Connected(p) /\ ~Handling(p)

\* disconnect_from_peer, and the forcible disconnection of the timer
Disconnect(c) == [c EXCEPT !.conn = "closing"]

\* The call of get_blockchain_synopsis that create_blockchain_synopsis_for_peer
\* makes: it saves the peer's list first, since the call yields.  The task goes
\* on with the connections in rest, then with those in again.
Call(p, c, h, t, rest, again) ==
    [kind |-> "ask", peer |-> p, ref |-> c.seen, ids |-> c.toGet, handler |-> h,
     task |-> t, rest |-> rest, again |-> again]

\* The call of a message handler is its last.
Ask(p, c) == Call(p, c, p, "read", {}, {})

PushSync(b) == [kind |-> "sync", block |-> b, handler |-> Nobody, task |-> "push"]

StartSync(c) ==
    [c EXCEPT !.toGet = << >>, !.unfetched = 0, !.weNeed = TRUE,
              !.seen = NoBlock, !.inhibit = FALSE]

Connect(p) ==
    LET c == StartSync([NewConnection EXCEPT !.conn = "active"]) IN
    /\ ~Connected(p) /\ connects < MaxConnects
    /\ connects' = connects + 1
    /\ peers' = [peers EXCEPT ![p] = c]
    /\ jobs' = Append(jobs, Ask(p, c))
    /\ UNCHANGED << tip, held, active, arrived, received, recent, due, suspended, noted >>

\* A call of a task whose connection has closed comes to nothing, but the task
\* goes on behind it.
Forgotten(j, p) ==
    IF j.kind = "ask"
    THEN [j EXCEPT !.peer = IF @ = p THEN Nobody ELSE @, !.rest = @ \ {p}, !.again = @ \ {p}]
    ELSE j

\* on_connection_closed, which the read loop calls when no handler runs: what was
\* requested and did not come may be requested from another peer.
ConnectionClosed(p) ==
    LET c == peers[p] IN
    /\ Connected(p) /\ ~Handling(p)
    /\ peers' = [peers EXCEPT ![p] = NewConnection]
    /\ active' = active \ Range(c.requested)
    /\ due' = IF c.requested = << >> THEN due ELSE due \cup {"fetch"}
    /\ jobs' = [i \in DOMAIN jobs |-> Forgotten(jobs[i], p)]
    /\ UNCHANGED << tip, held, arrived, received, recent, suspended, connects, noted >>

-----------------------------------------------------------------------------
(* The synopsis *)

\* The numbers both loops visit from 1 on: each halves what is left up to high.
Visited(high) ==
    LET step[i \in 0 .. high] ==
            IF i = 0 THEN 1 ELSE step[i - 1] + (high - step[i - 1] + 2) \div 2
    IN  { step[i] : i \in 0 .. high }

\* The elements of s whose index is in S.
Pick(s, S) ==
    FoldLeft(LAMBDA r, i : IF i \in S THEN Append(r, s[i]) ELSE r, << >>, [i \in DOMAIN s |-> i])

\* application_impl::get_blockchain_synopsis.  The fork history and the main
\* chain below it make up the path to the reference point.
GetBlockchainSynopsis(ref, after) ==
    LET path == Chain(IF ref = NoBlock THEN held.head ELSE ref)
    IN  Pick(path, Visited(Len(path) + after))

\* create_blockchain_synopsis_for_peer, with the list saved before the call
CreateSynopsis(ref, ids) ==
    LET first == Num(ids[1])
        high == first + Len(ids) - 1
        mine == GetBlockchainSynopsis(ref, Len(ids))
    IN  IF ids = << >> THEN mine
        ELSE mine \o Pick(ids, { n - first + 1 : n \in { m \in Visited(high) : m >= first } })

\* What a peer sends of its own chain when it asks: it has no list to add.
TipSynopsis == [b \in Block \cup {NoBlock} |-> Pick(Chain(b), Visited(Num(b)))]

\* application_impl::get_block_ids: from the last id of the synopsis that is on
\* the chain c on, at most Limit of them.
GetBlockIds(c, synopsis) ==
    LET known == { i \in DOMAIN synopsis : synopsis[i] \in Range(c) }
        from == IF synopsis = << >> THEN 1 ELSE Num(synopsis[Max(known)])
    IN  IF synopsis # << >> /\ known = {} THEN << >>
        ELSE SubSeq(c, from, Min({from + Limit - 1, Len(c)}))

\* The ids for a peer whose chain ends with t, of the chain that ends with h.
IdsFor == [h, t \in Block \cup {NoBlock} |-> GetBlockIds(Chain(h), TipSynopsis[t])]

\* total_remaining_item_count
Remaining(c, ids) == IF ids = << >> THEN 0 ELSE Len(c) - Num(Last(ids))

-----------------------------------------------------------------------------
(* Answers of a peer *)

\* A reply is empty or builds on the synopsis that was sent.
FitsSynopsis(ids, synopsis) ==
    ids # << >> =>
        IF synopsis = << >> THEN Num(ids[1]) = 1 ELSE ids[1] \in Range(synopsis)

\* Nothing that the peer has and the node lacks.
UpToDate(c, ids, remaining) ==
    /\ remaining = 0
    /\ ids = << >> \/ (Len(ids) = 1 /\ ids[1] \in held.have)
    /\ c.toGet = << >> /\ c.unfetched = 0

\* How many of the ids the delegate has, up to the first it lacks; none are
\* dropped when another peer's list starts with the same id.
Flushed(p, ids) ==
    IF \E q \in Peer \ {p} : Active(q) /\ peers[q].toGet # << >> /\ Head(peers[q].toGet) = ids[1]
    THEN 0
    ELSE Max({ n \in 0 .. Len(ids) : \A i \in 1 .. n : ids[i] \in held.have })

\* The list of the connection after it is extended with the ids of a reply.
Extended(p, c, ids) ==
    LET n == Flushed(p, ids)
        at == { i \in DOMAIN c.toGet : c.toGet[i] = ids[1] }
    IN  CASE ids = << >> -> c
          [] ids # << >> /\ c.toGet = << >> ->
                [c EXCEPT !.toGet = SubSeq(ids, n + 1, Len(ids)),
                          !.seen = IF n = 0 THEN @ ELSE ids[n]]
          [] ids # << >> /\ c.toGet # << >> /\ at # {} ->
                [c EXCEPT !.toGet = SubSeq(@, 1, Max(at) - 1) \o ids]
          [] OTHER ->
                [c EXCEPT !.toGet = Tail(ids), !.seen = ids[1]]

\* What a peer replies to the first request it has not answered; a faulty one
\* may forget the id its list builds on.
Replies(p) ==
    LET ids == GetBlockIds(Chain(tip[p]), Head(peers[p].sent))
    IN  IF peers[p].sent = << >> THEN {}
        ELSE {ids} \cup (IF p \in Faulty /\ ids # << >> THEN {Tail(ids)} ELSE {})

\* The peer takes the node to have all its blocks, and advertises new ones to it,
\* when it found nothing to send in reply to the synopsis s.
SaysUpToDate(ids, s) == ids = << >> \/ (Len(ids) = 1 /\ ids[1] \in Range(s))

\* on_blockchain_item_ids_inventory_message
BlockchainItemIdsInventory(p, ids) ==
    LET old == peers[p]
        remaining == Remaining(Chain(tip[p]), ids)
        read == [old EXCEPT !.sent = Tail(@), !.informs = SaysUpToDate(ids, Head(old.sent))]
        c == [read EXCEPT !.asked = {}]
        new == [Extended(p, c, ids) EXCEPT !.unfetched = remaining]
        enough == IF remaining # 0 THEN Len(new.toGet) > MinPrefetch
                  ELSE new.toGet # << >>
    IN
    /\ MayReceive(p)
    /\ \/ /\ old.asked = {}
          /\ peers' = [peers EXCEPT ![p] = read] /\ UNCHANGED << jobs, due >>
       \/ /\ \E s \in old.asked : ~FitsSynopsis(ids, s)
          /\ peers' = [peers EXCEPT ![p] = Disconnect(read)] /\ UNCHANGED << jobs, due >>
       \/ /\ \E s \in old.asked : FitsSynopsis(ids, s)
          /\ \/ /\ UpToDate(c, ids, remaining)
                /\ peers' = [peers EXCEPT ![p] = [c EXCEPT !.weNeed = FALSE]] /\ UNCHANGED << jobs, due >>
             \/ /\ ~UpToDate(c, ids, remaining) /\ enough
                /\ peers' = [peers EXCEPT ![p] = new] /\ due' = due \cup {"fetch"} /\ UNCHANGED jobs
             \/ /\ ~UpToDate(c, ids, remaining) /\ ~enough
                /\ peers' = [peers EXCEPT ![p] = new] /\ jobs' = Append(jobs, Ask(p, new)) /\ UNCHANGED due
             \/ /\ p \in Faulty /\ ~UpToDate(c, ids, remaining)   \* more blocks than there can be
                /\ peers' = [peers EXCEPT ![p] = Disconnect(new)] /\ UNCHANGED << jobs, due >>
    /\ UNCHANGED << tip, held, active, arrived, received, recent, suspended, connects, noted >>

\* The task of process_backlog_of_sync_blocks waits for a synopsis.
BacklogWaits(js) == \E i \in DOMAIN js : js[i].task = "backlog"

\* trigger_process_backlog_of_sync_blocks, with the calls js outstanding, when d
\* are the tasks to run: nothing happens while the task has not finished.
TriggerBacklog(js, d) == due' = IF BacklogWaits(js) THEN d ELSE d \cup {"backlog"}

\* process_block_message and process_block_during_sync
SyncBlock(p) ==
    LET b == Head(peers[p].requested)
        c == [peers[p] EXCEPT !.requested = Tail(@)]
        wantsIds == Idle(c) /\ c.unfetched > 0 /\ Len(c.toGet) < MinPrefetch
    IN
    /\ MayReceive(p) /\ peers[p].requested # << >>
    /\ peers' = [peers EXCEPT ![p] = c]
    /\ active' = active \ {b}
    /\ arrived' = << b >> \o arrived
    /\ jobs' = IF wantsIds THEN Append(jobs, Ask(p, c)) ELSE jobs
    /\ TriggerBacklog(jobs, IF Idle(c) /\ ~wantsIds THEN due \cup {"fetch"} ELSE due)
    /\ missed' = IF BacklogWaits(jobs) THEN missed \cup {b} ELSE missed
    /\ UNCHANGED << tip, held, received, recent, suspended, connects,
                    overtaken, skipped, lacking >>

\* on_item_not_available_message, for a sync item.  The request leaves the
\* connection's list but stays in _active_sync_requests.
ItemNotAvailable(p) ==
    LET b == Head(peers[p].requested)
        c == [peers[p] EXCEPT !.requested = Tail(@)]
    IN
    /\ p \in Faulty /\ MayReceive(p) /\ peers[p].requested # << >>
    /\ peers' = [peers EXCEPT ![p] = IF c.peerNeeds THEN [c EXCEPT !.inhibit = TRUE]
                                     ELSE Disconnect(c)]
    /\ due' = due \cup {"fetch"}
    /\ lacking' = lacking \cup {b}
    /\ UNCHANGED << tip, held, active, arrived, received, recent, jobs, suspended, connects,
                    overtaken, missed, skipped >>

\* A peer advertises the newest block of its chain, once, and the block is
\* requested when the peer is idle and nobody else was asked for it:
\* on_item_ids_inventory_message and an iteration of fetch_items_loop.
RequestBlock(p) ==
    LET b == tip[p] IN
    /\ MayReceive(p) /\ Active(p) /\ Idle(peers[p]) /\ peers[p].informs
    /\ b # NoBlock /\ b \notin peers[p].offered
    /\ Cardinality({ q \in Peer : peers[q].offered # {} }) < MaxOffers
    /\ \A q \in Peer : b \notin peers[q].normal
    /\ \A i \in DOMAIN jobs : jobs[i].kind = "normal" => jobs[i].block # b
    /\ peers' = [peers EXCEPT ![p].normal = {b}, ![p].offered = @ \cup {b}]
    /\ UNCHANGED << tip, held, active, arrived, received, recent, jobs, due, suspended, connects, noted >>

\* The connections that advertised b have seen it when it was accepted.
SeenBy(b) == [q \in Peer |-> IF Active(q) /\ b \in peers[q].offered
                             THEN [peers[q] EXCEPT !.seen = b] ELSE peers[q]]

\* The block comes, whether or not the peer is synchronized with by now:
\* process_block_message and process_block_during_normal_operation up to the push.
NormalBlock(p, b) ==
    /\ MayReceive(p) /\ b \in peers[p].normal
    /\ \/ /\ b \in Range(recent)
          /\ peers' = [SeenBy(b) EXCEPT ![p].normal = @ \ {b}] /\ UNCHANGED jobs
       \/ /\ b \notin Range(recent)
          /\ peers' = [peers EXCEPT ![p].normal = @ \ {b}]
          /\ jobs' = Append(jobs, [kind |-> "normal", block |-> b, peer |-> p, handler |-> p, task |-> "read"])
    /\ UNCHANGED << tip, held, active, arrived, received, recent, due, suspended, connects, noted >>

\* on_item_not_available_message, for a block that was advertised
NormalNotAvailable(p, b) ==
    /\ p \in Faulty /\ MayReceive(p) /\ b \in peers[p].normal
    /\ peers' = [peers EXCEPT ![p].normal = @ \ {b}, ![p].offered = @ \ {b}]
    /\ UNCHANGED << tip, held, active, arrived, received, recent, jobs, due, suspended, connects, noted >>

\* on_fetch_blockchain_item_ids_message: a peer asks what follows its chain.
FetchBlockchainItemIds(p) ==
    LET theirs == TipSynopsis[tip[p]]
        ids == IdsFor[held.head, tip[p]]
        single == theirs # << >> /\ Len(ids) = 1 /\ ids[1] \in Range(theirs)
        c == [peers[p] EXCEPT !.peerNeeds = ids # << >> /\ ~single]
        restart == ~c.weNeed /\ tip[p] # NoBlock /\ tip[p] \notin held.have
        new == IF restart THEN StartSync(c) ELSE c
        leave == single /\ peers[p].inhibit
    IN
    /\ MayReceive(p)
    /\ peers' = [peers EXCEPT ![p] = IF leave THEN Disconnect(new) ELSE new]
    /\ jobs' = IF restart THEN Append(jobs, Ask(p, new)) ELSE jobs
    /\ UNCHANGED << tip, held, active, arrived, received, recent, due, suspended, connects, noted >>

-----------------------------------------------------------------------------
(* Tasks of the p2p thread *)

\* have_already_received_sync_item
AlreadyReceived(b) == b \in Range(received) \cup Range(arrived)

\* Mutant: what was requested in an earlier iteration is requested again
WantedAgain(p, busy) ==
    LET c == peers[p]
        Schedule(w, b) ==
            IF Len(w) < MaxPerPeer /\ ~AlreadyReceived(b) /\ b \notin (busy \ active) \cup Range(w)
            THEN Append(w, b) ELSE w
    IN  IF Active(p) /\ c.weNeed /\ Idle(c) /\ ~c.inhibit
        THEN FoldLeft(Schedule, << >>, c.toGet) ELSE << >>

\* What the sync loop would request from p: the first ids of its list that
\* are neither here nor requested, busy being those already requested.
WantedFrom(p, busy) ==
    LET c == peers[p]
        Schedule(w, b) ==
            IF Len(w) < MaxPerPeer /\ ~AlreadyReceived(b) /\ b \notin busy \cup Range(w)
            THEN Append(w, b) ELSE w
    IN  IF Active(p) /\ c.weNeed /\ Idle(c) /\ ~c.inhibit
        THEN FoldLeft(Schedule, << >>, c.toGet) ELSE << >>

\* What the sync loop requests of the connections when it visits them in the
\* given order.
Plan(order) ==
    LET Request(a, p) ==
            LET w == WantedFrom(p, a.busy) IN
            [busy |-> a.busy \cup Range(w), ask |-> [a.ask EXCEPT ![p] = w]]
    IN  FoldLeft(Request, [busy |-> active, ask |-> [p \in Peer |-> << >>]], order)

\* One iteration of fetch_sync_items_loop; the order of the set of connections
\* is that of their addresses.
FetchSyncItems ==
    /\ "fetch" \in due
    /\ due' = due \ {"fetch"}
    /\ \/ suspended /\ UNCHANGED << peers, active, skipped >>
       \/ /\ ~suspended
          /\ \E order \in SetToSeqs(Peer) :
                LET plan == Plan(order) IN
                /\ active' = plan.busy
                /\ peers' = [p \in Peer |-> [peers[p] EXCEPT !.requested = @ \o plan.ask[p]]]
          /\ skipped' = { p \in Peer : peers[p].normal # {} }
    /\ UNCHANGED << tip, held, arrived, received, recent, jobs, suspended, connects,
                    overtaken, missed, lacking >>

\* A task goes on to its next call, with the connections cs, the other calls js
\* and the tasks d to run: fetch_next_batch_of_item_ids_from_peer for those in
\* rest, start_synchronizing_with_peer for those in again.  At its end a push
\* triggers the backlog, and the backlog's own task the fetching.
GoOn(t, rest, again, cs, js, d) ==
    \/ \E q \in rest :
          /\ peers' = cs
          /\ jobs' = Append(js, Call(q, cs[q], Nobody, t, rest \ {q}, again))
          /\ overtaken' = (overtaken \/ cs[q].toGet # << >>)
          /\ due' = d
    \/ \E q \in again :
          LET c == StartSync(cs[q]) IN
          /\ rest = {}
          /\ peers' = [cs EXCEPT ![q] = c]
          /\ jobs' = Append(js, Call(q, c, Nobody, t, {}, again \ {q}))
          /\ overtaken' = (overtaken \/ cs[q].toGet # << >>)
          /\ due' = d
    \/ /\ rest = {} /\ again = {}
       /\ peers' = cs /\ jobs' = js /\ UNCHANGED overtaken
       /\ \/ t = "read" /\ due' = d
          \/ t = "push" /\ TriggerBacklog(js, d)
          \/ t = "backlog" /\ due' = d \cup {"fetch"}

\* _handle_message_calls_in_progress: the tasks that pass a block to the delegate
\* and have not returned.
InProgress(js) == Len(SelectSeq(js, LAMBDA j : j.task = "push"))

\* Mutant: looked at before the block is taken off the blocks being processed
NewlyEmptyEarly(c) == c.toGet = << >> /\ c.unfetched = 0 /\ c.processing # {}

\* The connection has nothing left to get, so its next ids are asked for.
NewlyEmpty(c) == c.toGet = << >> /\ c.unfetched = 0 /\ c.processing = {}

\* Mutant: the block may be anywhere in the list
StartWithAny(cs, b) ==
    { p \in Peer : cs[p].conn = "active" /\ b \in Range(cs[p].toGet) }

\* The connections among cs whose list starts with b
StartWith(cs, b) ==
    { p \in Peer : cs[p].conn = "active" /\ cs[p].toGet # << >> /\ Head(cs[p].toGet) = b }

\* One pass over the received blocks: the first that some list starts with goes
\* from the lists to the blocks being processed and to the delegate.  One that
\* was accepted already is only taken off again, it stays among the received
\* blocks, the connections it leaves with nothing are asked, and the loop ends.
BacklogPass(s, i) ==
    LET first == { k \in DOMAIN s.received : StartWith(s.peers, s.received[k]) # {} }
        k == Min(first)
        b == s.received[k]
        popped == [p \in Peer |->
            IF p \notin StartWith(s.peers, b) THEN s.peers[p]
            ELSE [s.peers[p] EXCEPT !.toGet = Tail(@), !.processing = @ \cup {b}]]
        holders == { p \in Peer : s.peers[p].conn = "active" /\ b \in popped[p].processing }
        taken == [p \in Peer |-> IF p \in holders THEN [popped[p] EXCEPT !.processing = @ \ {b}]
                                 ELSE popped[p]]
    IN  CASE ~s.go -> s
          [] s.go /\ first = {} -> [s EXCEPT !.go = FALSE]
          [] s.go /\ first # {} /\ b \notin Range(recent) ->
                LET js == Append(s.jobs, PushSync(b)) IN
                [peers |-> popped, received |-> RemoveAt(s.received, k), jobs |-> js,
                 go |-> InProgress(js) < MaxHandled, rest |-> {}]
          [] OTHER ->
                [peers |-> taken, received |-> s.received, go |-> FALSE, jobs |-> s.jobs,
                 rest |-> { p \in holders : NewlyEmpty(taken[p]) }]

\* The passes over the received blocks, at most one for each.
Backlog(all) ==
    FoldLeft(BacklogPass,
             [peers |-> peers, received |-> all, jobs |-> jobs, go |-> TRUE, rest |-> {}],
             all \o << NoBlock >>)

\* process_backlog_of_sync_blocks, up to the first call it waits for.  A task that
\* waits has fewer blocks in progress than MaxHandled, so it ends by fetching.
ProcessBacklog ==
    /\ "backlog" \in due
    /\ \/ /\ InProgress(jobs) >= MaxHandled
          /\ due' = due \ {"backlog"}
          /\ UNCHANGED << peers, arrived, received, jobs, suspended, overtaken, missed >>
       \/ /\ InProgress(jobs) < MaxHandled
          /\ LET end == Backlog(Reverse(arrived) \o received)
                 full == /\ InProgress(end.jobs) >= MaxHandled
                         /\ Len(end.received) >= MaxPrefetched
                 left == due \ {"backlog"}
             IN  /\ received' = end.received /\ arrived' = << >> /\ missed' = {}
                 /\ suspended' = full
                 /\ \/ /\ end.rest # {}
                       /\ GoOn("backlog", end.rest, {}, end.peers, end.jobs, left)
                    \/ /\ end.rest = {}
                       /\ peers' = end.peers /\ jobs' = end.jobs /\ UNCHANGED overtaken
                       /\ due' = IF full THEN left ELSE left \cup {"fetch"}
    /\ UNCHANGED << tip, held, active, recent, connects, skipped, lacking >>

-----------------------------------------------------------------------------
(* The delegate serves the next call *)

\* push_block: a block must link; it is applied when it is longer than the head,
\* and kept without being applied otherwise.
Fails(b) == b \in Invalid /\ Num(b) > Num(held.head)
Links(b) == Parent(b) \in held.have \cup {NoBlock}
Pushed(b) == [have |-> held.have \cup {b},
              head |-> IF Num(b) > Num(held.head) THEN b ELSE held.head]
Remember(b) == LET r == Append(recent, b)
               IN  IF Len(r) > RecentSize THEN Tail(r) ELSE r

\* fetch_next_batch_of_item_ids_from_peer, after the synopsis is there; nothing
\* is sent over a connection that has closed.
SendFetchIds(j) ==
    LET s == CreateSynopsis(j.ref, j.ids)
        cs == IF j.peer = Nobody THEN peers
              ELSE [peers EXCEPT ![j.peer].asked = {s}, ![j.peer].sent = Append(@, s)]
    IN
    /\ j.kind = "ask"
    /\ GoOn(j.task, j.rest, j.again, cs, Tail(jobs), due)
    /\ UNCHANGED << held, recent >>

\* send_sync_block_to_node_delegate, when the block is accepted
SyncAccepted(j) ==
    LET b == j.block
        Bare(p) == peers[p].toGet = << >> /\ peers[p].processing = {}
        again == { p \in Peer : Active(p) /\ Bare(p) /\ ~peers[p].peerNeeds /\ ~peers[p].weNeed }
        done == [p \in Peer |->
            IF Active(p) /\ b \in peers[p].processing
            THEN [peers[p] EXCEPT !.seen = b, !.processing = @ \ {b}] ELSE peers[p]]
        empty == { p \in Peer : Active(p) /\ b \in peers[p].processing /\ NewlyEmpty(done[p]) }
    IN
    /\ j.kind = "sync" /\ Links(b) /\ ~Fails(b)
    /\ held' = Pushed(b) /\ recent' = Remember(b)
    /\ GoOn("push", empty, again, done, Tail(jobs), due)

\* send_sync_block_to_node_delegate, when the block is rejected
SyncRejected(j) ==
    LET done == [p \in Peer |-> IF Active(p) /\ j.block \in peers[p].processing
                                THEN Disconnect(peers[p]) ELSE peers[p]]
    IN
    /\ j.kind = "sync" /\ (~Links(j.block) \/ Fails(j.block))
    /\ GoOn("push", {}, {}, done, Tail(jobs), due)
    /\ UNCHANGED << held, recent >>

\* process_block_during_normal_operation, after the push
NormalPushed(j) ==
    LET p == j.peer
        c == StartSync(peers[p])
    IN
    /\ j.kind = "normal"
    /\ \/ /\ Links(j.block) /\ ~Fails(j.block)
          /\ held' = Pushed(j.block) /\ recent' = Remember(j.block)
          /\ peers' = SeenBy(j.block)
          /\ jobs' = Tail(jobs)
       \/ /\ ~Links(j.block)
          /\ peers' = [peers EXCEPT ![p] = c]
          /\ jobs' = Append(Tail(jobs), Ask(p, c))
          /\ UNCHANGED << held, recent >>
       \/ /\ Links(j.block) /\ Fails(j.block)
          /\ peers' = [q \in Peer |->
                IF q = p \/ (Active(q) /\ peers[q].toGet # << >> /\ Head(peers[q].toGet) = j.block)
                THEN Disconnect(peers[q]) ELSE peers[q]]
          /\ jobs' = Tail(jobs)
          /\ UNCHANGED << held, recent >>
    /\ UNCHANGED << due, overtaken >>

Delegate ==
    /\ jobs # << >>
    /\ LET j == Head(jobs) IN
       SendFetchIds(j) \/ SyncAccepted(j) \/ SyncRejected(j) \/ NormalPushed(j)
    /\ UNCHANGED << tip, active, arrived, received, suspended, connects, missed, skipped, lacking >>

-----------------------------------------------------------------------------
(* terminate_inactive_connections_loop *)

\* The loop disconnects a peer that is silent altogether, one that left a
\* request for ids unanswered, and one that blocks are needed from while its
\* list is empty and nothing is asked of it ("a state we should never get into",
\* although a peer is in it while the last blocks of its list are applied).  A peer that only left requests
\* for blocks unanswered ends the loop over the peers and stays.
TerminateInactive(p) ==
    /\ Active(p)
    /\ peers' = [peers EXCEPT ![p] = Disconnect(@)]
    /\ UNCHANGED << tip, held, active, arrived, received, recent, jobs, due, suspended, connects, noted >>

-----------------------------------------------------------------------------
(* The specification *)

\* A peer adopts a longer chain.
AdoptChain(p) ==
    /\ \E b \in Block : Num(b) > Num(tip[p]) /\ tip' = [tip EXCEPT ![p] = b]
    /\ UNCHANGED << peers, held, active, arrived, received, recent, jobs, due, suspended, connects, noted >>

SyncInit ==
    /\ peers = [p \in Peer |-> NewConnection]
    /\ tip = StartTip
    /\ held = [have |-> Range(Path[StartHead]), head |-> StartHead]
    /\ active = {} /\ arrived = << >> /\ received = << >> /\ recent = << StartHead >>
    /\ jobs = << >> /\ due = {} /\ suspended = FALSE /\ connects = 0
    /\ overtaken = FALSE /\ missed = {} /\ skipped = {} /\ lacking = {}

SyncNext ==
    \/ FetchSyncItems \/ ProcessBacklog \/ Delegate
    \/ \E p \in Peer :
          \/ Connect(p) \/ ConnectionClosed(p) \/ TerminateInactive(p) \/ AdoptChain(p)
          \/ SyncBlock(p) \/ ItemNotAvailable(p)
          \/ RequestBlock(p) \/ FetchBlockchainItemIds(p)
          \/ \E b \in peers[p].normal : NormalBlock(p, b) \/ NormalNotAvailable(p, b)
          \/ \E ids \in Replies(p) : BlockchainItemIdsInventory(p, ids)

SyncSpec == SyncInit /\ [][SyncNext]_syncVars

-----------------------------------------------------------------------------
(* Properties *)

Connection ==
    [conn : {"closed", "active", "closing"}, toGet : Seq(Block), processing : SUBSET Block,
     unfetched : Nat, requested : Seq(Block), asked : SUBSET Seq(Block), sent : Seq(Seq(Block)),
     weNeed : BOOLEAN, peerNeeds : BOOLEAN, inhibit : BOOLEAN, seen : Block \cup {NoBlock},
     normal : SUBSET Block, offered : SUBSET Block, informs : BOOLEAN]

Job ==
    [kind : {"ask"}, peer : Peer \cup {Nobody}, ref : Block \cup {NoBlock}, ids : Seq(Block),
     handler : Peer \cup {Nobody}, task : {"read", "push", "backlog"},
     rest : SUBSET Peer, again : SUBSET Peer]
        \cup [kind : {"sync"}, block : Block, handler : {Nobody}, task : {"push"}]
        \cup [kind : {"normal"}, block : Block, peer : Peer, handler : Peer, task : {"read"}]

\* The variables have their types.
SyncTypeOK ==
    /\ peers \in [Peer -> Connection] /\ tip \in [Peer -> Block \cup {NoBlock}]
    /\ held \in [have : SUBSET Block, head : Block] /\ active \subseteq Block
    /\ arrived \in Seq(Block) /\ received \in Seq(Block) /\ recent \in Seq(Block)
    /\ jobs \in Seq(Job) /\ due \subseteq {"fetch", "backlog"}
    /\ suspended \in BOOLEAN /\ connects \in Nat
    /\ overtaken \in BOOLEAN /\ missed \subseteq Block
    /\ skipped \subseteq Peer /\ lacking \subseteq Block

\* Every block that the node passes to the delegate builds on a block that the
\* delegate has or was passed before: whatever peers come, go, switch to another
\* fork or answer late, no peer with valid blocks is disconnected for one "that we
\* reject as invalid" (send_sync_block_to_node_delegate).  The exception is a call
\* that a task makes for a connection behind its other calls, when the connection
\* has got a list in the meantime: starting it anew drops the list while a reply
\* that continues the list may be on its way.
BlocksLink ==
    overtaken \/ \A i \in DOMAIN jobs : jobs[i].kind = "sync" =>
        LET b == jobs[i].block IN
        \/ Parent(b) \in held.have \cup {NoBlock}
        \/ \E k \in 1 .. i - 1 : jobs[k].kind = "sync" /\ jobs[k].block = Parent(b)

\* A block is requested from one peer at a time, and a request is not forgotten:
\* _active_sync_requests holds the blocks that some connection waits for, no two
\* of them for the same, and those that a peer said it cannot serve, which are
\* left there.
OneRequestEach ==
    /\ active = lacking \cup UNION { Range(peers[p].requested) : p \in Peer }
    /\ \A p, q \in Peer : p # q => Range(peers[p].requested) \cap Range(peers[q].requested) = {}
    /\ \A p \in Peer : IsInjective(peers[p].requested)

\* The next block of p's list will not come: a peer lacked it and it still counts
\* as requested, it waits in the backlog for another block to start a pass, it
\* arrived while the task that makes the passes waited, or the sync loop passed p
\* over when p had an advertised block to send, whose arrival does not trigger it.
Waiting(p) ==
    /\ peers[p].toGet # << >>
    /\ LET b == Head(peers[p].toGet) IN
       b \in lacking \/ b \in Range(received) \/ b \in missed \/ p \in skipped

Synced(p) == ~Active(p) \/ tip[p] = NoBlock \/ tip[p] \in held.have

\* Nothing is under way: no task to run, no call to serve, no answer to come,
\* no connection to close, no new block that a peer would advertise.
Quiet ==
    /\ jobs = << >> /\ due = {}
    /\ \A p \in Peer : Connected(p) =>
          /\ Active(p) /\ peers[p].sent = << >> /\ peers[p].requested = << >> /\ peers[p].normal = {}
          /\ peers[p].informs => tip[p] \in peers[p].offered \cup {NoBlock}

\* When nothing is under way any more the node has every block of the peers
\* it is connected to, unless it refuses a peer's blocks or the next block of a
\* peer's list waits for one of the reasons above.
QuietMeansSynced ==
    Quiet => \A p \in Peer : Synced(p) \/ peers[p].inhibit \/ Waiting(p)
=============================================================================
