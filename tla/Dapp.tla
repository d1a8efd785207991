-------------------------------- MODULE Dapp --------------------------------
(***************************************************************************)
(* The dapp plugin: dapps that the block producers approve or reject, their *)
(* members, the trees of comments in them, and the fee that the owner of a *)
(* dapp pays for every operation on it.                                    *)
(*                                                                         *)
(* An operation reaches its evaluator in a custom_json_dapp operation; an   *)
(* assertion that fails undoes it whole.  now is head_block_time(), which  *)
(* stays that of the last block while operations are applied.              *)
(*                                                                         *)
(* A comment is known by its dapp, author and permlink.  Its text and the   *)
(* counters that nothing but the API reads are left out, and so is the key *)
(* of a dapp.  What becomes of a fee is the subject of module Ledger.      *)
(***************************************************************************)
EXTENDS Integers, Sequences, SequencesExt, FiniteSets, FiniteSetsExt

CONSTANTS
    Account,
    Bproducer,            \* owners of a bobserver with is_bproducer
    DappName,
    Permlink,
    VoteType,             \* LIKE, DISLIKE
    FeeVote,              \* fees that are voted for
    Required,             \* SIGMAENGINE_HARDFORK_REQUIRED_BOBSERVERS_HF2
    MinFeeds, FeedAge,    \* SIGMAENGINE_MIN_FEEDS, SIGMAENGINE_MAX_FEED_AGE_SECONDS
    AggregationInterval,  \* an hour
    PostInterval,         \* SIGMAENGINE_MIN_ROOT_COMMENT_INTERVAL, _MIN_REPLY_INTERVAL
    MaxDepth,             \* SIGMAENGINE_MAX_COMMENT_DEPTH
    InitFee, InitCoins,   \* the fee and the balances at the start
    StartTime,            \* the time at the start
    MaxTime, MaxOps       \* bounds on time and on operations

ASSUME DappAssumption ==
    /\ Bproducer \subseteq Account
    /\ FeeVote \subseteq Nat
    /\ {Required, MinFeeds, FeedAge, AggregationInterval, PostInterval} \subseteq Nat \ {0}
    /\ {MaxDepth, InitFee, InitCoins, StartTime, MaxTime, MaxOps} \subseteq Nat

VARIABLES
    now,                  \* head_block_time()
    phase,                \* "txs", or the plugin at work when a block was applied
    ops,                  \* operations so far
    aggregated,           \* last_dapp_voting_aggregation_time
    dapps,                \* the owner and state of each dapp
    votes,                \* the dapp_vote objects
    users,                \* the dapp_user objects
    comments,             \* the dapp_comment objects
    likes,                \* the dapp_comment_vote objects
    lastPost, lastRoot,   \* last_post and last_root_post of each account
    fee, feeVotes,        \* dapp_transaction_fee and the votes on it
    coins                 \* balance of each account

dappVars == <<aggregated, dapps, votes, users, comments, likes, lastPost, lastRoot,
              fee, feeVotes, coins>>

Key == DappName \X Account \X Permlink
Root == <<"root">>
NoDapp == [state |-> "none"]
NoComment == [parent |-> Root, depth |-> -1, children |-> 0]
Exists(c) == comments[c] # NoComment
Approved(d) == dapps[d].state = "approved"

InitDapps(d, owner, members) ==
    /\ now = StartTime /\ phase = "txs" /\ ops = 0 /\ aggregated = StartTime
    /\ dapps = [x \in DappName |->
                  IF x = d THEN [state |-> "approved", owner |-> owner] ELSE NoDapp]
    /\ users = {<<d, a>> : a \in members}
    /\ votes = {} /\ feeVotes = {} /\ likes = {}
    /\ comments = [c \in Key |-> NoComment]
    /\ lastPost = [a \in Account |-> 0] /\ lastRoot = [a \in Account |-> 0]
    /\ fee = InitFee /\ coins = [a \in Account |-> InitCoins]

-----------------------------------------------------------------------------
(* Operations.                                                             *)
Operation == phase = "txs" /\ ops < MaxOps /\ ops' = ops + 1 /\ UNCHANGED <<now, phase>>

\* The owner of a dapp, or the publisher of its token, pays for an operation.
Charged(owner) ==
    /\ coins[owner] >= fee
    /\ coins' = [coins EXCEPT ![owner] = @ - fee]

CreateDapp(d, owner) ==
    /\ Operation
    /\ dapps[d] = NoDapp
    /\ dapps' = [dapps EXCEPT ![d] = [state |-> "pending", owner |-> owner]]
    /\ users' = users \cup {<<d, owner>>}
    /\ UNCHANGED <<aggregated, votes, comments, likes, lastPost, lastRoot, fee, feeVotes, coins>>

UpdateDappKey(d) ==
    /\ Operation
    /\ dapps[d] # NoDapp /\ Charged(dapps[d].owner)
    /\ UNCHANGED <<aggregated, dapps, votes, users, comments, likes, lastPost, lastRoot,
                   fee, feeVotes>>

\* The comments a comment answers, directly or not.
Ancestors(c) ==
    LET Up[n \in 0 .. comments[c].depth] == IF n = 0 THEN c ELSE comments[Up[n - 1]].parent
    IN  {Up[n] : n \in 1 .. comments[c].depth}

\* Mutant: counts a reply for the comment it answers and not for those above.
AboveReply(p) == {p}

\* The comments above a reply to p.
Above(p) == IF p = Root THEN {} ELSE {p} \cup Ancestors(p)

CommentDepth(p) == IF p = Root THEN 0 ELSE comments[p].depth + 1

MayPost(a, p) == now - (IF p = Root THEN lastRoot[a] ELSE lastPost[a]) > PostInterval

\* comment_dapp for a permlink that is new; p is the comment it answers.
CreateComment(c, p) ==
    LET d == c[1]
        a == c[2]
    IN  /\ Operation
        /\ Approved(d) /\ <<d, a>> \in users /\ Charged(dapps[d].owner)
        /\ p # Root => p[1] = d /\ Exists(p) /\ comments[p].depth < MaxDepth
        /\ ~Exists(c) /\ MayPost(a, p)
        /\ comments' = [x \in Key |->
             IF x = c THEN [parent |-> p, depth |-> CommentDepth(p), children |-> 0]
             ELSE IF x \in Above(p) THEN [comments[x] EXCEPT !.children = @ + 1]
             ELSE comments[x]]
        /\ lastPost' = [lastPost EXCEPT ![a] = now]
        /\ lastRoot' = IF p = Root THEN [lastRoot EXCEPT ![a] = now] ELSE lastRoot
        /\ UNCHANGED <<aggregated, dapps, votes, users, likes, fee, feeVotes>>

\* comment_dapp for one that exists: the parent cannot change.
EditComment(c) ==
    LET d == c[1]
        p == comments[c].parent
    IN  /\ Operation
        /\ Exists(c)
        /\ Approved(d) /\ <<d, c[2]>> \in users /\ Charged(dapps[d].owner)
        /\ p # Root => comments[p].depth < MaxDepth
        /\ UNCHANGED <<aggregated, dapps, votes, users, comments, likes, lastPost, lastRoot,
                       fee, feeVotes>>

CommentVote(c, voter, type) ==
    /\ Operation
    /\ dapps[c[1]] # NoDapp /\ <<c[1], voter>> \in users /\ Charged(dapps[c[1]].owner)
    /\ Exists(c)
    /\ likes' = likes \cup {<<c, voter, type>>}
    /\ UNCHANGED <<aggregated, dapps, votes, users, comments, lastPost, lastRoot, fee, feeVotes>>

\* The author need not be a member any more.
DeleteComment(c) ==
    /\ Operation
    /\ Exists(c) /\ comments[c].children = 0
    /\ Charged(dapps[c[1]].owner)
    /\ likes' = {l \in likes : l[1] # c}
    /\ comments' = [x \in Key |->
         IF x = c THEN NoComment
         ELSE IF x \in Above(comments[c].parent) THEN [comments[x] EXCEPT !.children = @ - 1]
         ELSE comments[x]]
    /\ UNCHANGED <<aggregated, dapps, votes, users, lastPost, lastRoot, fee, feeVotes>>

JoinDapp(d, a) ==
    /\ Operation
    /\ Approved(d) /\ <<d, a>> \notin users /\ Charged(dapps[d].owner)
    /\ users' = users \cup {<<d, a>>}
    /\ UNCHANGED <<aggregated, dapps, votes, comments, likes, lastPost, lastRoot, fee, feeVotes>>

LeaveDapp(d, a) ==
    /\ Operation
    /\ dapps[d] # NoDapp /\ <<d, a>> \in users /\ Charged(dapps[d].owner)
    /\ users' = users \ {<<d, a>>}
    /\ UNCHANGED <<aggregated, dapps, votes, comments, likes, lastPost, lastRoot, fee, feeVotes>>

\* A later vote replaces an earlier one.
VoteDapp(d, v, choice) ==
    /\ Operation
    /\ dapps[d].state = "pending"
    /\ votes' = {w \in votes : ~(w.dapp = d /\ w.voter = v)}
                  \cup {[dapp |-> d, voter |-> v, vote |-> choice]}
    /\ UNCHANGED <<aggregated, dapps, users, comments, likes, lastPost, lastRoot, fee,
                   feeVotes, coins>>

VoteDappTrxFee(v, f) ==
    /\ Operation
    /\ feeVotes' = {w \in feeVotes : w.voter # v} \cup {[voter |-> v, fee |-> f, at |-> now]}
    /\ UNCHANGED <<aggregated, dapps, votes, users, comments, likes, lastPost, lastRoot, fee,
                   coins>>

DappOperation ==
    \/ \E d \in DappName, a \in Account : CreateDapp(d, a) \/ JoinDapp(d, a) \/ LeaveDapp(d, a)
    \/ \E d \in DappName : UpdateDappKey(d)
    \/ \E c \in Key, p \in Key \cup {Root} : CreateComment(c, p)
    \/ \E c \in Key : EditComment(c) \/ DeleteComment(c)
    \/ \E c \in Key, v \in Account, t \in VoteType : CommentVote(c, v, t)
    \/ \E d \in DappName, v \in Bproducer, c \in {"approved", "rejected"} : VoteDapp(d, v, c)
    \/ \E v \in Bproducer, f \in FeeVote : VoteDappTrxFee(v, f)

-----------------------------------------------------------------------------
(* on_apply_block(), at the time t of the block.                            *)
Count(d, choice) == Cardinality({w \in votes : w.dapp = d /\ w.vote = choice})

\* aggregate_dapp_approve_vote(): enough votes decide; a rejected dapp goes.
Passes(d) == dapps[d].state = "pending" /\ Count(d, "approved") >= Required
Fails(d) == dapps[d].state = "pending" /\ ~Passes(d) /\ Count(d, "rejected") >= Required
Orphans == {u \in users : Fails(u[1])}

\* aggregate_trx_fee_vote(): the median of the recent votes, if they are enough.
Recent(t) == {w \in feeVotes : t < w.at + FeedAge}
Median(ws) ==
    LET sorted == SetToSortSeq(ws, LAMBDA v, w : v.fee < w.fee)
    IN  sorted[Len(sorted) \div 2 + 1].fee

Aggregate(t) ==
    IF t > aggregated + AggregationInterval
    THEN /\ dapps' = [d \in DappName |->
                        IF Passes(d) THEN [dapps[d] EXCEPT !.state = "approved"]
                        ELSE IF Fails(d) THEN NoDapp ELSE dapps[d]]
         /\ votes' = {w \in votes : ~Passes(w.dapp) /\ ~Fails(w.dapp)}
         /\ users' = users \ Orphans
         /\ fee' = IF Cardinality(Recent(t)) >= MinFeeds THEN Median(Recent(t)) ELSE fee
         /\ aggregated' = t
         /\ UNCHANGED <<comments, likes, lastPost, lastRoot, feeVotes, coins>>
    ELSE UNCHANGED dappVars

-----------------------------------------------------------------------------
\* Each comment counts all the comments below it, which is what allows its
\* removal: every comment's answers lead up to a root, whatever was added and
\* deleted in between.  A vote is for a comment that exists, a comment is in
\* an approved dapp, a vote on a dapp in one that is undecided, and a dapp
\* that was rejected leaves no members behind.
CommentsConsistent ==
    /\ \A c \in Key : Exists(c) =>
          /\ Approved(c[1])
          /\ comments[c].parent # Root => Exists(comments[c].parent)
          /\ comments[c].children = Cardinality({x \in Key : Exists(x) /\ c \in Ancestors(x)})
    /\ \A l \in likes : Exists(l[1])
    /\ \A w \in votes : dapps[w.dapp].state = "pending"
    /\ \A u \in users : dapps[u[1]] # NoDapp
=============================================================================
