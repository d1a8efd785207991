-------------------------- MODULE AccountRecovery --------------------------
(***************************************************************************)
(* Who owns an account, and how it is given back: the owner authorities of *)
(* the accounts, the history of the owners they replaced, the requests of  *)
(* recovery accounts, the delayed change of a recovery account, and the    *)
(* work on all of these at the end of a block.                             *)
(*                                                                         *)
(* Transactions see the time of the last block; the block that holds them  *)
(* sets its own time after them (EndBlock).  Signatures are left out: the  *)
(* operations arrive with those that they need.  Keys, the active and the  *)
(* posting authority, metadata and the temporary account, which cannot be  *)
(* updated, are not modelled.                                              *)
(***************************************************************************)
EXTENDS Integers, Sequences, FiniteSets

CONSTANTS
    Account,        \* the names accounts may have
    Genesis,        \* the accounts init_genesis() makes, with no recovery account
    Authority,      \* the owner authorities
    GenesisOwner,   \* the one of the genesis accounts
    Open,           \* those with weight_threshold 0
    Impossible,     \* those whose weights cannot reach the threshold
    AccountAuths,   \* the accounts that an authority names
    Rank,           \* the order of the accounts' names
    None,           \* no request, no account
    UpdateLimit,    \* SIGMAENGINE_OWNER_UPDATE_LIMIT
    RequestPeriod,  \* SIGMAENGINE_ACCOUNT_RECOVERY_REQUEST_EXPIRATION_PERIOD
    RecoveryPeriod, \* SIGMAENGINE_OWNER_AUTH_RECOVERY_PERIOD
    StartTime,      \* the time of the genesis block
    MaxGap,         \* bound: the time from a block to the next
    MaxTime,        \* bound: the time of the last block
    MaxOps          \* bound: the operations in all blocks

\* The objects, and what stands asked for.
RecoveryRequest == [authority : Authority, expires : Nat]
RecoveryChange == [account : Account, effective : Nat]
OwnerHistory == [account : Account, authority : Authority, lastValid : Nat]
Asked == [authority : Authority, time : Nat]
Wanted == [account : Account, time : Nat]

ASSUME RecoveryAssumption ==
    /\ Genesis \subseteq Account /\ Genesis # {}
    /\ GenesisOwner \in Authority
    /\ Open \subseteq Authority /\ Impossible \subseteq Authority \ Open
    /\ AccountAuths \in [Authority -> SUBSET Account]
    /\ AccountAuths[GenesisOwner] = {}
    /\ Rank \in [Account -> Nat] /\ \A a, b \in Account : Rank[a] = Rank[b] => a = b
    /\ None \notin Account \cup Authority
    /\ None \notin RecoveryRequest \cup RecoveryChange \cup Asked \cup Wanted
    /\ {UpdateLimit, RequestPeriod, RecoveryPeriod, StartTime} \subseteq Nat
    /\ RequestPeriod > 0 /\ RecoveryPeriod > 0 /\ StartTime > UpdateLimit
    /\ MaxGap \in Nat \ {0} /\ MaxTime \in Nat /\ MaxOps \in Nat

VARIABLES
    accounts,         \* the accounts that exist
    owner,            \* account_authority_object::owner
    lastOwnerUpdate,  \* account_authority_object::last_owner_update, 0 if never
    recoveryAccount,  \* account_object::recovery_account, None if empty
    lastRecovery,     \* account_object::last_account_recovery, 0 if never
    request,          \* the account_recovery_request_object of an account
    change,           \* its change_recovery_account_request_object
    history,          \* the owner_authority_history_objects by id
    bobservers,       \* the accounts with a bobserver_object
    time,             \* head_block_time()
    ops,              \* how many operations there were
    \* What the properties speak of:
    replaced,         \* when an authority was last replaced as owner, 0 if never
    asked,            \* the request of the recovery account that stands
    wanted            \* the wish for another recovery account that stands

objects == <<accounts, owner, lastOwnerUpdate, recoveryAccount, lastRecovery, history>>
ghosts == <<replaced, asked, wanted>>
vars == <<objects, request, change, bobservers, time, ops, ghosts>>

Init ==
    /\ accounts = Genesis
    /\ owner = [a \in Account |-> GenesisOwner]
    /\ lastOwnerUpdate = [a \in Account |-> 0]
    /\ recoveryAccount = [a \in Account |-> None]
    /\ lastRecovery = [a \in Account |-> 0]
    /\ request = [a \in Account |-> None]
    /\ change = [a \in Account |-> None]
    /\ history = << >>
    /\ bobservers = Genesis
    /\ time = StartTime /\ ops = 0
    /\ replaced = [a \in Account |-> [k \in Authority |-> 0]]
    /\ asked = [a \in Account |-> None]
    /\ wanted = [a \in Account |-> None]

-----------------------------------------------------------------------------
(* Owners.                                                                 *)

\* get_account() throws when an authority names an account that is not there.
AuthsExist(k) == AccountAuths[k] \subseteq accounts

\* account_create_evaluator: whoever signs for the account can recover it.
AccountCreate(creator, a, k) ==
    /\ creator \in accounts /\ a \in Account \ accounts /\ AuthsExist(k)
    /\ accounts' = accounts \cup {a}
    /\ owner' = [owner EXCEPT ![a] = k]
    /\ recoveryAccount' = [recoveryAccount EXCEPT ![a] = creator]
    /\ UNCHANGED <<lastOwnerUpdate, lastRecovery, history, request, change, bobservers, time, ghosts>>

\* Mutant: the time since when the old owner was valid is kept.
UpdateOwnerAuthoritySince(a, k) ==
    /\ history' = Append(history, [account |-> a, authority |-> owner[a],
                                   lastValid |-> lastOwnerUpdate[a]])
    /\ owner' = [owner EXCEPT ![a] = k]
    /\ lastOwnerUpdate' = [lastOwnerUpdate EXCEPT ![a] = time]
    /\ replaced' = [replaced EXCEPT ![a][owner[a]] = time]

\* The history is kept from block 0 on.
UpdateOwnerAuthority(a, k) ==
    /\ history' = Append(history, [account |-> a, authority |-> owner[a],
                                   lastValid |-> time])
    /\ owner' = [owner EXCEPT ![a] = k]
    /\ lastOwnerUpdate' = [lastOwnerUpdate EXCEPT ![a] = time]
    /\ replaced' = [replaced EXCEPT ![a][owner[a]] = time]

\* account_update_evaluator with a new owner, which nothing validates: it may
\* be open or impossible.
AccountUpdate(a, k) ==
    /\ a \in accounts
    /\ time - lastOwnerUpdate[a] > UpdateLimit
    /\ AuthsExist(k)
    /\ UpdateOwnerAuthority(a, k)
    /\ UNCHANGED <<accounts, recoveryAccount, lastRecovery, request, change, bobservers, time,
                   asked, wanted>>

-----------------------------------------------------------------------------
(* Recovery.                                                               *)

\* bobserver_update_evaluator makes an account a bobserver, for ever.
BobserverUpdate(a) ==
    /\ a \in accounts \ bobservers
    /\ bobservers' = bobservers \cup {a}
    /\ UNCHANGED <<objects, request, change, time, ghosts>>

\* The first bobserver of by_vote_name.  No operation changes votes: the first
\* name decides.
IsTop(b) == b \in bobservers /\ \A c \in bobservers : Rank[b] <= Rank[c]

\* An account with no recovery account has the top bobserver.
IsRecoveryPartner(b, a) ==
    IF recoveryAccount[a] = None THEN IsTop(b) ELSE b = recoveryAccount[a]

\* request_account_recovery_evaluator: create, cancel or change a request.
RequestAccountRecovery(by, a, k) ==
    /\ {by, a} \subseteq accounts
    /\ IsRecoveryPartner(by, a)
    /\ IF request[a] # None /\ k \in Open
       THEN /\ request' = [request EXCEPT ![a] = None]
            /\ asked' = [asked EXCEPT ![a] = None]
       ELSE /\ k \notin Open \cup Impossible /\ AuthsExist(k)
            /\ request' = [request EXCEPT ![a] =
                              [authority |-> k, expires |-> time + RequestPeriod]]
            /\ asked' = [asked EXCEPT ![a] = [authority |-> k, time |-> time]]
    /\ UNCHANGED <<objects, change, bobservers, time, replaced, wanted>>

\* The owners whose signature proves that an account was theirs.
RecentOwners(a) ==
    {history[i].authority : i \in {j \in DOMAIN history : history[j].account = a}}

\* Mutant: the request stays.
RecoverAccountAgain(a, new, recent) ==
    /\ a \in accounts /\ new # recent
    /\ new \notin Open \cup Impossible /\ recent \notin Impossible
    /\ time - lastRecovery[a] > UpdateLimit
    /\ request[a] # None /\ request[a].authority = new
    /\ recent \in RecentOwners(a)
    /\ UpdateOwnerAuthority(a, new)
    /\ lastRecovery' = [lastRecovery EXCEPT ![a] = time]
    /\ asked' = [asked EXCEPT ![a] = None]
    /\ UNCHANGED <<accounts, recoveryAccount, request, change, bobservers, time, wanted>>

\* recover_account_operation::validate() and recover_account_evaluator.
RecoverAccount(a, new, recent) ==
    /\ a \in accounts /\ new # recent
    /\ new \notin Open \cup Impossible /\ recent \notin Impossible
    /\ time - lastRecovery[a] > UpdateLimit
    /\ request[a] # None /\ request[a].authority = new
    /\ recent \in RecentOwners(a)
    /\ request' = [request EXCEPT ![a] = None]
    /\ UpdateOwnerAuthority(a, new)
    /\ lastRecovery' = [lastRecovery EXCEPT ![a] = time]
    /\ asked' = [asked EXCEPT ![a] = None]
    /\ UNCHANGED <<accounts, recoveryAccount, change, bobservers, time, wanted>>

\* Mutant: a changed request keeps its date.
ChangeRequestEarly(a, r) ==
    [account |-> r, effective |->
        IF change[a] = None THEN time + RecoveryPeriod ELSE change[a].effective]

\* A request for another recovery account, new or changed.
ChangeRequest(a, r) == [account |-> r, effective |-> time + RecoveryPeriod]

\* change_recovery_account_evaluator: naming the current recovery account
\* cancels a request.
ChangeRecoveryAccount(a, r) ==
    /\ {a, r} \subseteq accounts
    /\ IF change[a] # None /\ recoveryAccount[a] = r
       THEN /\ change' = [change EXCEPT ![a] = None]
            /\ wanted' = [wanted EXCEPT ![a] = None]
       ELSE /\ change' = [change EXCEPT ![a] = ChangeRequest(a, r)]
            /\ wanted' = [wanted EXCEPT ![a] = [account |-> r, time |-> time]]
    /\ UNCHANGED <<objects, request, bobservers, time, replaced, asked>>

-----------------------------------------------------------------------------
(* The end of a block: account_recovery_processing().                      *)

\* Clear expired recovery requests.
Unexpired(now) ==
    [a \in Account |-> IF request[a] # None /\ request[a].expires <= now
                       THEN None ELSE request[a]]

\* Clear invalid historical authorities, by id, up to the first that is valid.
Outdated(h, now) == h.lastValid + RecoveryPeriod < now

FirstValid(now) ==
    CHOOSE i \in 1 .. Len(history) + 1 :
        /\ \A j \in 1 .. i - 1 : Outdated(history[j], now)
        /\ i <= Len(history) => ~Outdated(history[i], now)

ValidHistory(now) == SubSeq(history, FirstValid(now), Len(history))

\* Apply effective recovery_account changes.
Effective(a, now) == change[a] # None /\ change[a].effective <= now

EndBlock(now) ==
    /\ time' = now
    /\ request' = Unexpired(now)
    /\ history' = ValidHistory(now)
    /\ recoveryAccount' = [a \in Account |-> IF Effective(a, now) THEN change[a].account
                                             ELSE recoveryAccount[a]]
    /\ change' = [a \in Account |-> IF Effective(a, now) THEN None ELSE change[a]]
    /\ wanted' = [a \in Account |-> IF Effective(a, now) THEN None ELSE wanted[a]]
    /\ UNCHANGED <<accounts, owner, lastOwnerUpdate, lastRecovery, bobservers, ops, replaced, asked>>

Operation ==
    \/ \E c, a \in Account, k \in Authority : AccountCreate(c, a, k)
    \/ \E a \in Account, k \in Authority : AccountUpdate(a, k)
    \/ \E b, a \in Account, k \in Authority : RequestAccountRecovery(b, a, k)
    \/ \E a \in Account, new, recent \in Authority : RecoverAccount(a, new, recent)
    \/ \E a, r \in Account : ChangeRecoveryAccount(a, r)
    \/ \E a \in Account : BobserverUpdate(a)

Next ==
    \/ ops < MaxOps /\ ops' = ops + 1 /\ Operation
    \/ \E now \in time + 1 .. time + MaxGap : now <= MaxTime /\ EndBlock(now)

Spec == Init /\ [][Next]_vars

-----------------------------------------------------------------------------
\* The variables have their types.
TypeOK ==
    /\ accounts \in SUBSET Account /\ bobservers \in SUBSET accounts
    /\ owner \in [Account -> Authority]
    /\ lastOwnerUpdate \in [Account -> Nat] /\ lastRecovery \in [Account -> Nat]
    /\ recoveryAccount \in [Account -> Account \cup {None}]
    /\ request \in [Account -> RecoveryRequest \cup {None}]
    /\ change \in [Account -> RecoveryChange \cup {None}]
    /\ history \in Seq(OwnerHistory)
    /\ time \in Nat /\ ops \in Nat
    /\ replaced \in [Account -> [Authority -> Nat]]
    /\ asked \in [Account -> Asked \cup {None}]
    /\ wanted \in [Account -> Wanted \cup {None}]

\* An owner authority can be used for a recovery while it was valid in the last
\* 30 days, and no longer, whatever the other accounts have in the history,
\* whose loop goes by id and stops at the first that is valid.
RecentOwnersKnown ==
    \A a \in Account, k \in Authority :
        k \in RecentOwners(a) <=>
            replaced[a][k] # 0 /\ replaced[a][k] + RecoveryPeriod >= time

\* An account is recovered only to the authority that its recovery account
\* asked for last, less than a day ago, once for each request, and only if it
\* had another owner in the last 30 days.
RecoveryWasAsked ==
    [][\A a \in Account : lastRecovery'[a] # lastRecovery[a] =>
          /\ asked[a] # None
          /\ asked[a].authority = owner'[a]
          /\ time < asked[a].time + RequestPeriod
          /\ \E k \in Authority \ {owner'[a]} :
                replaced[a][k] # 0 /\ replaced[a][k] + RecoveryPeriod >= time]_vars

\* The recovery account changes to the one asked for last, at least 30 days
\* after that; and until that block whoever owned the account when the change
\* was asked for, or since, could recover it with the old recovery account.
OwnersOutlastChange ==
    [][\A a \in accounts : recoveryAccount'[a] # recoveryAccount[a] =>
          /\ wanted[a] # None
          /\ wanted[a].account = recoveryAccount'[a]
          /\ time' >= wanted[a].time + RecoveryPeriod
          /\ \A k \in Authority :
                replaced[a][k] >= wanted[a].time => k \in RecentOwners(a)]_vars
=============================================================================
