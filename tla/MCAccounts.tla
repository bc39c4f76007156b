------------------------------ MODULE MCAccounts ------------------------------
(***************************************************************************)
(* What the coordinator keeps of accounts and of what they own, checked    *)
(* side by side: the compute ledger with one chain under concurrent        *)
(* requests (Ledger), the bridge between two chains (Bridge, with its      *)
(* abstract CreditFlow) and the Merkle tree of a block (Merkle);           *)
(* namespaces (Namespaces), friendships (Friendships), fair share buckets  *)
(* (FairShare) and cloud launches (CloudLaunch).  A behaviour is one of    *)
(* them; the others stay as they began.                                    *)
(***************************************************************************)
EXTENDS Bridge, Sequences, TLC

CONSTANTS
  Validators, Relay, Quorum, Sessions, MaxTx, MaxOps, MaxLeaves,
  Requests,
  Users, Anonymous, Names, TeamNames, Roles, Sheets, MaxSpaces, MaxFriendCalls,
  Limits, NoLimit, NewWeights, Period, Finished, MaxTicks, MaxShareCalls,
  Providers, Rank, Types, AnyType, Prices, MaxPrices, Count, MaxLaunchRequests

ASSUME SpacesAssumption == MaxSpaces \in Nat

\* The relay is one of the validators.
ASSUME LedgerAssumption ==
  /\ Relay \in Validators /\ MaxTx \in Nat /\ MaxOps \in Nat /\ MaxLeaves \in Nat

\* update_my_fair_share refuses a weight below its least unit (ge=0.1).
ASSUME SharesAssumption ==
  /\ Limits \ {NoLimit} \subseteq Int /\ NewWeights \subseteq Nat \ {0}
  /\ Period \in Nat /\ Finished \in Nat /\ MaxTicks \in Nat

ASSUME CloudAssumption ==
  /\ IsFiniteSet(Providers) /\ Rank \in [Providers -> 1 .. Cardinality(Providers)]
  /\ \A p, q \in Providers : Rank[p] = Rank[q] => p = q
  /\ Prices \subseteq Nat /\ MaxPrices \subseteq Nat /\ Count \in Nat

VARIABLES
  part,
  chain, txAt, balances, active, settings, ses, ops,
  block, other,
  spaces, members, teams, sheets, request, created,
  friend, friendReq, consent, friendRaced, friendCalls,
  buckets, tx, clock, charged, again, seen, raced, since, early, shareCalls,
  market, cloudReq, instances, cloudCalls

ledgerVars == <<chain, txAt, balances, active, settings, ses, ops>>
merkleVars == <<block, other>>
spaceVars == <<spaces, members, teams, sheets, request, created>>
friendVars == <<friend, friendReq, consent, friendRaced, friendCalls>>
shareVars == <<buckets, tx, clock, charged, again, seen, raced, since, early, shareCalls>>
cloudVars == <<market, cloudReq, instances, cloudCalls>>

L == INSTANCE Ledger
M == INSTANCE Merkle
N == INSTANCE Namespaces
F == INSTANCE Friendships
       WITH MaxCalls <- MaxFriendCalls, row <- friend, req <- friendReq, raced <- friendRaced,
            calls <- friendCalls
B == INSTANCE FairShare
       WITH MaxTime <- MaxTicks, MaxCalls <- MaxShareCalls, rows <- buckets, now <- clock,
            calls <- shareCalls
C == INSTANCE CloudLaunch
       WITH MaxRequests <- MaxLaunchRequests, req <- cloudReq, requests <- cloudCalls

MCRank == [p \in Providers |-> IF p = "aws" THEN 1 ELSE 2]
MCAmounts == [t \in Transfers |-> IF t = CHOOSE u \in Transfers : TRUE THEN 2 ELSE 1]
MCPay == [j \in Jobs |-> IF j = "paid" THEN -1 ELSE 2]

MCInit ==
  /\ part \in {"chain", "bridge", "tree", "namespaces", "friends", "shares", "cloud"}
  /\ Init /\ L!Init /\ M!Init /\ N!Init /\ F!Init /\ B!Init /\ C!Init
  /\ part # "chain" => settings = [auto_seal |-> TRUE, extra |-> {}]
  /\ part # "bridge" => cosigned
  /\ part # "cloud" => \A p \in Providers, t \in Types : market[p][t] = C!Absent

MCNext ==
  \/ /\ part = "chain" /\ L!Next
     /\ UNCHANGED <<part, bridgeVars, merkleVars, spaceVars, friendVars, shareVars, cloudVars>>
  \/ /\ part = "bridge" /\ Next
     /\ UNCHANGED <<part, ledgerVars, merkleVars, spaceVars, friendVars, shareVars, cloudVars>>
  \/ /\ part = "tree" /\ M!Next
     /\ UNCHANGED <<part, ledgerVars, bridgeVars, spaceVars, friendVars, shareVars, cloudVars>>
  \/ /\ part = "namespaces" /\ N!Next
     /\ UNCHANGED <<part, ledgerVars, bridgeVars, merkleVars, friendVars, shareVars, cloudVars>>
  \/ /\ part = "friends" /\ F!Next
     /\ UNCHANGED <<part, ledgerVars, bridgeVars, merkleVars, spaceVars, shareVars, cloudVars>>
  \/ /\ part = "shares" /\ B!Next
     /\ UNCHANGED <<part, ledgerVars, bridgeVars, merkleVars, spaceVars, friendVars, cloudVars>>
  \/ /\ part = "cloud" /\ C!Next
     /\ UNCHANGED <<part, ledgerVars, bridgeVars, merkleVars, spaceVars, friendVars, shareVars>>

MCSpec ==
  MCInit /\ [][MCNext]_<<part, ledgerVars, bridgeVars, merkleVars, spaceVars, friendVars, shareVars,
                        cloudVars>>

\* The compute ledger (Ledger, Merkle): under overlapping seals and approvals a
\* block keeps exactly the transactions its root was computed from, nothing is
\* sealed on a block that never had its quorum, only transactions of blocks that
\* had it are credited, none is left pending with auto_seal, and the headers
\* verify unless a late approval has cleared a block; every leaf of a Merkle tree
\* has a proof and the root binds the list of leaves.
LedgerIsSound ==
  /\ part = "chain" => /\ L!TypeOK /\ L!ChainIntact /\ L!ProposalIsLast /\ L!CreditsAreFinal
                       /\ L!NothingLeftPending /\ L!HeadersVerify
  /\ part = "bridge" => BridgeTypeOK
  /\ part = "tree" => block \in Seq(Seq(Nat)) /\ M!ProofsVerify /\ M!RootBinds

\* Who may do what to whom (Namespaces, Friendships): an owner administers what
\* was created, rows of a namespace live no longer than it and come from its
\* administrators; friends have both consented, and two rows of a pair exist only
\* by a race.
RelationsAreGranted ==
  /\ part = "namespaces" => /\ N!TypeOK /\ N!OwnerAdministers /\ N!RowsHaveTheirSpace
                            /\ N!GrownByItsAdmins
  /\ part = "friends" => F!TypeOK /\ F!MutualRowsOnlyByRace /\ F!FriendsConsented

\* What an account is charged and given (FairShare, CloudLaunch): a bucket is
\* doubled, loses a charge or a part of its period only by a race, counts a task
\* twice only by a race or by update_fair_share_usage (tasks.py:1057) sent again,
\* and weighs nothing over its limit; a launch answers with one instance, within
\* the price asked for, and of another type only after a failure.
ChargesAreSound ==
  /\ part = "shares" => /\ B!TypeOK /\ B!SecondBucketOnlyByRace /\ B!LostOnlyByRace
                        /\ B!OverLimitWeighsNothing
  /\ part = "cloud" => /\ C!TypeOK /\ C!OneAnswerPerRequest /\ C!WithinMaxPrice
                       /\ C!OtherTypeOnlyByFailure
=============================================================================
