---------------------------- MODULE AccountsProofs ----------------------------
(***************************************************************************)
(* Proofs about what the coordinator keeps of accounts: the credit bridge  *)
(* implements CreditFlow for any transfers and amounts; the rows of        *)
(* namespaces and friendships are granted, and charges and cloud launches  *)
(* are sound, for any users, requests and providers; the compute ledger is *)
(* sound for any validators, quorum, sessions and number of transactions,  *)
(* and so is the Merkle tree of a block of any length.                     *)
(***************************************************************************)
EXTENDS MCAccounts, FiniteSetTheorems, WellFoundedInduction, TLAPS

-----------------------------------------------------------------------------
(* Induction on numbers, for sets of them.                                 *)

LEMMA LeastOf ==
  ASSUME NEW S, S \subseteq Nat, S # {}
  PROVE  \E n \in S : \A k \in S : n <= k
<1>1. PICK n \in S : \A k \in S : ~(<<k, n>> \in OpToRel(<, Nat))
  BY WFMin, NatLessThanWellFounded
<1>2. ASSUME NEW k \in S PROVE n <= k
  <2>1. ~(k < n)
    BY <1>1, <1>2 DEF OpToRel
  <2> QED
    BY <2>1
<1> QED
  BY <1>2

(* Induction up to n, for a set of numbers.                                *)
LEMMA UpTo ==
  ASSUME NEW n \in Nat, NEW G, 0 \in G, \A k \in 0..(n - 1) : k \in G => k + 1 \in G
  PROVE  \A k \in 0..n : k \in G
<1> DEFINE Bad == {k \in 0..n : k \notin G}
<1> SUFFICES ASSUME Bad # {} PROVE FALSE
  OBVIOUS
<1>1. Bad \subseteq Nat
  OBVIOUS
<1>2. PICK b \in Bad : \A k \in Bad : b <= k
  <2> HIDE DEF Bad
  <2> QED
    BY <1>1, LeastOf
<1>3. b \in 1..n
  OBVIOUS
<1>4. b - 1 \in 0..(n - 1) /\ b - 1 \in G /\ (b - 1) + 1 = b
  BY <1>2, <1>3
<1> QED
  BY <1>4

-----------------------------------------------------------------------------
(* The bridge.                                                             *)

(* A block is open or finalized, and only such a block has approvals on    *)
(* their way.  A transfer that has yet to commit its burn has none of      *)
(* these; one that goes on after it has a burn that no approval can take   *)
(* back; and it is minted in its last step.                                *)
BurnsAreSettled ==
  /\ open \cap final = {}
  /\ \A v \in votes : v[1] \in open \cup final
  /\ \A t \in Transfers :
       /\ at[t] \in {"new", "checked", "sealing"} => t \notin open \cup final
       /\ at[t] \in {"burnt", "proved", "done"} => t \in final /\ \A q \in BOOLEAN : <<t, q>> \notin votes
       /\ t \in minted => at[t] = "done"

(* While no block has lost its finality there is one open block at most,   *)
(* none beside a burn about to be committed, and the account still holds   *)
(* what a burn that was replayed takes from it.                            *)
ReplaysStand ==
  ~cleared =>
    /\ \A b, c \in open : b = c
    /\ \A t \in Transfers : at[t] = "sealing" => open = {} /\ net >= Amounts[t]
    /\ \A b \in open \cap Transfers : <<b, TRUE>> \in votes => net >= Amounts[b]

BridgeInv == BridgeTypeOK /\ BurnsAreSettled /\ ReplaysStand

LEMMA BridgeInitInv == Init => BridgeInv
<1> SUFFICES ASSUME Init PROVE BridgeInv
  OBVIOUS
<1>1. \A t \in Transfers : at[t] = "new"
  BY DEF Init
<1>2. BridgeTypeOK
  <2>1. made \in 0 .. MaxMade
    BY JobsAssumption DEF Init
  <2>2. cosigned \in BOOLEAN /\ cleared \in BOOLEAN
    BY Zenon DEF Init
  <2>3. /\ open \subseteq Blocks /\ final \subseteq Blocks /\ votes \subseteq Blocks \X BOOLEAN
        /\ minted \subseteq Transfers /\ taken \subseteq Transfers
    BY Zenon DEF Init
  <2>4. at \in [Transfers -> {"new", "checked", "sealing", "burnt", "proved", "done", "failed"}]
    BY DEF Init
  <2>5. net \in Int
    BY DEF Init
  <2> QED
    BY <2>1, <2>2, <2>3, <2>4, <2>5 DEF BridgeTypeOK
<1>3. BurnsAreSettled
  BY <1>1 DEF Init, BurnsAreSettled
<1>4. ReplaysStand
  BY <1>1 DEF Init, ReplaysStand
<1> QED
  BY <1>2, <1>3, <1>4 DEF BridgeInv

LEMMA WorthType ==
  /\ \A b \in Blocks : Worth(b) \in Int
  /\ \A t \in Transfers : Amounts[t] \in Nat /\ Worth(t) = - Amounts[t]
BY AmountsAssumption, JobsAssumption DEF Blocks, Worth

(* A block is committed: it was neither open nor finalized, and no other   *)
(* is open unless one has lost its finality.                               *)
LEMMA PersistOK ==
  ASSUME BridgeInv, NEW b \in Blocks, NEW pcs, Persist(b, pcs),
         b \notin open \cup final, cleared \/ open = {},
         b \in Transfers => /\ at[b] = "sealing"
                            /\ pcs[TRUE] = "burnt" /\ pcs[FALSE] = "failed",
         UNCHANGED <<votes, minted, made, taken, cosigned, cleared>>
  PROVE  BridgeInv'
<1> USE DEF BridgeInv
<1>1. \A t \in Transfers :
        at'[t] = IF t = b THEN IF cosigned THEN "burnt" ELSE "failed"
                 ELSE IF at[t] = "sealing" THEN "failed" ELSE at[t]
  BY DEF Persist, BridgeTypeOK
<1>2. /\ cosigned => final' = final \cup {b} /\ net' = net + Worth(b) /\ open' = open
      /\ ~cosigned => open' = open \cup {b} /\ final' = final /\ net' = net
      /\ cosigned \in BOOLEAN
  BY DEF Persist, BridgeTypeOK
<1>3. \A q : <<b, q>> \notin votes
  BY DEF BurnsAreSettled
<1>4. net' \in Int /\ open' \subseteq Blocks /\ final' \subseteq Blocks
  BY <1>2, WorthType DEF BridgeTypeOK
<1>5. at' \in [Transfers -> {"new", "checked", "sealing", "burnt", "proved", "done", "failed"}]
  <2>1. at' = [t \in Transfers |-> at'[t]]
    BY DEF Persist
  <2>2. \A t \in Transfers :
          at'[t] \in {"new", "checked", "sealing", "burnt", "proved", "done", "failed"}
    BY <1>1, <1>2 DEF BridgeTypeOK
  <2> QED
    BY <2>1, <2>2
<1>6. BridgeTypeOK'
  BY <1>4, <1>5 DEF BridgeTypeOK
<1>7. BurnsAreSettled'
  BY <1>1, <1>2, <1>3 DEF BurnsAreSettled, BridgeTypeOK
<1>8. ReplaysStand'
  <2>1. ASSUME ~cleared
        PROVE  /\ open' \subseteq {b} /\ \A t \in Transfers : at'[t] # "sealing"
    BY <1>1, <1>2, <2>1
  <2> QED
    BY <1>3, <2>1 DEF ReplaysStand
<1> QED
  BY <1>6, <1>7, <1>8

(* A step of a transfer that seals nothing.                                *)
LEMMA GoOK ==
  ASSUME BridgeInv, NEW t \in Transfers,
         NEW pc \in {"checked", "sealing", "proved", "done", "failed"}, Go(t, pc),
         UNCHANGED <<net, open, final, votes, cosigned, cleared>>,
         made' \in 0 .. MaxMade, taken' \subseteq Transfers,
         minted' = minted \/ (minted' = minted \cup {t} /\ pc = "done"),
         pc = "checked" => at[t] = "new",
         pc = "sealing" => at[t] = "checked" /\ open = {} /\ net >= Amounts[t],
         pc = "proved" => at[t] = "burnt",
         pc = "done" => at[t] = "proved",
         pc = "failed" => at[t] # "done"
  PROVE  BridgeInv'
<1> USE DEF BridgeInv
<1>1. /\ \A s \in Transfers : at'[s] = IF s = t THEN pc ELSE at[s]
      /\ at' \in [Transfers -> {"new", "checked", "sealing", "burnt", "proved", "done", "failed"}]
  BY DEF Go, BridgeTypeOK
<1>2. BridgeTypeOK'
  BY <1>1 DEF BridgeTypeOK
<1>3. BurnsAreSettled'
  BY <1>1 DEF BurnsAreSettled, BridgeTypeOK
<1>4. ReplaysStand'
  BY <1>1 DEF ReplaysStand
<1> QED
  BY <1>2, <1>3, <1>4

(* An approval is written back.                                            *)
LEMMA ApprovalOK ==
  ASSUME BridgeInv, NEW b \in Blocks, NEW quorum \in BOOLEAN, update_block_approvals(b, quorum)
  PROVE  BridgeInv'
<1> USE DEF BridgeInv
<1>1. /\ <<b, quorum>> \in votes /\ votes' \subseteq votes /\ b \in open \cup final
      /\ UNCHANGED <<at, minted, made, taken, cosigned>>
  BY DEF update_block_approvals, BurnsAreSettled
<1>2. Worth(b) \in Int
  BY WorthType
<1>3. CASE quorum
  <2>1. /\ final' = final \cup {b} /\ open' = open \ {b} /\ cleared' = cleared
        /\ net' = IF b \in final THEN net ELSE net + Worth(b)
    BY <1>3 DEF update_block_approvals
  <2>2. BridgeTypeOK'
    BY <1>1, <1>2, <2>1 DEF BridgeTypeOK
  <2>3. BurnsAreSettled'
    BY <1>1, <2>1 DEF BurnsAreSettled
  <2>4. ReplaysStand'
    <3>1. CASE b \in final
      BY <1>1, <2>1, <3>1 DEF ReplaysStand, BurnsAreSettled
    <3>2. CASE b \in open
      <4>1. ~cleared => open' = {} /\ \A t \in Transfers : at[t] # "sealing"
        BY <2>1, <3>2 DEF ReplaysStand
      <4> QED
        BY <1>1, <2>1, <4>1 DEF ReplaysStand
    <3> QED
      BY <1>1, <3>1, <3>2
  <2> QED
    BY <2>2, <2>3, <2>4
<1>4. CASE ~quorum
  <2>1. /\ final' = final \ {b} /\ open' = open \cup {b} /\ cleared' = (cleared \/ b \in final)
        /\ net' = IF b \in final THEN net - Worth(b) ELSE net
    BY <1>4 DEF update_block_approvals
  <2>2. BridgeTypeOK'
    BY <1>1, <1>2, <2>1 DEF BridgeTypeOK
  <2>3. BurnsAreSettled'
    BY <1>1, <2>1 DEF BurnsAreSettled
  <2>4. ReplaysStand'
    <3>1. CASE b \in final
      BY <2>1, <3>1 DEF ReplaysStand
    <3>2. CASE b \notin final
      <4>1. open' = open /\ net' = net /\ cleared' = (cleared \/ FALSE)
        BY <1>1, <2>1, <3>2
      <4> QED
        BY <1>1, <4>1 DEF ReplaysStand
    <3> QED
      BY <3>1, <3>2
  <2> QED
    BY <2>2, <2>3, <2>4
<1> QED
  BY <1>3, <1>4

(* Every step of a transfer, of the chain and of its validators preserves  *)
(* the invariant.                                                          *)
LEMMA BridgeStep == BridgeInv /\ [Next]_bridgeVars => BridgeInv'
<1> SUFFICES ASSUME BridgeInv, [Next]_bridgeVars
             PROVE  BridgeInv'
  OBVIOUS
<1>0. /\ \A t \in Transfers :
           at[t] \in {"new", "checked", "sealing", "burnt", "proved", "done", "failed"}
      /\ made \in 0 .. MaxMade /\ taken \subseteq Transfers
  BY DEF BridgeInv, BridgeTypeOK
<1>1. ASSUME NEW j \in Jobs, Attest(j)
      PROVE  BridgeInv'
  <2> DEFINE pcs == [c \in BOOLEAN |-> "failed"]
  <2>1. /\ Persist(j, pcs) /\ j \in Blocks /\ j \notin Transfers /\ j \notin open \cup final
        /\ open = {} /\ UNCHANGED <<votes, minted, made, taken, cosigned, cleared>>
    BY <1>1, JobsAssumption DEF Attest, Blocks
  <2> HIDE DEF pcs
  <2> QED
    BY <2>1, PersistOK
<1>2. ASSUME NEW b \in Blocks, NEW quorum \in BOOLEAN, approve_block(b, quorum)
      PROVE  BridgeInv'
  <2>1. /\ b \in open /\ votes' = votes \cup {<<b, quorum>>}
        /\ quorum /\ b \in Transfers => net >= Amounts[b]
        /\ UNCHANGED <<net, open, final, at, minted, made, taken, cosigned, cleared>>
    BY <1>2 DEF approve_block, Applies, BRIDGE_BURN
  <2>2. BridgeTypeOK'
    BY <2>1 DEF BridgeInv, BridgeTypeOK
  <2>3. BurnsAreSettled'
    <3>1. b \notin final
      BY <2>1 DEF BridgeInv, BurnsAreSettled
    <3> QED
      BY <2>1, <3>1 DEF BridgeInv, BurnsAreSettled
  <2>4. ReplaysStand'
    BY <2>1 DEF BridgeInv, ReplaysStand
  <2> QED
    BY <2>2, <2>3, <2>4 DEF BridgeInv
<1>3. ASSUME NEW b \in Blocks, NEW quorum \in BOOLEAN, update_block_approvals(b, quorum)
      PROVE  BridgeInv'
  BY <1>3, ApprovalOK
<1>4. CASE Reconfigure
  BY <1>4 DEF Reconfigure, BridgeInv, BridgeTypeOK, BurnsAreSettled, ReplaysStand
<1>5. CASE SubmittedMint
  <2>1. /\ made' \in 0 .. MaxMade /\ taken' \subseteq Transfers
        /\ UNCHANGED <<net, open, final, votes, at, minted, cosigned, cleared>>
    BY <1>0, <1>5, JobsAssumption DEF SubmittedMint
  <2> QED
    BY <2>1 DEF BridgeInv, BridgeTypeOK, BurnsAreSettled, ReplaysStand
<1>6. ASSUME NEW t \in Transfers, get_balance(t)
      PROVE  BridgeInv'
  BY <1>0, <1>6, GoOK DEF get_balance
<1>7. ASSUME NEW t \in Transfers, SubmitBurn(t)
      PROVE  BridgeInv'
  <2>1. CASE open = {} /\ BRIDGE_BURN(t)
    BY <1>0, <1>7, <2>1, GoOK DEF SubmitBurn, BRIDGE_BURN
  <2>2. CASE ~(open = {} /\ BRIDGE_BURN(t))
    BY <1>0, <1>7, <2>2, GoOK DEF SubmitBurn
  <2> QED
    BY <2>1, <2>2
<1>8. ASSUME NEW t \in Transfers, CommitBurn(t)
      PROVE  BridgeInv'
  <2> DEFINE pcs == [c \in BOOLEAN |-> IF c THEN "burnt" ELSE "failed"]
  <2>1. /\ Persist(t, pcs) /\ t \in Blocks /\ at[t] = "sealing"
        /\ pcs[TRUE] = "burnt" /\ pcs[FALSE] = "failed"
        /\ UNCHANGED <<votes, minted, made, taken, cosigned, cleared>>
    BY <1>8 DEF CommitBurn, Blocks
  <2>2. t \notin open \cup final /\ (cleared \/ open = {})
    BY <2>1 DEF BridgeInv, BurnsAreSettled, ReplaysStand
  <2> HIDE DEF pcs
  <2> QED
    BY <2>1, <2>2, PersistOK
<1>9. ASSUME NEW t \in Transfers, list_sealed_receipts(t)
      PROVE  BridgeInv'
  BY <1>0, <1>9, GoOK DEF list_sealed_receipts
<1>10. ASSUME NEW t \in Transfers, SubmitMint(t)
      PROVE  BridgeInv'
  BY <1>0, <1>10, GoOK DEF SubmitMint
<1>11. ASSUME NEW t \in Transfers, Crash(t)
      PROVE  BridgeInv'
  BY <1>0, <1>11, GoOK DEF Crash
<1>12. CASE UNCHANGED bridgeVars
  BY <1>12 DEF bridgeVars, BridgeInv, BridgeTypeOK, BurnsAreSettled, ReplaysStand
<1> QED
  BY <1>1, <1>2, <1>3, <1>4, <1>5, <1>6, <1>7, <1>8, <1>9, <1>10, <1>11, <1>12 DEF Next

-----------------------------------------------------------------------------
(* The refinement: a burn departs when its block is finalized and returns  *)
(* when a late approval clears it, a sealed mint is an arrival, and every  *)
(* other step of a transfer changes nothing that the account's owner can   *)
(* see.                                                                    *)

LEMMA DepartStep ==
  ASSUME BridgeInv, NEW t \in Transfers, t \notin final, cleared \/ net >= Amounts[t],
         net' = net + Worth(t), final' = final \cup {t}, UNCHANGED <<minted, made, cleared>>
  PROVE  Flow!Next
<1>1. (final \cap Transfers)' = (final \cap Transfers) \cup {t}
  OBVIOUS
<1>2. net' = net - Amounts[t]
  BY WorthType DEF BridgeInv, BridgeTypeOK
<1>3. Flow!Depart(t)
  BY <1>1, <1>2 DEF Flow!Depart
<1> QED
  BY <1>3 DEF Flow!Next

LEMMA WorkStep ==
  ASSUME BridgeInv, NEW j \in Jobs, net' = net + Worth(j), final' = final \cup {j},
         UNCHANGED <<minted, made, cleared>>
  PROVE  Flow!Next
<1>1. (final \cap Transfers)' = final \cap Transfers
  BY JobsAssumption
<1>2. net' \in Int
  BY WorthType DEF BridgeInv, BridgeTypeOK, Blocks
<1> QED
  BY <1>1, <1>2 DEF Flow!Next, Flow!Work

(* A block has lost its finality: a job is taken back, or a burn that was  *)
(* not minted returns.                                                     *)
LEMMA ReturnStep ==
  ASSUME BridgeInv, NEW b \in final, <<b, FALSE>> \in votes,
         net' = net - Worth(b), final' = final \ {b}, cleared' = TRUE, UNCHANGED <<minted, made>>
  PROVE  Flow!Next
<1>1. b \in Blocks
  BY DEF BridgeInv, BridgeTypeOK
<1>2. CASE b \in Transfers
  <2>1. b \notin minted
    BY <1>2 DEF BridgeInv, BurnsAreSettled
  <2>2. (final \cap Transfers)' = (final \cap Transfers) \ {b}
    OBVIOUS
  <2>3. net' = net + Amounts[b]
    BY <1>2, WorthType DEF BridgeInv, BridgeTypeOK
  <2>4. Flow!Return(b)
    BY <1>2, <2>1, <2>2, <2>3 DEF Flow!Return
  <2> QED
    BY <1>2, <2>4 DEF Flow!Next
<1>3. CASE b \notin Transfers
  <2>1. (final \cap Transfers)' = final \cap Transfers
    BY <1>3
  <2>2. net' \in Int
    BY <1>1, WorthType DEF BridgeInv, BridgeTypeOK
  <2> QED
    BY <2>1, <2>2 DEF Flow!Next, Flow!TakeBack
<1> QED
  BY <1>2, <1>3

LEMMA FlowStutter ==
  ASSUME UNCHANGED <<net, final, minted, made, cleared>>
  PROVE  UNCHANGED Flow!flowVars
BY DEF Flow!flowVars

LEMMA FlowStep == BridgeInv /\ [Next]_bridgeVars => [Flow!Next]_Flow!flowVars
<1> SUFFICES ASSUME BridgeInv, [Next]_bridgeVars
             PROVE  [Flow!Next]_Flow!flowVars
  OBVIOUS
<1>1. ASSUME NEW j \in Jobs, Attest(j)
      PROVE  [Flow!Next]_Flow!flowVars
  <2>1. CASE cosigned
    BY <1>1, <2>1, WorkStep DEF Attest, Persist
  <2>2. CASE ~cosigned
    BY <1>1, <2>2, FlowStutter DEF Attest, Persist
  <2> QED
    BY <2>1, <2>2
<1>2. ASSUME NEW b \in Blocks, NEW quorum \in BOOLEAN, update_block_approvals(b, quorum)
      PROVE  [Flow!Next]_Flow!flowVars
  <2>1. b \in open \cup final /\ <<b, quorum>> \in votes /\ UNCHANGED <<minted, made>>
    BY <1>2 DEF update_block_approvals, BridgeInv, BurnsAreSettled
  <2>2. CASE quorum /\ b \in final
    BY <1>2, <2>1, <2>2, FlowStutter DEF update_block_approvals
  <2>3. CASE quorum /\ b \notin final /\ b \in Transfers
    <3>1. cleared \/ net >= Amounts[b]
      <4>1. <<b, TRUE>> \in votes /\ b \in open \cap Transfers
        BY <2>1, <2>3
      <4> QED
        BY <4>1 DEF BridgeInv, ReplaysStand
    <3> QED
      BY <1>2, <2>1, <2>3, <3>1, DepartStep DEF update_block_approvals
  <2>4. CASE quorum /\ b \notin final /\ b \notin Transfers
    BY <1>2, <2>1, <2>4, WorkStep DEF update_block_approvals, Blocks
  <2>5. CASE ~quorum /\ b \in final
    <3>1. <<b, FALSE>> \in votes
      BY <2>1, <2>5
    <3>2. cleared' = TRUE /\ net' = net - Worth(b) /\ final' = final \ {b}
      BY <1>2, <2>5 DEF update_block_approvals
    <3> QED
      BY <2>1, <2>5, <3>1, <3>2, ReturnStep
  <2>6. CASE ~quorum /\ b \notin final
    <3>1. final' = final /\ net' = net /\ cleared' = (cleared \/ FALSE)
      BY <1>2, <2>6 DEF update_block_approvals
    <3>2. cleared' = cleared
      BY <3>1 DEF BridgeInv, BridgeTypeOK
    <3> QED
      BY <2>1, <3>1, <3>2, FlowStutter
  <2> QED
    BY <2>2, <2>3, <2>4, <2>5, <2>6
<1>3. ASSUME NEW t \in Transfers, CommitBurn(t)
      PROVE  [Flow!Next]_Flow!flowVars
  <2>1. t \notin final /\ (cleared \/ net >= Amounts[t])
    BY <1>3 DEF CommitBurn, BridgeInv, BurnsAreSettled, ReplaysStand
  <2>2. CASE cosigned
    BY <1>3, <2>1, <2>2, DepartStep DEF CommitBurn, Persist
  <2>3. CASE ~cosigned
    BY <1>3, <2>3, FlowStutter DEF CommitBurn, Persist
  <2> QED
    BY <2>2, <2>3
<1>4. ASSUME NEW t \in Transfers, SubmitMint(t)
      PROVE  [Flow!Next]_Flow!flowVars
  <2>1. CASE minted' = minted
    BY <1>4, <2>1, FlowStutter DEF SubmitMint
  <2>2. CASE minted' = minted \cup {t}
    <3>1. t \in (final \cap Transfers) \ minted
      BY <1>4 DEF SubmitMint, BridgeInv, BurnsAreSettled
    <3>2. Flow!Arrive(t)
      BY <1>4, <2>2, <3>1 DEF SubmitMint, Flow!Arrive
    <3> QED
      BY <3>2 DEF Flow!Next
  <2> QED
    BY <1>4, <2>1, <2>2 DEF SubmitMint
<1>5. CASE SubmittedMint
  <2>1. Flow!Make
    BY <1>5 DEF SubmittedMint, Flow!Make
  <2> QED
    BY <2>1 DEF Flow!Next
<1>6. CASE Reconfigure
  BY <1>6, FlowStutter DEF Reconfigure
<1>7. ASSUME NEW b \in Blocks, NEW quorum \in BOOLEAN, approve_block(b, quorum)
      PROVE  [Flow!Next]_Flow!flowVars
  BY <1>7, FlowStutter DEF approve_block
<1>8. ASSUME NEW t \in Transfers,
             get_balance(t) \/ SubmitBurn(t) \/ list_sealed_receipts(t) \/ Crash(t)
      PROVE  [Flow!Next]_Flow!flowVars
  BY <1>8, FlowStutter DEF get_balance, SubmitBurn, list_sealed_receipts, Crash
<1>9. CASE UNCHANGED bridgeVars
  BY <1>9, FlowStutter DEF bridgeVars
<1> QED
  BY <1>1, <1>2, <1>3, <1>4, <1>5, <1>6, <1>7, <1>8, <1>9 DEF Next

LEMMA FlowInit == Init => Flow!Init
BY DEF Init, Flow!Init

(* The invariant of the bridge holds throughout: a transfer is minted only *)
(* while its burn is finalized and no approval on its way can clear it,    *)
(* whatever overlaps between the balance check, the burn, the approvals    *)
(* and the mint of BridgeService.transfer, and wherever it dies.           *)
THEOREM BridgeInvariant == Spec => []BridgeInv
BY BridgeInitInv, BridgeStep, PTL DEF Spec

(* BridgeService.transfer implements CreditFlow for any transfers, amounts *)
(* and other blocks of the account: a burn takes effect on an account that *)
(* holds its credits, unless a block had lost its finality; the transfer's *)
(* own mint happens at most once and while the burn stands, and a burn     *)
(* that a late approval clears was not minted and is not afterwards.       *)
(* Mints that clients submit are outside of it, and only counted.          *)
THEOREM BridgeImplementsFlow == Spec => FlowSpec
<1>1. Init => Flow!Init
  BY FlowInit
<1>2. BridgeInv /\ [Next]_bridgeVars => [Flow!Next]_Flow!flowVars
  BY FlowStep
<1> QED
  BY <1>1, <1>2, BridgeInvariant, PTL DEF Spec, FlowSpec, Flow!Spec

-----------------------------------------------------------------------------
(* Namespaces, for any users, names and overlapping requests.              *)

AdminOf(id, u) == \E x \in members : x.space = id /\ x.user = u /\ x.role \in N!AdminRoles

SpaceRequests ==
  {N!Idle} \cup [op : {"create"}, user : N!Callers, name : Names]
           \cup [op : {"delete"}, space : N!Ids]
           \cup [op : {"member"}, row : N!MemberRow]
           \cup [op : {"team"}, row : N!TeamRow]
           \cup [op : {"sheet"}, row : N!SheetRow]

SpaceTypes ==
  /\ spaces \subseteq N!SpaceRow /\ members \subseteq N!MemberRow /\ teams \subseteq N!TeamRow
  /\ sheets \subseteq N!SheetRow /\ created \in 0 .. MaxSpaces
  /\ request \in [Requests -> SpaceRequests]

(* An id is given once and never again.                                    *)
IdsAreFresh ==
  /\ \A s \in spaces : s.id <= created
  /\ \A s, t \in spaces : s.id = t.id => s = t
  /\ \A q \in Requests :
       request[q].op \in {"member", "team", "sheet"} => request[q].row.space <= created

(* Who was allowed to add a row still administers the namespace, if there  *)
(* still is one.                                                           *)
AllowedByAdmins ==
  \A q \in Requests :
    request[q].op \in {"member", "team"} /\ N!Exists(request[q].row.space) =>
      AdminOf(request[q].row.space, request[q].row.by)

SpaceInv ==
  /\ SpaceTypes /\ IdsAreFresh /\ AllowedByAdmins
  /\ N!OwnerAdministers /\ N!RowsHaveTheirSpace /\ N!GrownByItsAdmins

LEMMA SpaceInit == N!Init => SpaceInv
<1> SUFFICES ASSUME N!Init PROVE SpaceInv
  OBVIOUS
<1>1. N!Idle \in SpaceRequests /\ N!Idle.op = "idle"
  BY DEF SpaceRequests, N!Idle
<1>2. SpaceTypes
  BY <1>1, SpacesAssumption DEF N!Init, SpaceTypes
<1>3. IdsAreFresh /\ AllowedByAdmins
  BY <1>1 DEF N!Init, IdsAreFresh, AllowedByAdmins
<1> QED
  BY <1>2, <1>3 DEF SpaceInv, N!Init, N!OwnerAdministers, N!RowsHaveTheirSpace, N!GrownByItsAdmins

(* What a request holds, by its kind.                                      *)
LEMMA RequestFields ==
  ASSUME NEW r \in SpaceRequests
  PROVE  /\ r.op \in {"idle", "create", "delete", "member", "team", "sheet"}
         /\ r.op = "create" => r.user \in N!Callers /\ r.name \in Names
         /\ r.op = "delete" => r.space \in N!Ids
         /\ r.op = "member" => r.row \in N!MemberRow
         /\ r.op = "team" => r.row \in N!TeamRow
         /\ r.op = "sheet" => r.row \in N!SheetRow
BY DEF SpaceRequests, N!Idle

(* A request that is allowed: the tables stay, and what it holds is typed  *)
(* and allowed.                                                            *)
LEMMA AllowOK ==
  ASSUME SpaceInv, NEW q \in Requests, NEW r \in SpaceRequests, N!Allow(q, r),
         r.op \in {"member", "team", "sheet"} => r.row.space <= created,
         r.op \in {"member", "team"} => AdminOf(r.row.space, r.row.by)
  PROVE  SpaceInv'
<1>1. /\ request' = [request EXCEPT ![q] = r]
      /\ spaces' = spaces /\ members' = members /\ teams' = teams /\ sheets' = sheets
      /\ created' = created
  BY DEF N!Allow
<1>2. SpaceTypes'
  BY <1>1 DEF SpaceInv, SpaceTypes
<1>3. \A p \in Requests : request'[p] = IF p = q THEN r ELSE request[p]
  BY <1>1 DEF SpaceInv, SpaceTypes
<1>4. IdsAreFresh'
  BY <1>1, <1>3 DEF SpaceInv, IdsAreFresh
<1>5. AllowedByAdmins'
  BY <1>1, <1>3 DEF SpaceInv, AllowedByAdmins, AdminOf, N!Exists
<1>6. (N!OwnerAdministers /\ N!RowsHaveTheirSpace /\ N!GrownByItsAdmins)'
  BY <1>1 DEF SpaceInv, N!OwnerAdministers, N!RowsHaveTheirSpace, N!GrownByItsAdmins,
              N!check_namespace_admin, N!Exists
<1> QED
  BY <1>2, <1>4, <1>5, <1>6 DEF SpaceInv

LEMMA SpaceChecks ==
  ASSUME SpaceInv, NEW q \in Requests,
         \/ \E u \in N!Callers, name \in Names : N!create_namespace(q, u, name)
         \/ \E u \in Users : N!delete_namespace(q, u)
         \/ \E by, u \in Users, role \in Roles : N!add_namespace_member(q, by, u, role)
         \/ \E by \in Users, name \in TeamNames : N!create_team(q, by, name)
         \/ \E kind \in Sheets : N!get_or_create(q, kind)
  PROVE  SpaceInv'
<1>1. \A s \in spaces : s.id \in N!Ids /\ s.id <= created
  BY DEF SpaceInv, SpaceTypes, IdsAreFresh, N!SpaceRow
<1>2. \A id, u : N!check_namespace_admin(id, u) => AdminOf(id, u)
  BY DEF N!check_namespace_admin, AdminOf
<1>3. ASSUME NEW u \in N!Callers, NEW name \in Names, N!create_namespace(q, u, name)
      PROVE  SpaceInv'
  <2> DEFINE r == [op |-> "create", user |-> u, name |-> name]
  <2>1. r \in SpaceRequests /\ r.op = "create"
    BY DEF SpaceRequests
  <2>2. N!Allow(q, r)
    BY <1>3 DEF N!create_namespace
  <2> HIDE DEF r
  <2> QED
    BY <2>1, <2>2, AllowOK
<1>4. ASSUME NEW u \in Users, N!delete_namespace(q, u)
      PROVE  SpaceInv'
  <2>1. PICK s \in spaces : N!Allow(q, [op |-> "delete", space |-> s.id])
    BY <1>4 DEF N!delete_namespace
  <2> DEFINE r == [op |-> "delete", space |-> s.id]
  <2>2. r \in SpaceRequests /\ r.op = "delete"
    BY <1>1 DEF SpaceRequests
  <2>3. N!Allow(q, r)
    BY <2>1
  <2> HIDE DEF r
  <2> QED
    BY <2>2, <2>3, AllowOK
<1>5. ASSUME NEW by \in Users, NEW u \in Users, NEW role \in Roles,
             N!add_namespace_member(q, by, u, role)
      PROVE  SpaceInv'
  <2>1. PICK s \in spaces :
          /\ N!check_namespace_admin(s.id, by)
          /\ N!Allow(q, [op |-> "member",
                         row |-> [space |-> s.id, user |-> u, role |-> role, by |-> by]])
    BY <1>5 DEF N!add_namespace_member
  <2> DEFINE x == [space |-> s.id, user |-> u, role |-> role, by |-> by]
             r == [op |-> "member", row |-> x]
  <2>2. x \in N!MemberRow /\ x.space = s.id /\ x.by = by
    BY <1>1 DEF N!MemberRow
  <2>3. N!Allow(q, r)
    BY <2>1
  <2> HIDE DEF x
  <2>4. r \in SpaceRequests /\ r.op = "member" /\ r.row = x
    BY <2>2 DEF SpaceRequests
  <2> HIDE DEF r
  <2> QED
    BY <1>1, <1>2, <2>1, <2>2, <2>3, <2>4, AllowOK
<1>6. ASSUME NEW by \in Users, NEW name \in TeamNames, N!create_team(q, by, name)
      PROVE  SpaceInv'
  <2>1. PICK s \in spaces :
          /\ N!check_namespace_admin(s.id, by)
          /\ N!Allow(q, [op |-> "team", row |-> [space |-> s.id, name |-> name, by |-> by]])
    BY <1>6 DEF N!create_team
  <2> DEFINE x == [space |-> s.id, name |-> name, by |-> by]
             r == [op |-> "team", row |-> x]
  <2>2. x \in N!TeamRow /\ x.space = s.id /\ x.by = by
    BY <1>1 DEF N!TeamRow
  <2>3. N!Allow(q, r)
    BY <2>1
  <2> HIDE DEF x
  <2>4. r \in SpaceRequests /\ r.op = "team" /\ r.row = x
    BY <2>2 DEF SpaceRequests
  <2> HIDE DEF r
  <2> QED
    BY <1>1, <1>2, <2>1, <2>2, <2>3, <2>4, AllowOK
<1>7. ASSUME NEW kind \in Sheets, N!get_or_create(q, kind)
      PROVE  SpaceInv'
  <2>1. PICK s \in spaces :
          N!Allow(q, [op |-> "sheet", row |-> [kind |-> kind, space |-> s.id]])
    BY <1>7 DEF N!get_or_create
  <2> DEFINE x == [kind |-> kind, space |-> s.id]
             r == [op |-> "sheet", row |-> x]
  <2>2. x \in N!SheetRow /\ x.space = s.id
    BY <1>1 DEF N!SheetRow
  <2>3. N!Allow(q, r)
    BY <2>1
  <2> HIDE DEF x
  <2>4. r \in SpaceRequests /\ r.op = "sheet" /\ r.row = x
    BY <2>2 DEF SpaceRequests
  <2> HIDE DEF r
  <2> QED
    BY <1>1, <2>2, <2>3, <2>4, AllowOK
<1> QED
  BY <1>3, <1>4, <1>5, <1>6, <1>7

(* A request that ends holds nothing.                                      *)
LEMMA RequestEnds ==
  ASSUME SpaceInv, NEW q \in Requests, N!Done(q)
  PROVE  /\ request' \in [Requests -> SpaceRequests]
         /\ \A p \in Requests : request'[p].op # "idle" => request'[p] = request[p]
<1>1. N!Idle \in SpaceRequests /\ N!Idle.op = "idle"
  BY DEF SpaceRequests, N!Idle
<1> QED
  BY <1>1 DEF N!Done, SpaceInv, SpaceTypes

LEMMA CommitCreate ==
  ASSUME SpaceInv, NEW q \in Requests, N!commit_create(q)
  PROVE  SpaceInv'
<1> DEFINE r == request[q]
<1>1. /\ request' \in [Requests -> SpaceRequests]
      /\ \A p \in Requests : request'[p].op # "idle" => request'[p] = request[p]
  BY RequestEnds DEF N!commit_create
<1>2. r \in SpaceRequests /\ r.op = "create"
  BY DEF SpaceInv, SpaceTypes, N!commit_create
<1>3. r.user \in N!Callers /\ r.name \in Names
  BY <1>2, RequestFields
<1>4. /\ spaces \subseteq N!SpaceRow /\ members \subseteq N!MemberRow /\ teams \subseteq N!TeamRow
      /\ sheets \subseteq N!SheetRow /\ created \in 0 .. MaxSpaces
      /\ \A s \in spaces : s.id <= created /\ s.id \in Nat
      /\ \A x \in members \cup teams \cup sheets : x.space \in Nat
  BY SpacesAssumption DEF SpaceInv, SpaceTypes, IdsAreFresh, N!SpaceRow, N!MemberRow, N!TeamRow,
                          N!SheetRow, N!Ids
<1>5. CASE UNCHANGED <<spaces, members, teams, sheets, created>>
  <2>1. SpaceTypes' /\ IdsAreFresh' /\ AllowedByAdmins'
    BY <1>1, <1>5 DEF SpaceInv, SpaceTypes, IdsAreFresh, AllowedByAdmins, AdminOf, N!Exists
  <2>2. (N!OwnerAdministers /\ N!RowsHaveTheirSpace /\ N!GrownByItsAdmins)'
    BY <1>5 DEF SpaceInv, N!OwnerAdministers, N!RowsHaveTheirSpace, N!GrownByItsAdmins,
                N!check_namespace_admin, N!Exists
  <2> QED
    BY <2>1, <2>2 DEF SpaceInv
<1>6. CASE created < MaxSpaces /\ created' = created + 1
  <2> DEFINE n == created + 1
             s == [id |-> n, name |-> r.name, owner |-> r.user]
             x == [space |-> n, user |-> r.user, role |-> "owner", by |-> r.user]
  <2>1. /\ spaces' = spaces \cup {s} /\ teams' = teams /\ sheets' = sheets
        /\ members' = IF r.user = Anonymous THEN members ELSE members \cup {x}
    BY <1>4, <1>6 DEF N!commit_create, N!RolledBack
  <2>2. s \in N!SpaceRow /\ s.id = n /\ s.owner = r.user
    BY <1>3, <1>4, <1>6, SpacesAssumption DEF N!SpaceRow, N!Ids
  <2>3. r.user # Anonymous => x \in N!MemberRow
    BY <1>3, <1>4, <1>6, SpacesAssumption DEF N!MemberRow, N!Ids, N!Callers
  <2>4. x.space = n /\ x.user = r.user /\ x.by = r.user /\ x.role \in N!AdminRoles
    BY DEF N!AdminRoles
  <2> HIDE DEF s, x, r
  <2>5. SpaceTypes'
    BY <1>1, <1>4, <1>6, <2>1, <2>2, <2>3, SpacesAssumption DEF SpaceTypes
  <2>6. members \subseteq members' /\ spaces \subseteq spaces'
    BY <2>1
  <2>7. IdsAreFresh'
    <3>1. \A t \in spaces' : t.id <= created'
      BY <1>4, <1>6, <2>1, <2>2
    <3>2. \A t, v \in spaces' : t.id = v.id => t = v
      BY <1>4, <2>1, <2>2 DEF SpaceInv, IdsAreFresh
    <3>3. ASSUME NEW p \in Requests, request'[p].op \in {"member", "team", "sheet"}
          PROVE  request'[p].row.space <= created'
      <4>1. request'[p] = request[p] /\ request[p].row.space <= created
        BY <1>1, <3>3 DEF SpaceInv, IdsAreFresh
      <4>2. request[p].row.space \in Nat
        <5>1. request[p] \in SpaceRequests
          BY DEF SpaceInv, SpaceTypes
        <5> QED
          BY <3>3, <4>1, <5>1, RequestFields, SpacesAssumption
             DEF N!MemberRow, N!TeamRow, N!SheetRow, N!Ids
      <4> QED
        BY <1>4, <1>6, <4>1, <4>2
    <3> QED
      BY <3>1, <3>2, <3>3 DEF IdsAreFresh
  <2>8. AllowedByAdmins'
    <3> SUFFICES ASSUME NEW p \in Requests, request'[p].op \in {"member", "team"},
                        NEW v \in spaces', v.id = request'[p].row.space
                 PROVE  \E y \in members' : /\ y.space = request'[p].row.space
                                            /\ y.user = request'[p].row.by
                                            /\ y.role \in N!AdminRoles
      BY DEF AllowedByAdmins, AdminOf, N!Exists
    <3>1. request'[p] = request[p] /\ request[p].row.space <= created
      BY <1>1 DEF SpaceInv, IdsAreFresh
    <3>2. request[p] \in SpaceRequests
      BY DEF SpaceInv, SpaceTypes
    <3>3. request[p].row.space \in Nat
      BY <3>1, <3>2, RequestFields, SpacesAssumption DEF N!MemberRow, N!TeamRow, N!Ids
    <3>4. v.id # n
      BY <1>4, <3>1, <3>3
    <3>5. v \in spaces
      BY <2>1, <2>2, <3>4
    <3>6. AdminOf(request[p].row.space, request[p].row.by)
      BY <3>1, <3>5 DEF SpaceInv, AllowedByAdmins, N!Exists
    <3> QED
      BY <2>6, <3>1, <3>6 DEF AdminOf
  <2>9. N!OwnerAdministers'
    <3> SUFFICES ASSUME NEW t \in spaces', t.owner # Anonymous
                 PROVE  /\ \E v \in spaces' : v.id = t.id
                        /\ \E y \in members' : y.space = t.id /\ y.user = t.owner /\ y.role \in N!AdminRoles
      BY DEF N!OwnerAdministers, N!check_namespace_admin, N!Exists
    <3>1. CASE t = s
      BY <2>1, <2>2, <2>4, <3>1
    <3>2. CASE t \in spaces
      BY <2>6, <3>2 DEF SpaceInv, N!OwnerAdministers, N!check_namespace_admin
    <3> QED
      BY <2>1, <3>1, <3>2
  <2>10. N!RowsHaveTheirSpace'
    <3> SUFFICES ASSUME NEW y \in members' \cup teams' \cup sheets'
                 PROVE  \E v \in spaces' : v.id = y.space
      BY DEF N!RowsHaveTheirSpace
    <3>1. CASE y = x
      BY <2>1, <2>2, <2>4, <3>1
    <3>2. CASE y \in members \cup teams \cup sheets
      BY <2>6, <3>2 DEF SpaceInv, N!RowsHaveTheirSpace
    <3> QED
      BY <2>1, <3>1, <3>2
  <2>11. N!GrownByItsAdmins'
    <3> SUFFICES ASSUME NEW y \in members' \cup teams'
                 PROVE  \E z \in members' : z.space = y.space /\ z.user = y.by /\ z.role \in N!AdminRoles
      BY DEF N!GrownByItsAdmins
    <3>1. CASE y = x /\ r.user # Anonymous
      BY <2>1, <2>4, <3>1
    <3>2. CASE y \in members \cup teams
      BY <2>6, <3>2 DEF SpaceInv, N!GrownByItsAdmins
    <3> QED
      BY <2>1, <3>1, <3>2
  <2> QED
    BY <2>5, <2>7, <2>8, <2>9, <2>10, <2>11 DEF SpaceInv
<1> QED
  BY <1>5, <1>6 DEF N!commit_create, N!RolledBack

(* Deleting a namespace takes its rows along and no other's.               *)
LEMMA CommitDelete ==
  ASSUME SpaceInv, NEW q \in Requests, N!commit_delete(q)
  PROVE  SpaceInv'
<1> DEFINE gone == request[q].space
<1>1. /\ request' \in [Requests -> SpaceRequests]
      /\ \A p \in Requests : request'[p].op # "idle" => request'[p] = request[p]
  BY RequestEnds DEF N!commit_delete
<1>2. /\ spaces' = {s \in spaces : s.id # gone} /\ members' = {x \in members : x.space # gone}
      /\ teams' = {x \in teams : x.space # gone} /\ sheets' = {x \in sheets : x.space # gone}
      /\ created' = created
  BY DEF N!commit_delete
<1> HIDE DEF gone
<1>3. SpaceTypes'
  BY <1>1, <1>2 DEF SpaceInv, SpaceTypes
<1>4. IdsAreFresh'
  BY <1>1, <1>2 DEF SpaceInv, IdsAreFresh
<1>5. AllowedByAdmins'
  <2> SUFFICES ASSUME NEW p \in Requests, request'[p].op \in {"member", "team"},
                      NEW v \in spaces', v.id = request'[p].row.space
               PROVE  \E y \in members' : /\ y.space = request'[p].row.space
                                          /\ y.user = request'[p].row.by
                                          /\ y.role \in N!AdminRoles
    BY DEF AllowedByAdmins, AdminOf, N!Exists
  <2>1. request'[p] = request[p] /\ v \in spaces /\ v.id # gone
    BY <1>1, <1>2
  <2>2. AdminOf(request[p].row.space, request[p].row.by)
    BY <2>1 DEF SpaceInv, AllowedByAdmins, N!Exists
  <2> QED
    BY <1>2, <2>1, <2>2 DEF AdminOf
<1>6. N!OwnerAdministers'
  <2> SUFFICES ASSUME NEW t \in spaces', t.owner # Anonymous
               PROVE  /\ \E v \in spaces' : v.id = t.id
                      /\ \E y \in members' : y.space = t.id /\ y.user = t.owner /\ y.role \in N!AdminRoles
    BY DEF N!OwnerAdministers, N!check_namespace_admin, N!Exists
  <2> QED
    BY <1>2 DEF SpaceInv, N!OwnerAdministers, N!check_namespace_admin
<1>7. N!RowsHaveTheirSpace'
  BY <1>2 DEF SpaceInv, N!RowsHaveTheirSpace
<1>8. N!GrownByItsAdmins'
  <2> SUFFICES ASSUME NEW y \in members' \cup teams'
               PROVE  \E z \in members' : z.space = y.space /\ z.user = y.by /\ z.role \in N!AdminRoles
    BY DEF N!GrownByItsAdmins
  <2> QED
    BY <1>2 DEF SpaceInv, N!GrownByItsAdmins
<1> QED
  BY <1>3, <1>4, <1>5, <1>6, <1>7, <1>8 DEF SpaceInv

(* A row is added only to a namespace that exists at the commit, and whose *)
(* id is thus the one the caller was checked against.                      *)
LEMMA CommitRow ==
  ASSUME SpaceInv, NEW q \in Requests, N!commit_row(q)
  PROVE  SpaceInv'
<1> DEFINE r == request[q]
<1>1. /\ request' \in [Requests -> SpaceRequests]
      /\ \A p \in Requests : request'[p].op # "idle" => request'[p] = request[p]
  BY RequestEnds DEF N!commit_row
<1>2. r \in SpaceRequests
  BY DEF SpaceInv, SpaceTypes
<1>3. /\ spaces' = spaces /\ created' = created
      /\ members' = members \/ (r.op = "member" /\ members' = members \cup {r.row} /\ N!Exists(r.row.space))
      /\ teams' = teams \/ (r.op = "team" /\ teams' = teams \cup {r.row} /\ N!Exists(r.row.space))
      /\ sheets' = sheets \/ (r.op = "sheet" /\ sheets' = sheets \cup {r.row} /\ N!Exists(r.row.space))
  BY DEF N!commit_row, N!RolledBack
<1>4. /\ r.op = "member" => r.row \in N!MemberRow
      /\ r.op = "team" => r.row \in N!TeamRow
      /\ r.op = "sheet" => r.row \in N!SheetRow
  BY <1>2, RequestFields
<1>5. r.op \in {"member", "team"} /\ N!Exists(r.row.space) => AdminOf(r.row.space, r.row.by)
  BY DEF SpaceInv, AllowedByAdmins
<1> HIDE DEF r
<1>6. SpaceTypes'
  BY <1>1, <1>3, <1>4 DEF SpaceInv, SpaceTypes
<1>7. IdsAreFresh'
  BY <1>1, <1>3 DEF SpaceInv, IdsAreFresh
<1>8. members \subseteq members'
  BY <1>3
<1>9. AllowedByAdmins'
  <2> SUFFICES ASSUME NEW p \in Requests, request'[p].op \in {"member", "team"},
                      NEW v \in spaces', v.id = request'[p].row.space
               PROVE  \E y \in members' : /\ y.space = request'[p].row.space
                                          /\ y.user = request'[p].row.by
                                          /\ y.role \in N!AdminRoles
    BY DEF AllowedByAdmins, AdminOf, N!Exists
  <2>1. request'[p] = request[p] /\ v \in spaces
    BY <1>1, <1>3
  <2>2. AdminOf(request[p].row.space, request[p].row.by)
    BY <2>1 DEF SpaceInv, AllowedByAdmins, N!Exists
  <2> QED
    BY <1>8, <2>1, <2>2 DEF AdminOf
<1>10. N!OwnerAdministers'
  <2> SUFFICES ASSUME NEW t \in spaces', t.owner # Anonymous
               PROVE  /\ \E v \in spaces' : v.id = t.id
                      /\ \E y \in members' : y.space = t.id /\ y.user = t.owner /\ y.role \in N!AdminRoles
    BY DEF N!OwnerAdministers, N!check_namespace_admin, N!Exists
  <2> QED
    BY <1>3, <1>8 DEF SpaceInv, N!OwnerAdministers, N!check_namespace_admin
<1>11. N!RowsHaveTheirSpace'
  BY <1>3 DEF SpaceInv, N!RowsHaveTheirSpace, N!Exists
<1>12. N!GrownByItsAdmins'
  <2> SUFFICES ASSUME NEW y \in members' \cup teams'
               PROVE  \E z \in members' : z.space = y.space /\ z.user = y.by /\ z.role \in N!AdminRoles
    BY DEF N!GrownByItsAdmins
  <2>1. CASE y \in members \cup teams
    BY <1>8, <2>1 DEF SpaceInv, N!GrownByItsAdmins
  <2>2. CASE y \notin members \cup teams
    <3>1. y = r.row /\ AdminOf(r.row.space, r.row.by)
      BY <1>3, <1>5, <2>2
    <3> QED
      BY <1>8, <3>1 DEF AdminOf
  <2> QED
    BY <2>1, <2>2
<1> QED
  BY <1>6, <1>7, <1>9, <1>10, <1>11, <1>12 DEF SpaceInv

LEMMA SpaceUnchanged == SpaceInv /\ UNCHANGED spaceVars => SpaceInv'
<1> SUFFICES ASSUME SpaceInv, UNCHANGED spaceVars PROVE SpaceInv'
  OBVIOUS
<1>1. /\ spaces' = spaces /\ members' = members /\ teams' = teams /\ sheets' = sheets
      /\ request' = request /\ created' = created
  BY DEF spaceVars
<1>2. SpaceTypes' /\ IdsAreFresh' /\ AllowedByAdmins'
  BY <1>1 DEF SpaceInv, SpaceTypes, IdsAreFresh, AllowedByAdmins, AdminOf, N!Exists
<1>3. (N!OwnerAdministers /\ N!RowsHaveTheirSpace /\ N!GrownByItsAdmins)'
  BY <1>1 DEF SpaceInv, N!OwnerAdministers, N!RowsHaveTheirSpace, N!GrownByItsAdmins,
              N!check_namespace_admin, N!Exists
<1> QED
  BY <1>2, <1>3 DEF SpaceInv

LEMMA SpaceStep == SpaceInv /\ [N!Next]_spaceVars => SpaceInv'
<1> SUFFICES ASSUME SpaceInv, [N!Next]_spaceVars PROVE SpaceInv'
  OBVIOUS
<1>1. ASSUME NEW by \in Users, NEW u \in Users, N!remove_namespace_member(by, u) PROVE SpaceInv'
  BY <1>1, SpaceUnchanged DEF N!remove_namespace_member, N!spaceVars, spaceVars
<1>2. CASE UNCHANGED spaceVars
  BY <1>2, SpaceUnchanged
<1>3. ASSUME NEW q \in Requests, N!commit_create(q) \/ N!commit_delete(q) \/ N!commit_row(q)
      PROVE  SpaceInv'
  BY <1>3, CommitCreate, CommitDelete, CommitRow
<1> QED
  BY <1>1, <1>2, <1>3, SpaceChecks DEF N!Next

-----------------------------------------------------------------------------
(* Friendships, for any users and overlapping requests.                    *)

FriendRequests == {F!Idle} \cup [op : {"send", "accept", "block"}, d : F!Directions, by : Users]

FriendTypes ==
  /\ friend \in [F!Directions -> {"none", "pending", "accepted", "blocked"}]
  /\ friendReq \in [Requests -> FriendRequests]
  /\ consent \subseteq F!Directions /\ friendRaced \subseteq F!Directions

(* What a request read still holds when it writes: a row is never deleted, *)
(* and a row of the other direction appears only by a race.                *)
ReadStillHolds ==
  \A q \in Requests :
    /\ friendReq[q].op \in {"accept", "block"} => friend[friendReq[q].d] # "none"
    /\ friendReq[q].op = "accept" => friendReq[q].by = friendReq[q].d[2]
    /\ friendReq[q].op = "send" /\ friend[F!Back(friendReq[q].d)] # "none" =>
         friendReq[q].d \in friendRaced

FriendInv ==
  /\ FriendTypes /\ ReadStillHolds
  /\ \A d \in friendRaced : F!Back(d) \in friendRaced
  /\ F!MutualRowsOnlyByRace /\ F!FriendsConsented

LEMMA BackIsDirection ==
  ASSUME NEW d \in F!Directions
  PROVE  /\ F!Back(d) \in F!Directions /\ F!Back(F!Back(d)) = d /\ F!Back(d) # d
         /\ d[2] \in Users
BY DEF F!Directions, F!Back

LEMMA FriendFields ==
  ASSUME NEW r \in FriendRequests
  PROVE  /\ r.op \in {"none", "send", "accept", "block"}
         /\ r.op # "none" => r.d \in F!Directions /\ r.by \in Users
BY DEF FriendRequests, F!Idle

LEMMA IdleFriend == F!Idle \in FriendRequests /\ F!Idle.op = "none"
BY DEF FriendRequests, F!Idle

LEMMA FriendInit == F!Init => FriendInv
BY IdleFriend DEF F!Init, FriendInv, FriendTypes, ReadStillHolds, F!MutualRowsOnlyByRace, F!FriendsConsented

LEMMA FriendBegin ==
  ASSUME FriendInv, NEW q \in Requests, NEW op \in {"send", "accept", "block"},
         NEW d \in F!Directions, NEW u \in Users, F!Begin(q, op, d, u),
         op \in {"accept", "block"} => friend[d] # "none",
         op = "accept" => u = d[2],
         op = "send" => friend[F!Back(d)] = "none"
  PROVE  FriendInv'
<1> DEFINE r == [op |-> op, d |-> d, by |-> u]
<1>1. r \in FriendRequests /\ r.op = op /\ r.d = d /\ r.by = u
  BY DEF FriendRequests
<1>2. /\ friendReq' = [friendReq EXCEPT ![q] = r]
      /\ friend' = friend /\ consent' = consent /\ friendRaced' = friendRaced
  BY DEF F!Begin
<1> HIDE DEF r
<1>3. FriendTypes'
  BY <1>1, <1>2 DEF FriendInv, FriendTypes
<1>4. \A p \in Requests : friendReq'[p] = IF p = q THEN r ELSE friendReq[p]
  BY <1>2 DEF FriendInv, FriendTypes
<1>5. ReadStillHolds'
  BY <1>1, <1>2, <1>4 DEF FriendInv, ReadStillHolds
<1>6. (F!MutualRowsOnlyByRace /\ F!FriendsConsented)' /\ \A e \in friendRaced' : F!Back(e) \in friendRaced'
  BY <1>2 DEF FriendInv, F!MutualRowsOnlyByRace, F!FriendsConsented
<1> QED
  BY <1>3, <1>5, <1>6 DEF FriendInv

LEMMA FriendWrite ==
  ASSUME FriendInv, NEW q \in Requests, F!write(q)
  PROVE  FriendInv'
<1> DEFINE r == friendReq[q]
           d == r.d
           new == F!Status[r.op]
<1>1. r \in FriendRequests /\ r.op # "none"
  BY DEF FriendInv, FriendTypes, F!write
<1>2. r.op \in {"send", "accept", "block"} /\ d \in F!Directions /\ F!Back(d) \in F!Directions
  BY <1>1, FriendFields, BackIsDirection
<1>3. /\ r.op = "send" => new = "pending"
      /\ r.op = "accept" => new = "accepted"
      /\ r.op = "block" => new = "blocked"
  BY DEF F!Status
<1>4. /\ friendReq' = [friendReq EXCEPT ![q] = F!Idle]
      /\ friend' = IF r.op = "send" /\ friend[d] # "none" THEN friend ELSE [friend EXCEPT ![d] = new]
      /\ consent' = IF r.op = "accept" /\ r.by = d[2] THEN consent \cup {d} ELSE consent
      /\ friendRaced' = IF r.op = "send" /\ \E p \in Requests \ {q} :
                             friendReq[p].op = "send" /\ friendReq[p].d = F!Back(d)
                        THEN friendRaced \cup {d, F!Back(d)} ELSE friendRaced
  BY DEF F!write
<1>5. /\ r.op = "accept" => r.by = d[2]
      /\ r.op = "send" /\ friend[F!Back(d)] # "none" => d \in friendRaced
      /\ r.op \in {"accept", "block"} => friend[d] # "none"
  BY DEF FriendInv, ReadStillHolds
<1> HIDE DEF r, d, new
<1>6. FriendTypes'
  BY <1>2, <1>3, <1>4, IdleFriend DEF FriendInv, FriendTypes
<1>7. \A p \in Requests : friendReq'[p].op # "none" => p # q /\ friendReq'[p] = friendReq[p]
  BY <1>4, IdleFriend DEF FriendInv, FriendTypes
<1>8. \A e \in F!Directions :
        /\ e # d => friend'[e] = friend[e]
        /\ friend[e] # "none" => friend'[e] # "none"
  BY <1>2, <1>3, <1>4 DEF FriendInv, FriendTypes
<1>9. friendRaced \subseteq friendRaced'
  BY <1>4
<1>10. \A e \in friendRaced' : F!Back(e) \in friendRaced'
  BY <1>2, <1>4, BackIsDirection DEF FriendInv, FriendTypes
<1>11. ReadStillHolds'
  <2> SUFFICES ASSUME NEW p \in Requests, friendReq'[p].op # "none"
               PROVE  /\ friendReq'[p].op \in {"accept", "block"} => friend'[friendReq'[p].d] # "none"
                      /\ friendReq'[p].op = "accept" => friendReq'[p].by = friendReq'[p].d[2]
                      /\ friendReq'[p].op = "send" /\ friend'[F!Back(friendReq'[p].d)] # "none" =>
                           friendReq'[p].d \in friendRaced'
    BY DEF ReadStillHolds
  <2> DEFINE x == friendReq[p]
  <2>1. p # q /\ friendReq'[p] = x
    BY <1>7
  <2>2. x \in FriendRequests /\ x.op # "none"
    BY <2>1 DEF FriendInv, FriendTypes
  <2>3. x.d \in F!Directions /\ F!Back(x.d) \in F!Directions /\ F!Back(F!Back(x.d)) = x.d
    BY <2>2, FriendFields, BackIsDirection
  <2>4. /\ x.op \in {"accept", "block"} => friend[x.d] # "none"
        /\ x.op = "accept" => x.by = x.d[2]
        /\ x.op = "send" /\ friend[F!Back(x.d)] # "none" => x.d \in friendRaced
    BY DEF FriendInv, ReadStillHolds
  <2>5. ASSUME x.op = "send", friend'[F!Back(x.d)] # "none" PROVE x.d \in friendRaced'
    <3>1. CASE friend[F!Back(x.d)] # "none"
      BY <1>9, <2>4, <2>5, <3>1
    <3>2. CASE friend[F!Back(x.d)] = "none"
      <4>1. F!Back(x.d) = d
        BY <1>8, <2>3, <2>5, <3>2
      <4>2. x.d = F!Back(d)
        BY <2>3, <4>1
      <4>3. r.op = "send"
        BY <1>2, <1>5, <3>2, <4>1
      <4> QED
        BY <1>4, <2>1, <2>5, <4>2, <4>3
    <3> QED
      BY <3>1, <3>2
  <2> HIDE DEF x
  <2> QED
    BY <1>8, <2>1, <2>3, <2>4, <2>5
<1>12. F!MutualRowsOnlyByRace'
  <2> SUFFICES ASSUME NEW e \in F!Directions, friend'[e] # "none", friend'[F!Back(e)] # "none"
               PROVE  e \in friendRaced'
    BY DEF F!MutualRowsOnlyByRace
  <2>1. F!Back(e) \in F!Directions /\ F!Back(F!Back(e)) = e /\ F!Back(e) # e
    BY BackIsDirection
  <2>2. CASE friend[e] # "none" /\ friend[F!Back(e)] # "none"
    BY <1>9, <2>2 DEF FriendInv, F!MutualRowsOnlyByRace
  <2>3. CASE friend[e] = "none"
    <3>1. e = d /\ friend[F!Back(e)] # "none"
      BY <1>8, <2>1, <2>3
    <3> QED
      BY <1>2, <1>5, <1>9, <2>3, <3>1
  <2>4. CASE friend[F!Back(e)] = "none"
    <3>1. F!Back(e) = d /\ friend[e] # "none"
      BY <1>8, <2>1, <2>4
    <3>2. d \in friendRaced /\ F!Back(d) = e
      BY <1>2, <1>5, <2>1, <2>4, <3>1
    <3> QED
      BY <1>9, <3>2 DEF FriendInv
  <2> QED
    BY <2>2, <2>3, <2>4
<1>13. F!FriendsConsented'
  BY <1>2, <1>3, <1>4, <1>5, <1>8 DEF FriendInv, FriendTypes, F!FriendsConsented
<1> QED
  BY <1>6, <1>10, <1>11, <1>12, <1>13 DEF FriendInv

LEMMA FriendStep == FriendInv /\ [F!Next]_friendVars => FriendInv'
<1> SUFFICES ASSUME FriendInv, [F!Next]_friendVars PROVE FriendInv'
  OBVIOUS
<1>1. ASSUME NEW q \in Requests, NEW d \in F!Directions, F!send_friend_request(q, d)
      PROVE  FriendInv'
  <2>1. friend[F!Back(d)] = "none" /\ d[1] \in Users
    BY <1>1 DEF F!send_friend_request, F!check_friendship, F!Rows, F!Directions
  <2> QED
    BY <1>1, <2>1, FriendBegin DEF F!send_friend_request
<1>2. ASSUME NEW q \in Requests, NEW d \in F!Directions, NEW u \in Users,
             F!accept_friend(q, d, u) \/ F!block_friend(q, d, u)
      PROVE  FriendInv'
  BY <1>2, FriendBegin DEF F!accept_friend, F!block_friend, F!May_accept
<1>3. ASSUME NEW q \in Requests, F!write(q) PROVE FriendInv'
  BY <1>3, FriendWrite
<1>4. CASE UNCHANGED friendVars
  BY <1>4 DEF friendVars, FriendInv, FriendTypes, ReadStillHolds, F!MutualRowsOnlyByRace,
              F!FriendsConsented
<1> QED
  BY <1>1, <1>2, <1>3, <1>4 DEF F!Next

(* Who may do what to whom, for any users, names, roles and number of      *)
(* overlapping requests (routes/namespaces.py, routes/vpn.py): a namespace *)
(* is administered by its owner and grown by its administrators only, its  *)
(* rows live no longer than it, friends have consented, and a pair has two *)
(* rows only when both asked at once.                                      *)
THEOREM RelationsGranted == MCSpec => []RelationsAreGranted
<1> DEFINE allVars == <<part, ledgerVars, bridgeVars, merkleVars, spaceVars, friendVars, shareVars,
                        cloudVars>>
<1>1. MCInit => SpaceInv /\ FriendInv
  BY SpaceInit, FriendInit DEF MCInit
<1>2. [MCNext]_allVars => [N!Next]_spaceVars /\ [F!Next]_friendVars
  BY DEF MCNext
<1>3. SpaceInv /\ FriendInv => RelationsAreGranted
  <2>1. SpaceInv => N!TypeOK
    BY RequestFields DEF SpaceInv, SpaceTypes, N!TypeOK
  <2>2. FriendInv => F!TypeOK
    BY DEF FriendInv, FriendTypes, F!TypeOK
  <2> QED
    BY <2>1, <2>2 DEF SpaceInv, FriendInv, RelationsAreGranted
<1> QED
  BY <1>1, <1>2, <1>3, SpaceStep, FriendStep, PTL DEF MCSpec

-----------------------------------------------------------------------------
(* Fair share, for any number of overlapping transactions.                 *)

Buckets == [used : Nat, done : Nat, start : 0 .. MaxTicks, limit : Limits \cup {NoLimit},
            weight : NewWeights \cup {1}]
Transactions == [kind : {"none", "get", "put", "job", "refresh", "reset"}, read : Seq(Buckets),
                 limit : Limits \cup {NoLimit}, weight : NewWeights \cup {1}]

ShareTypes ==
  /\ buckets \in Seq(Buckets) /\ tx \in [Requests -> Transactions]
  /\ clock \in 0 .. MaxTicks /\ charged \in Nat /\ again \in Nat /\ seen \in BOOLEAN
  /\ raced \in BOOLEAN /\ early \in BOOLEAN

(* As long as nothing was committed on a stale read there is one bucket,   *)
(* whose count and period are the history's.                               *)
Unraced ==
  ~raced => /\ Len(buckets) <= 1 /\ ~early
            /\ Len(buckets) = 1 => buckets[1].done = charged + again /\ buckets[1].start = since

ShareInv == ShareTypes /\ Unraced

(* What the transaction makes of a bucket: a new period, or its charge.    *)
LEMMA ChangedBucket ==
  ASSUME NEW t \in Transactions, NEW b \in Buckets, clock \in 0 .. MaxTicks, NEW c, c = B!Changed(t, b)
  PROVE  /\ c \in Buckets
         /\ \/ /\ c.done = 0 /\ c.start = clock /\ clock > b.start + Period /\ B!Charges(t) = 0
               /\ c # [b EXCEPT !.weight = c.weight]
            \/ /\ c.done = b.done + B!Charges(t) /\ c.start = b.start
               /\ c.done = 0 => c = [b EXCEPT !.weight = c.weight]
<1> DEFINE fresh == [b EXCEPT !.used = 0, !.done = 0, !.start = clock]
           got == IF clock > b.start + Period THEN fresh ELSE b
           add(n) == [b EXCEPT !.used = @ + n, !.done = @ + n]
           weigh(x) == [x EXCEPT !.weight = t.weight]
<1>1. /\ b.used \in Nat /\ b.done \in Nat /\ b.start \in 0 .. MaxTicks
      /\ b.limit \in Limits \cup {NoLimit} /\ b.weight \in NewWeights \cup {1}
      /\ t.weight \in NewWeights \cup {1}
  BY DEF Buckets, Transactions
<1>2. /\ fresh \in Buckets /\ fresh.done = 0 /\ fresh.start = clock
      /\ fresh.weight = b.weight
  BY <1>1 DEF Buckets
<1>3. \A n \in Nat : /\ add(n) \in Buckets /\ add(n).done = b.done + n /\ add(n).start = b.start
                     /\ add(n).weight = b.weight
                     /\ add(n).done = 0 => add(n) = b
  <2> SUFFICES ASSUME NEW n \in Nat
               PROVE  /\ add(n) \in Buckets /\ add(n).done = b.done + n /\ add(n).start = b.start
                      /\ add(n).weight = b.weight
                      /\ add(n).done = 0 => add(n) = b
    OBVIOUS
  <2>1. /\ add(n).used = b.used + n /\ add(n).done = b.done + n /\ add(n).start = b.start
        /\ add(n).limit = b.limit /\ add(n).weight = b.weight
    BY DEF Buckets
  <2>2. add(n) \in Buckets
    <3>1. b.used + n \in Nat /\ b.done + n \in Nat
      BY <1>1
    <3> QED
      BY <3>1 DEF Buckets
  <2>3. ASSUME b.done + n = 0 PROVE add(n) = b
    <3>1. n = 0 /\ b.done = 0
      BY <1>1, <2>3
    <3>2. b.used + n = b.used
      BY <1>1, <3>1
    <3> QED
      BY <2>3, <3>1, <3>2 DEF Buckets
  <2> QED
    BY <2>1, <2>2, <2>3
<1>4. \A x \in Buckets : /\ weigh(x) \in Buckets /\ weigh(x).done = x.done /\ weigh(x).start = x.start
                         /\ weigh(x).weight = t.weight
  BY <1>1 DEF Buckets
<1>5. [b EXCEPT !.weight = b.weight] = b
  BY DEF Buckets
<1>6. \A w : [b EXCEPT !.weight = w].start = b.start
  BY DEF Buckets
<1>7. clock > b.start + Period => clock # b.start
  BY <1>1, SharesAssumption
<1>8. CASE t.kind = "put"
  <2>1. B!Charges(t) = 0
    BY <1>8 DEF B!Charges
  <2>2. CASE t.limit # NoLimit /\ clock > b.start + Period
    <3>1. c = weigh(fresh)
      BY <1>8, <2>2 DEF B!Changed, B!GetOrCreate, B!_is_period_expired, B!Reset
    <3>2. c \in Buckets /\ c.done = 0 /\ c.start = clock
      BY <1>2, <1>4, <3>1
    <3> HIDE DEF fresh, weigh
    <3> QED
      BY <1>6, <1>7, <2>1, <2>2, <3>2
  <2>3. CASE ~ (t.limit # NoLimit /\ clock > b.start + Period)
    <3>1. c = weigh(b)
      BY <1>8, <2>3 DEF B!Changed, B!GetOrCreate, B!_is_period_expired
    <3>2. c \in Buckets /\ c.done = b.done /\ c.start = b.start /\ c.weight = t.weight
      BY <1>4, <3>1
    <3>3. c = [b EXCEPT !.weight = c.weight]
      BY <3>1, <3>2
    <3> HIDE DEF weigh
    <3> QED
      BY <1>1, <2>1, <3>2, <3>3
  <2> QED
    BY <2>2, <2>3
<1>9. CASE t.kind \in {"job", "refresh"}
  <2>1. B!Charges(t) \in Nat /\ c = add(B!Charges(t))
    BY <1>9, SharesAssumption DEF B!Charges, B!Changed, B!record_gpu_usage
  <2> HIDE DEF add
  <2> QED
    BY <1>3, <1>5, <2>1
<1>10. CASE t.kind \notin {"put", "job", "refresh"}
  <2>1. B!Charges(t) = 0
    BY <1>10 DEF B!Charges
  <2>2. c = got
    BY <1>10 DEF B!Changed, B!GetOrCreate, B!_is_period_expired, B!Reset
  <2> HIDE DEF fresh
  <2>3. CASE clock > b.start + Period
    BY <1>2, <1>6, <1>7, <2>1, <2>2, <2>3
  <2>4. CASE ~ (clock > b.start + Period)
    BY <1>1, <1>5, <2>1, <2>2, <2>4
  <2> QED
    BY <2>3, <2>4
<1> QED
  BY <1>8, <1>9, <1>10

(* The columns an UPDATE writes keep a row a row; with nothing stale it is *)
(* what the transaction computed.                                          *)
LEMMA WrittenBucket ==
  ASSUME NEW old \in Buckets, NEW new \in Buckets, NEW row \in Buckets,
         NEW w, w = B!Written(old, new, row)
  PROVE  /\ w \in Buckets
         /\ row = old => w.done = new.done /\ w.start = new.start
<1>1. DOMAIN row = {"used", "done", "start", "limit", "weight"}
  BY DEF Buckets
<1>2. w = [f \in {"used", "done", "start", "limit", "weight"} |-> IF new[f] # old[f] THEN new[f] ELSE row[f]]
  BY <1>1 DEF B!Written
<1>3. /\ w.used = IF new.used # old.used THEN new.used ELSE row.used
      /\ w.done = IF new.done # old.done THEN new.done ELSE row.done
      /\ w.start = IF new.start # old.start THEN new.start ELSE row.start
      /\ w.limit = IF new.limit # old.limit THEN new.limit ELSE row.limit
      /\ w.weight = IF new.weight # old.weight THEN new.weight ELSE row.weight
  BY <1>2
<1>4. w = [used |-> w.used, done |-> w.done, start |-> w.start, limit |-> w.limit, weight |-> w.weight]
  BY <1>2
<1>5. w \in Buckets
  BY <1>3, <1>4 DEF Buckets
<1> QED
  BY <1>3, <1>5

LEMMA CreatedBuckets ==
  ASSUME NEW t \in Transactions, clock \in 0 .. MaxTicks
  PROVE  /\ B!Created(t) \in Seq(Buckets) /\ Len(B!Created(t)) <= 1
         /\ t.read # <<>> => B!Created(t) = <<>>
         /\ \A i \in 1 .. Len(B!Created(t)) : B!Created(t)[i].done = 0 /\ B!Created(t)[i].start = clock
<1>1. \A limit \in Limits \cup {NoLimit}, weight \in NewWeights \cup {1} :
        /\ B!Bucket(limit, weight) \in Buckets
        /\ B!Bucket(limit, weight).done = 0 /\ B!Bucket(limit, weight).start = clock
  BY DEF B!Bucket, Buckets
<1>2. t.limit \in Limits \cup {NoLimit} /\ t.weight \in NewWeights \cup {1}
  BY DEF Transactions
<1>3. \/ B!Created(t) = <<>>
      \/ t.read = <<>> /\ B!Created(t) = <<B!Bucket(t.limit, t.weight)>>
      \/ t.read = <<>> /\ B!Created(t) = <<B!Bucket(NoLimit, 1)>>
  BY DEF B!Created, B!NewBucket
<1>4. ASSUME NEW b \in Buckets, b.done = 0, b.start = clock, B!Created(t) = <<b>>
      PROVE  /\ B!Created(t) \in Seq(Buckets) /\ Len(B!Created(t)) <= 1
             /\ \A i \in 1 .. Len(B!Created(t)) : B!Created(t)[i].done = 0 /\ B!Created(t)[i].start = clock
  BY <1>4
<1>5. CASE B!Created(t) = <<>>
  BY <1>5
<1>6. CASE t.read = <<>> /\ B!Created(t) = <<B!Bucket(t.limit, t.weight)>>
  BY <1>1, <1>2, <1>4, <1>6
<1>7. CASE t.read = <<>> /\ B!Created(t) = <<B!Bucket(NoLimit, 1)>>
  BY <1>1, <1>4, <1>7
<1> QED
  BY <1>3, <1>5, <1>6, <1>7

LEMMA ShareInit == B!Init => ShareInv
<1> SUFFICES ASSUME B!Init PROVE ShareInv
  OBVIOUS
<1>1. B!Idle \in Transactions
  BY DEF B!Idle, Transactions
<1>2. buckets \in Seq(Buckets) /\ Len(buckets) = 0
  BY DEF B!Init
<1>3. tx \in [Requests -> Transactions]
  BY <1>1 DEF B!Init
<1>4. clock \in 0 .. MaxTicks /\ charged \in Nat /\ again \in Nat
  BY SharesAssumption DEF B!Init
<1>5. seen \in BOOLEAN /\ raced \in BOOLEAN /\ early \in BOOLEAN /\ ~early
  BY Zenon DEF B!Init
<1>6. ShareTypes
  BY <1>2, <1>3, <1>4, <1>5 DEF ShareTypes
<1>7. Unraced
  BY <1>2, <1>5 DEF Unraced
<1> QED
  BY <1>6, <1>7 DEF ShareInv

LEMMA ShareBegin ==
  ASSUME ShareInv, NEW q \in Requests, NEW kind \in {"get", "put", "job", "refresh", "reset"},
         NEW limit \in Limits \cup {NoLimit}, NEW weight \in NewWeights \cup {1},
         B!Begin(q, kind, limit, weight)
  PROVE  ShareInv'
<1> DEFINE t == [kind |-> kind, read |-> buckets, limit |-> limit, weight |-> weight]
<1>1. t \in Transactions
  BY DEF Transactions, ShareInv, ShareTypes
<1>2. tx' = tx \/ tx' = [tx EXCEPT ![q] = t]
  BY DEF B!Begin
<1>3. /\ buckets' = buckets /\ clock' = clock /\ charged' = charged /\ raced' = raced
      /\ again' = again /\ seen' = seen /\ since' = since /\ early' = early
  BY DEF B!Begin
<1> HIDE DEF t
<1> QED
  BY <1>1, <1>2, <1>3 DEF ShareInv, ShareTypes, Unraced

LEMMA ShareCommit ==
  ASSUME ShareInv, NEW q \in Requests, B!Commit(q)
  PROVE  ShareInv'
<1> DEFINE t == tx[q]
           n == Len(t.read)
           new == [i \in 1 .. n |-> B!Changed(t, t.read[i])]
           renewed == n = 1 /\ new[1].done = 0 /\ new[1] # [t.read[1] EXCEPT !.weight = new[1].weight]
           repeats == t.kind = "refresh" /\ seen
           upd == [i \in 1 .. Len(buckets) |->
                     IF i <= n THEN B!Written(t.read[i], new[i], buckets[i]) ELSE buckets[i]]
           cre == B!Created(t)
<1>1. /\ tx' = [tx EXCEPT ![q] = B!Idle]
      /\ buckets' = upd \o cre
      /\ raced' = (raced \/ buckets # t.read)
      /\ charged' = IF n = 0 \/ renewed THEN 0
                    ELSE IF repeats THEN charged ELSE charged + B!Charges(t)
      /\ again' = IF n = 0 \/ renewed THEN 0 ELSE IF repeats THEN again + B!Charges(t) ELSE again
      /\ seen' = (seen \/ (t.kind = "refresh" /\ n > 0))
      /\ since' = IF n = 0 \/ renewed THEN clock ELSE since
      /\ early' = (early \/ (renewed /\ clock <= since + Period))
      /\ clock' = clock
  BY DEF B!Commit
<1>2. t \in Transactions /\ t.read \in Seq(Buckets) /\ n \in Nat
  BY DEF ShareInv, ShareTypes, Transactions
<1>3. /\ buckets \in Seq(Buckets) /\ clock \in 0 .. MaxTicks /\ charged \in Nat /\ again \in Nat
      /\ seen \in BOOLEAN /\ raced \in BOOLEAN /\ early \in BOOLEAN
  BY DEF ShareInv, ShareTypes
<1>4. B!Charges(t) \in Nat
  BY SharesAssumption DEF B!Charges
<1>5. \A i \in 1 .. n : t.read[i] \in Buckets /\ new[i] = B!Changed(t, t.read[i]) /\ new[i] \in Buckets
  <2> SUFFICES ASSUME NEW i \in 1 .. n
               PROVE  t.read[i] \in Buckets /\ new[i] = B!Changed(t, t.read[i]) /\ new[i] \in Buckets
    OBVIOUS
  <2>1. t.read[i] \in Buckets /\ new[i] = B!Changed(t, t.read[i])
    BY <1>2
  <2> HIDE DEF t, n, new
  <2> QED
    BY <1>2, <1>3, <2>1, ChangedBucket
<1>6. cre \in Seq(Buckets) /\ Len(cre) <= 1 /\ (t.read # <<>> => cre = <<>>)
  BY <1>2, <1>3, CreatedBuckets
<1>7. \A i \in 1 .. Len(cre) : cre[i].done = 0 /\ cre[i].start = clock
  BY <1>2, <1>3, CreatedBuckets
<1>8. \A i \in 1 .. Len(buckets) : upd[i] \in Buckets
  <2> SUFFICES ASSUME NEW i \in 1 .. Len(buckets) PROVE upd[i] \in Buckets
    OBVIOUS
  <2>1. buckets[i] \in Buckets
    BY <1>3
  <2>2. CASE i <= n
    <3>1. i \in 1 .. n
      BY <1>2, <1>3, <2>2
    <3>2. upd[i] = B!Written(t.read[i], new[i], buckets[i])
      BY <2>2
    <3> HIDE DEF t, n, new, upd
    <3> QED
      BY <1>5, <2>1, <3>1, <3>2, WrittenBucket
  <2>3. CASE ~ (i <= n)
    BY <2>1, <2>3
  <2> QED
    BY <2>2, <2>3
<1>9. upd \in Seq(Buckets) /\ Len(upd) = Len(buckets)
  <2>1. Len(buckets) \in Nat
    BY <1>3
  <2>2. upd \in [1 .. Len(buckets) -> Buckets]
    BY <1>8
  <2>3. DOMAIN upd = 1 .. Len(buckets)
    OBVIOUS
  <2> HIDE DEF upd
  <2> QED
    BY <2>1, <2>2, <2>3
<1>10. n = 0 => charged' = 0 /\ again' = 0 /\ since' = clock
  BY <1>1
<1>11. charged' \in Nat /\ again' \in Nat
  BY <1>1, <1>3, <1>4
<1>12. raced' \in BOOLEAN /\ seen' \in BOOLEAN
  BY <1>1, <1>3, Zenon
<1>13. early' \in BOOLEAN
  BY <1>1, <1>3, Zenon
<1>14. ~raced' => ~raced /\ buckets = t.read
  BY <1>1
<1>15. ShareTypes'
  <2>1. B!Idle \in Transactions
    BY DEF B!Idle, Transactions
  <2>2. tx' \in [Requests -> Transactions]
    BY <1>1, <2>1 DEF ShareInv, ShareTypes
  <2>3. buckets' \in Seq(Buckets)
    <3> HIDE DEF upd, cre
    <3> QED
      BY <1>1, <1>6, <1>9
  <2> QED
    BY <1>1, <1>3, <1>11, <1>12, <1>13, <2>2, <2>3 DEF ShareTypes
<1>16. ASSUME ~raced'
       PROVE  /\ Len(buckets') <= 1 /\ ~early'
              /\ Len(buckets') = 1 => buckets'[1].done = charged' + again' /\ buckets'[1].start = since'
  <2>1. buckets = t.read /\ Len(buckets) = n /\ n <= 1 /\ ~early
    BY <1>14, <1>16 DEF ShareInv, Unraced
  <2>2. n = 1 => buckets[1].done = charged + again /\ buckets[1].start = since
    BY <1>14, <1>16, <2>1 DEF ShareInv, Unraced
  <2>3. CASE n = 0
    <3>1. ~renewed
      BY <2>3
    <3>2. buckets' = cre
      <4>1. upd = <<>>
        BY <2>1, <2>3
      <4> HIDE DEF upd, cre
      <4> QED
        BY <1>1, <1>6, <4>1
    <3>3. ~early'
      BY <1>1, <2>1, <3>1
    <3> HIDE DEF cre, renewed, n
    <3> QED
      BY <1>6, <1>7, <1>10, <2>3, <3>2, <3>3
  <2>4. CASE n = 1
    <3> DEFINE b == t.read[1]
               c == new[1]
    <3>1. b \in Buckets /\ c = B!Changed(t, b) /\ c \in Buckets
      BY <1>5, <2>4
    <3>2. \/ /\ c.done = 0 /\ c.start = clock /\ clock > b.start + Period /\ B!Charges(t) = 0
             /\ c # [b EXCEPT !.weight = c.weight]
          \/ /\ c.done = b.done + B!Charges(t) /\ c.start = b.start
             /\ c.done = 0 => c = [b EXCEPT !.weight = c.weight]
      <4> HIDE DEF b, c, t
      <4> QED
        BY <1>2, <1>3, <3>1, ChangedBucket
    <3>3. cre = <<>> /\ Len(upd) = 1
      BY <1>6, <1>9, <2>1, <2>4
    <3>4. buckets' = upd
      <4> HIDE DEF upd, cre
      <4> QED
        BY <1>1, <1>9, <3>3
    <3>5. upd[1] = B!Written(b, c, buckets[1]) /\ buckets[1] = b
      BY <2>1, <2>4
    <3>6. upd[1].done = c.done /\ upd[1].start = c.start
      <4> HIDE DEF b, c, upd
      <4> QED
        BY <3>1, <3>5, WrittenBucket
    <3>7. renewed <=> c.done = 0 /\ c # [b EXCEPT !.weight = c.weight]
      BY <2>4
    <3>8. b.done = charged + again /\ b.start = since /\ b.start \in Nat
      BY <2>2, <2>4, <3>1, <3>5 DEF Buckets
    <3> HIDE DEF b, c, upd, cre, renewed, repeats, t, n
    <3>9. Len(buckets') <= 1
      <4>1. Len(buckets') = 1
        BY <3>3, <3>4, Zenon
      <4> QED
        BY <4>1
    <3>10. CASE renewed
      <4>1. c.start = clock /\ clock > since + Period
        BY <3>2, <3>7, <3>8, <3>10
      <4>2. ~early'
        BY <1>1, <1>3, <2>1, <3>8, <4>1, SharesAssumption
      <4>3. charged' = 0 /\ again' = 0 /\ since' = clock
        BY <1>1, <3>10
      <4>4. c.done = 0
        BY <3>7, <3>10
      <4>5. buckets'[1].done = charged' + again' /\ buckets'[1].start = since'
        BY <3>4, <3>6, <4>1, <4>3, <4>4
      <4> QED
        BY <3>9, <4>2, <4>5
    <3>11. CASE ~renewed
      <4>1. c.done = (charged + again) + B!Charges(t) /\ c.start = since
        BY <3>2, <3>7, <3>8, <3>11
      <4>2. ~early'
        BY <1>1, <2>1, <3>11
      <4>3. charged' + again' = (charged + again) + B!Charges(t) /\ since' = since
        BY <1>1, <1>3, <1>4, <2>4, <3>11
      <4>4. buckets'[1].done = charged' + again' /\ buckets'[1].start = since'
        BY <3>4, <3>6, <4>1, <4>3
      <4> QED
        BY <3>9, <4>2, <4>4
    <3> QED
      BY <3>10, <3>11
  <2>5. n = 0 \/ n = 1
    <3> HIDE DEF n
    <3> QED
      BY <1>2, <2>1
  <2> HIDE DEF n
  <2> QED
    BY <2>3, <2>4, <2>5
<1> QED
  BY <1>15, <1>16 DEF ShareInv, Unraced

LEMMA ShareStep == ShareInv /\ [B!Next]_shareVars => ShareInv'
<1> SUFFICES ASSUME ShareInv, [B!Next]_shareVars PROVE ShareInv'
  OBVIOUS
<1>1. ASSUME NEW q \in Requests,
             \/ B!get_my_fair_share(q) \/ B!update_my_fair_share(q) \/ B!execute_gang_task(q)
             \/ B!update_fair_share_usage(q) \/ B!reset_expired_fair_share_periods(q)
      PROVE  ShareInv'
  BY <1>1, ShareBegin DEF B!get_my_fair_share, B!update_my_fair_share, B!execute_gang_task,
                          B!update_fair_share_usage, B!reset_expired_fair_share_periods
<1>2. ASSUME NEW q \in Requests, B!Rollback(q) PROVE ShareInv'
  <2>1. B!Idle \in Transactions
    BY DEF B!Idle, Transactions
  <2> QED
    BY <1>2, <2>1 DEF B!Rollback, ShareInv, ShareTypes, Unraced
<1>3. CASE B!Tick
  BY <1>3, SharesAssumption DEF B!Tick, ShareInv, ShareTypes, Unraced
<1>4. CASE UNCHANGED shareVars
  BY <1>4 DEF shareVars, ShareInv, ShareTypes, Unraced
<1> QED
  BY <1>1, <1>2, <1>3, <1>4, ShareCommit DEF B!Next

LEMMA ShareSafe ==
  ASSUME ShareInv
  PROVE  B!TypeOK /\ B!SecondBucketOnlyByRace /\ B!LostOnlyByRace /\ B!OverLimitWeighsNothing
<1>1. \A i \in 1 .. Len(buckets) : buckets[i] \in Buckets
  BY DEF ShareInv, ShareTypes
<1>2. B!TypeOK
  <2>1. tx \in [Requests -> [kind : {"none", "get", "put", "job", "refresh", "reset"},
                             read : {tx[q].read : q \in Requests},
                             limit : Limits \cup {NoLimit}, weight : NewWeights \cup {1}]]
    BY DEF ShareInv, ShareTypes, Transactions
  <2>2. \A i \in 1 .. Len(buckets) : buckets[i].used \in Nat /\ buckets[i].start \in 0 .. MaxTicks
    BY <1>1 DEF Buckets
  <2> QED
    BY <2>1, <2>2 DEF B!TypeOK, ShareInv, ShareTypes
<1>3. B!SecondBucketOnlyByRace
  BY DEF ShareInv, ShareTypes, Unraced, B!SecondBucketOnlyByRace
<1>4. B!LostOnlyByRace
  BY DEF ShareInv, Unraced, B!LostOnlyByRace
<1>5. ASSUME NEW b \in Buckets, b.limit # 0
      PROVE  B!is_over_limit(b) <=> B!get_scheduling_weight(b) = 0
  <2>1. b.used \in Nat /\ b.weight \in Nat \ {0} /\ (b.limit \in Int \/ b.limit = NoLimit)
    <3>1. b.used \in Nat /\ b.weight \in NewWeights \cup {1} /\ b.limit \in Limits \cup {NoLimit}
      BY DEF Buckets
    <3>2. b.weight \in Nat \ {0}
      <4>1. CASE b.weight = 1
        BY <4>1
      <4>2. CASE b.weight \in NewWeights
        BY <4>2, SharesAssumption
      <4> QED
        BY <3>1, <4>1, <4>2
    <3>3. b.limit # NoLimit => b.limit \in Limits \ {NoLimit}
      BY <3>1
    <3> QED
      BY <3>1, <3>2, <3>3, SharesAssumption
  <2>2. CASE b.limit = NoLimit
    BY <2>1, <2>2 DEF B!is_over_limit, B!get_scheduling_weight
  <2>3. CASE b.limit # NoLimit
    <3>1. B!is_over_limit(b) <=> b.used >= b.limit
      BY <2>3 DEF B!is_over_limit
    <3>2. CASE b.used >= b.limit
      BY <1>5, <2>3, <3>1, <3>2 DEF B!get_scheduling_weight
    <3>3. CASE ~ (b.used >= b.limit)
      <4>1. B!get_scheduling_weight(b) \in {b.weight, 2 * b.weight, 3 * b.weight, 4 * b.weight}
        BY <1>5, <2>3, <3>3 DEF B!get_scheduling_weight
      <4> QED
        BY <2>1, <3>1, <3>3, <4>1
    <3> QED
      BY <3>2, <3>3
  <2> QED
    BY <2>2, <2>3
<1>6. B!OverLimitWeighsNothing
  BY <1>1, <1>5 DEF B!OverLimitWeighsNothing
<1> QED
  BY <1>2, <1>3, <1>4, <1>6

-----------------------------------------------------------------------------
(* Cloud launches, for any providers, types and prices.                    *)

LaunchRequests == [pc : {"idle", "direct", "typed", "list", "cheapest"}, id : Nat,
                   type : Types \cup {AnyType}, max : Nat, at : Nat,
                   offers : SUBSET C!Offers, failed : SUBSET C!Offers]
Instances == [for : LaunchRequests, provider : Providers, type : Types, st : {"running", "stopped"},
              no : Nat, known : {"answered", "lost", "surplus"}]

CloudTypes ==
  /\ market \in [Providers -> [Types -> {C!Absent} \cup Prices]]
  /\ cloudReq \in LaunchRequests /\ instances \subseteq Instances /\ cloudCalls \in Nat

(* The provider has nothing for the request: not listed, it failed, or it  *)
(* asks too much.                                                          *)
PassedOver(m, p, r) ==
  \/ m[p][r.type] = C!Absent \/ <<p, r.type>> \in r.failed
  \/ (r.max # 0 /\ m[p][r.type] > r.max)

(* The request under way is the last one and has no answer yet, and the    *)
(* providers behind it have nothing for it.                                *)
Searching ==
  /\ \A i \in instances : i.for.id <= cloudCalls
  /\ cloudReq.pc # "idle" =>
       /\ cloudReq.id = cloudCalls
       /\ \A i \in instances : i.known = "answered" => i.for.id # cloudReq.id
  /\ cloudReq.pc = "direct" => cloudReq.type \in Types
  /\ cloudReq.pc = "typed" =>
       /\ cloudReq.type \in Types
       /\ \A p \in Providers : Rank[p] < cloudReq.at => PassedOver(market, p, cloudReq)
  /\ cloudReq.pc \in {"list", "cheapest"} /\ cloudReq.type # AnyType =>
       \A p \in Providers : PassedOver(market, p, cloudReq)

CloudInv ==
  /\ CloudTypes /\ Searching
  /\ C!OneAnswerPerRequest /\ C!WithinMaxPrice /\ C!OtherTypeOnlyByFailure

LEMMA PassedOverKept ==
  ASSUME NEW m, NEW p, NEW r, NEW s, s.type = r.type, s.max = r.max, r.failed \subseteq s.failed,
         PassedOver(m, p, r)
  PROVE  PassedOver(m, p, s)
BY DEF PassedOver

LEMMA RequestIdle ==
  /\ C!NoRequest \in LaunchRequests /\ C!NoRequest.pc = "idle"
  /\ C!NoRequest.type = AnyType /\ C!NoRequest.failed = {} /\ C!NoRequest.max = 0
BY DEF C!NoRequest, LaunchRequests

LEMMA CloudInit == C!Init => CloudInv
<1> SUFFICES ASSUME C!Init PROVE CloudInv
  OBVIOUS
<1>1. CloudTypes
  BY RequestIdle DEF C!Init, CloudTypes
<1>2. Searching
  BY RequestIdle DEF C!Init, Searching
<1> QED
  BY <1>1, <1>2 DEF C!Init, CloudInv, C!OneAnswerPerRequest, C!WithinMaxPrice, C!OtherTypeOnlyByFailure

(* What a launch starts: instances that remember their request, of which   *)
(* at most one is named in the answer.                                     *)
LEMMA StartedInstances ==
  ASSUME CloudTypes, NEW p \in Providers, NEW t \in Types, NEW n \in Nat,
         NEW how \in {"answered", "lost"}, NEW S, S = C!Started(<<p, t>>, n, how)
  PROVE  /\ S \subseteq Instances
         /\ \A x \in S : /\ x.provider = p /\ x.type = t
                         /\ x.for.id = cloudReq.id /\ x.for.pc = cloudReq.pc /\ x.for.max = cloudReq.max
                         /\ x.for.type = cloudReq.type /\ x.for.failed = cloudReq.failed
         /\ \A x, y \in S : x.known = "answered" /\ y.known = "answered" => x = y
         /\ \A x \in S : x.known = "answered" => how = "answered"
<1> DEFINE g == [cloudReq EXCEPT !.offers = {}]
           inst(i) == [for |-> g, provider |-> p, type |-> t, st |-> "running", no |-> i,
                       known |-> IF i = 1 THEN how ELSE "surplus"]
<1>1. /\ g \in LaunchRequests /\ g.id = cloudReq.id /\ g.pc = cloudReq.pc /\ g.max = cloudReq.max
      /\ g.type = cloudReq.type /\ g.failed = cloudReq.failed
  BY DEF CloudTypes, LaunchRequests
<1>2. S = {inst(i) : i \in 1 .. n}
  BY DEF C!Started
<1> HIDE DEF g
<1>3. \A i \in 1 .. n : /\ inst(i) \in Instances /\ inst(i).for = g /\ inst(i).provider = p
                        /\ inst(i).type = t /\ (inst(i).known = "answered" => i = 1 /\ how = "answered")
  BY <1>1 DEF Instances
<1> HIDE DEF inst
<1> QED
  BY <1>1, <1>2, <1>3

(* A launch, whatever becomes of the request, keeps what is said of the    *)
(* instances.                                                              *)
LEMMA LaunchKeeps ==
  ASSUME CloudInv, NEW p \in Providers, NEW t \in Types, NEW n \in Nat,
         NEW how \in {"answered", "lost"},
         instances' = instances \cup C!Started(<<p, t>>, n, how),
         market' = market, cloudCalls' = cloudCalls, cloudReq.pc # "idle",
         cloudReq.pc # "direct" => ~C!TooDear(<<p, t>>),
         cloudReq.type \notin {AnyType, t} => \A v \in Providers : PassedOver(market, v, cloudReq)
  PROVE  /\ instances' \subseteq Instances
         /\ \A i \in instances' : i.for.id <= cloudCalls'
         /\ how = "lost" => \A i \in instances' : i.known = "answered" => i.for.id # cloudReq.id
         /\ (C!OneAnswerPerRequest /\ C!WithinMaxPrice /\ C!OtherTypeOnlyByFailure)'
<1> DEFINE S == C!Started(<<p, t>>, n, how)
<1>1. /\ S \subseteq Instances
      /\ \A x \in S : /\ x.provider = p /\ x.type = t
                      /\ x.for.id = cloudReq.id /\ x.for.pc = cloudReq.pc /\ x.for.max = cloudReq.max
                      /\ x.for.type = cloudReq.type /\ x.for.failed = cloudReq.failed
      /\ \A x, y \in S : x.known = "answered" /\ y.known = "answered" => x = y
      /\ \A x \in S : x.known = "answered" => how = "answered"
  BY StartedInstances DEF CloudInv
<1>2. instances' = instances \cup S
  OBVIOUS
<1> HIDE DEF S
<1>3. /\ instances \subseteq Instances /\ cloudCalls \in Nat /\ cloudReq.id = cloudCalls
      /\ \A i \in instances : i.for.id <= cloudCalls
      /\ \A i \in instances : i.known = "answered" => i.for.id # cloudReq.id
      /\ cloudReq.max \in Nat
  BY DEF CloudInv, CloudTypes, Searching, LaunchRequests
<1>4. \A i \in instances' : i.for.id <= cloudCalls'
  BY <1>1, <1>2, <1>3
<1>5. how = "lost" => \A i \in instances' : i.known = "answered" => i.for.id # cloudReq.id
  BY <1>1, <1>2, <1>3
<1>6. C!OneAnswerPerRequest'
  BY <1>1, <1>2, <1>3 DEF CloudInv, C!OneAnswerPerRequest
<1>7. C!WithinMaxPrice'
  <2> SUFFICES ASSUME NEW i \in instances', i.for.pc # "direct", i.for.max # 0
               PROVE  market'[i.provider][i.type] <= i.for.max
    BY DEF C!WithinMaxPrice, C!Price
  <2>1. CASE i \in instances
    BY <2>1 DEF CloudInv, C!WithinMaxPrice, C!Price
  <2>2. CASE i \in S
    <3>1. ~ (market[p][t] > cloudReq.max)
      BY <1>1, <2>2 DEF C!TooDear, C!Price
    <3>2. market[p][t] \in Int
      <4>1. market[p][t] \in {C!Absent} \cup Prices
        BY DEF CloudInv, CloudTypes
      <4>2. C!Absent \in Int
        BY DEF C!Absent
      <4>3. CASE market[p][t] = C!Absent
        BY <4>2, <4>3
      <4>4. CASE market[p][t] \in Prices
        <5>1. Prices \subseteq Nat
          BY CloudAssumption
        <5>2. market[p][t] \in Nat
          BY <4>4, <5>1, Zenon
        <5> QED
          BY <5>2
      <4> QED
        BY <4>1, <4>3, <4>4
    <3> QED
      BY <1>1, <1>3, <2>2, <3>1, <3>2
  <2> QED
    BY <1>2, <2>1, <2>2
<1>8. C!OtherTypeOnlyByFailure'
  <2> SUFFICES ASSUME NEW i \in instances', i.for.type \notin {AnyType, i.type}, NEW v \in Providers
               PROVE  PassedOver(market', v, i.for)
    BY DEF C!OtherTypeOnlyByFailure, C!Price, PassedOver
  <2>1. CASE i \in instances
    BY <2>1 DEF CloudInv, C!OtherTypeOnlyByFailure, C!Price, PassedOver
  <2>2. CASE i \in S
    BY <1>1, <2>2, PassedOverKept
  <2> QED
    BY <1>2, <2>1, <2>2
<1> QED
  BY <1>1, <1>2, <1>3, <1>4, <1>5, <1>6, <1>7, <1>8

(* What is said of the instances when they stay.                           *)
LEMMA InstancesStay ==
  ASSUME CloudInv, instances' = instances, market' = market, cloudCalls' \in Nat,
         cloudCalls <= cloudCalls'
  PROVE  /\ instances' \subseteq Instances
         /\ \A i \in instances' : i.for.id <= cloudCalls'
         /\ (C!OneAnswerPerRequest /\ C!WithinMaxPrice /\ C!OtherTypeOnlyByFailure)'
<1>1. \A i \in instances : i.for.id \in Nat
  BY DEF CloudInv, CloudTypes, Instances, LaunchRequests
<1>2. \A i \in instances : i.for.id <= cloudCalls'
  BY <1>1 DEF CloudInv, CloudTypes, Searching
<1> QED
  BY <1>2 DEF CloudInv, CloudTypes, C!OneAnswerPerRequest, C!WithinMaxPrice, C!OtherTypeOnlyByFailure, C!Price

LEMMA LaunchBegins ==
  ASSUME CloudInv, NEW pc \in {"direct", "typed", "list"}, NEW p, NEW type \in Types \cup {AnyType},
         NEW max \in MaxPrices, C!launch_instance(pc, p, type, max),
         pc = "direct" => p \in Providers,
         pc # "list" => type \in Types,
         pc = "list" => type = AnyType
  PROVE  CloudInv'
<1> DEFINE begin == IF pc = "direct" THEN Rank[p] ELSE 1
           r == [C!NoRequest EXCEPT !.pc = pc, !.id = cloudCalls + 1, !.type = type, !.max = max, !.at = begin]
<1>1. /\ cloudCalls' = cloudCalls + 1 /\ cloudReq' = r /\ market' = market /\ instances' = instances
  BY DEF C!launch_instance
<1>2. cloudCalls \in Nat /\ max \in Nat
  BY CloudAssumption DEF CloudInv, CloudTypes
<1>3. begin \in Nat
  BY CloudAssumption
<1> HIDE DEF begin
<1>4. /\ r \in LaunchRequests /\ r.pc = pc /\ r.id = cloudCalls + 1 /\ r.type = type /\ r.max = max
      /\ r.at = begin
  <2>1. cloudCalls + 1 \in Nat
    BY <1>2
  <2> QED
    BY <1>2, <1>3, <2>1 DEF C!NoRequest, LaunchRequests
<1> HIDE DEF r
<1>5. /\ instances' \subseteq Instances
      /\ \A i \in instances' : i.for.id <= cloudCalls'
      /\ (C!OneAnswerPerRequest /\ C!WithinMaxPrice /\ C!OtherTypeOnlyByFailure)'
  BY <1>1, <1>2, InstancesStay
<1>6. CloudTypes'
  BY <1>1, <1>2, <1>4, <1>5 DEF CloudInv, CloudTypes
<1>7. \A i \in instances' : i.for.id # cloudReq'.id
  <2>1. \A i \in instances : i.for.id \in Nat /\ i.for.id <= cloudCalls
    BY DEF CloudInv, CloudTypes, Searching, Instances, LaunchRequests
  <2> QED
    BY <1>1, <1>2, <1>4, <2>1
<1>8. pc = "typed" => \A v \in Providers : ~ (Rank[v] < cloudReq'.at)
  BY <1>1, <1>4, CloudAssumption DEF begin
<1>9. Searching'
  BY <1>1, <1>4, <1>5, <1>7, <1>8 DEF Searching
<1> QED
  BY <1>5, <1>6, <1>9 DEF CloudInv

(* The request ends.                                                       *)
LEMMA RequestReturns ==
  ASSUME CloudInv, C!Return, market' = market, cloudCalls' = cloudCalls, instances' \subseteq Instances,
         \A i \in instances' : i.for.id <= cloudCalls',
         (C!OneAnswerPerRequest /\ C!WithinMaxPrice /\ C!OtherTypeOnlyByFailure)'
  PROVE  CloudInv'
<1>1. cloudReq' = C!NoRequest
  BY DEF C!Return
<1>2. CloudTypes'
  BY <1>1, RequestIdle DEF CloudInv, CloudTypes
<1>3. Searching'
  BY <1>1, RequestIdle DEF Searching
<1> QED
  BY <1>2, <1>3 DEF CloudInv

(* The request goes on with its search, further than before.               *)
LEMMA RequestGoesOn ==
  ASSUME CloudInv, market' = market, cloudCalls' = cloudCalls, instances' \subseteq Instances,
         cloudReq.pc \in {"typed", "list", "cheapest"}, NEW r \in LaunchRequests, cloudReq' = r,
         r.id = cloudReq.id, r.type = cloudReq.type, r.max = cloudReq.max,
         cloudReq.failed \subseteq r.failed,
         r.pc \in {"typed", "list", "cheapest"},
         r.pc = "typed" => /\ cloudReq.pc = "typed"
                           /\ \A p \in Providers : Rank[p] < r.at => PassedOver(market, p, r),
         cloudReq.pc = "typed" /\ r.pc # "typed" => \A p \in Providers : PassedOver(market, p, r),
         \A i \in instances' : i.for.id <= cloudCalls',
         \A i \in instances' : i.known = "answered" => i.for.id # cloudReq.id,
         (C!OneAnswerPerRequest /\ C!WithinMaxPrice /\ C!OtherTypeOnlyByFailure)'
  PROVE  CloudInv'
<1>1. CloudTypes'
  BY DEF CloudInv, CloudTypes
<1>2. cloudReq.id = cloudCalls
  BY DEF CloudInv, Searching
<1>3. r.pc = "typed" => r.type \in Types
  BY DEF CloudInv, Searching
<1>4. ASSUME r.pc \in {"list", "cheapest"}, r.type # AnyType, NEW p \in Providers
      PROVE  PassedOver(market, p, r)
  <2>1. CASE cloudReq.pc = "typed"
    BY <1>4, <2>1
  <2>2. CASE cloudReq.pc \in {"list", "cheapest"}
    <3>1. PassedOver(market, p, cloudReq)
      BY <1>4, <2>2 DEF CloudInv, Searching
    <3> QED
      BY <3>1, PassedOverKept
  <2> QED
    BY <2>1, <2>2
<1>5. Searching'
  BY <1>2, <1>3, <1>4 DEF Searching
<1> QED
  BY <1>1, <1>5 DEF CloudInv

(* What a provider call leaves: nothing more, or instances whose answer    *)
(* came or was lost.                                                       *)
LEMMA ProviderCall ==
  ASSUME CloudInv, NEW p \in Providers, NEW t \in Types, market' = market, cloudCalls' = cloudCalls,
         cloudReq.pc # "idle",
         cloudReq.pc # "direct" => ~C!TooDear(<<p, t>>),
         cloudReq.type \notin {AnyType, t} => \A v \in Providers : PassedOver(market, v, cloudReq),
         C!Answered(<<p, t>>) \/ C!Raised(<<p, t>>)
  PROVE  /\ instances' \subseteq Instances
         /\ \A i \in instances' : i.for.id <= cloudCalls'
         /\ (C!OneAnswerPerRequest /\ C!WithinMaxPrice /\ C!OtherTypeOnlyByFailure)'
         /\ C!Raised(<<p, t>>) =>
              \A i \in instances' : i.known = "answered" => i.for.id # cloudReq.id
<1>1. C!Sizes(<<p, t>>[1]) \subseteq Nat
  BY CloudAssumption DEF C!Sizes
<1>2. cloudCalls \in Nat /\ cloudCalls <= cloudCalls'
  BY DEF CloudInv, CloudTypes
<1>3. CASE instances' = instances
  BY <1>2, <1>3, InstancesStay DEF CloudInv, Searching
<1>4. CASE \E n \in C!Sizes(<<p, t>>[1]) : instances' = instances \cup C!Started(<<p, t>>, n, "lost")
  BY <1>1, <1>4, LaunchKeeps
<1>5. CASE ~C!Raised(<<p, t>>) /\ C!Answered(<<p, t>>)
  <2>1. PICK n \in C!Sizes(<<p, t>>[1]) : instances' = instances \cup C!Started(<<p, t>>, n, "answered")
    BY <1>5 DEF C!Answered
  <2>2. n \in Nat
    BY <1>1
  <2>3. /\ instances' \subseteq Instances /\ \A i \in instances' : i.for.id <= cloudCalls'
        /\ (C!OneAnswerPerRequest /\ C!WithinMaxPrice /\ C!OtherTypeOnlyByFailure)'
    BY <2>1, <2>2, LaunchKeeps
  <2> QED
    BY <1>5, <2>3
<1> QED
  BY <1>3, <1>4, <1>5 DEF C!Raised

LEMMA Direct ==
  ASSUME CloudInv, C!direct PROVE CloudInv'
<1>1. PICK p \in Providers, t \in Types :
        t = cloudReq.type /\ (C!Answered(<<p, t>>) \/ C!Raised(<<p, t>>))
  BY DEF C!direct
<1>2. cloudReq.pc = "direct" /\ C!Return /\ market' = market /\ cloudCalls' = cloudCalls
  BY DEF C!direct
<1> QED
  BY <1>1, <1>2, ProviderCall, RequestReturns

Onward(extra) == [C!NextProvider EXCEPT !.failed = @ \cup extra]

(* The next provider of the loop over the type: the one at hand is passed  *)
(* over, and behind the last one all are.                                  *)
LEMMA GoesToNext ==
  ASSUME CloudInv, cloudReq.pc = "typed", NEW p \in Providers, Rank[p] = cloudReq.at,
         NEW extra \in SUBSET C!Offers, NEW r, r = Onward(extra),
         PassedOver(market, p, cloudReq) \/ <<p, cloudReq.type>> \in extra
  PROVE  /\ r \in LaunchRequests /\ r.id = cloudReq.id /\ r.type = cloudReq.type /\ r.max = cloudReq.max
         /\ cloudReq.failed \subseteq r.failed /\ r.pc \in {"typed", "list"}
         /\ r.pc = "typed" => \A v \in Providers : Rank[v] < r.at => PassedOver(market, v, r)
         /\ r.pc = "list" => \A v \in Providers : PassedOver(market, v, r)
<1> DEFINE x == C!NextProvider
           last == \A v \in Providers : Rank[v] <= cloudReq.at
<1>1. cloudReq \in LaunchRequests /\ cloudReq.at \in Nat
  BY DEF CloudInv, CloudTypes, LaunchRequests
<1>2. x = IF last THEN [cloudReq EXCEPT !.pc = "list"] ELSE [cloudReq EXCEPT !.at = @ + 1]
  BY DEF C!NextProvider
<1>3. /\ x \in LaunchRequests /\ x.id = cloudReq.id /\ x.type = cloudReq.type /\ x.max = cloudReq.max
      /\ x.failed = cloudReq.failed
      /\ \/ x.pc = "list" /\ last
         \/ x.pc = "typed" /\ x.at = cloudReq.at + 1
  BY <1>1, <1>2 DEF LaunchRequests
<1> HIDE DEF x, last
<1>4. /\ r \in LaunchRequests /\ r.id = x.id /\ r.type = x.type /\ r.max = x.max
      /\ r.failed = x.failed \cup extra /\ r.pc = x.pc /\ r.at = x.at
  BY <1>3 DEF x, LaunchRequests, Onward
<1>5. PassedOver(market, p, r)
  BY <1>3, <1>4 DEF PassedOver
<1>6. \A v \in Providers : Rank[v] < cloudReq.at => PassedOver(market, v, r)
  <2> SUFFICES ASSUME NEW v \in Providers, Rank[v] < cloudReq.at PROVE PassedOver(market, v, r)
    OBVIOUS
  <2>1. PassedOver(market, v, cloudReq)
    BY DEF CloudInv, Searching
  <2> QED
    BY <1>3, <1>4, <2>1, PassedOverKept
<1>7. \A v \in Providers : Rank[v] = cloudReq.at => v = p
  BY CloudAssumption
<1>8. \A v \in Providers : Rank[v] \in Nat
  BY CloudAssumption
<1>9. ASSUME x.pc = "list", NEW v \in Providers PROVE PassedOver(market, v, r)
  <2>1. Rank[v] < cloudReq.at \/ Rank[v] = cloudReq.at
    BY <1>1, <1>3, <1>8, <1>9 DEF last
  <2> QED
    BY <1>5, <1>6, <1>7, <2>1
<1>10. ASSUME x.pc = "typed", NEW v \in Providers, Rank[v] < r.at PROVE PassedOver(market, v, r)
  <2>1. Rank[v] < cloudReq.at \/ Rank[v] = cloudReq.at
    BY <1>1, <1>3, <1>4, <1>8, <1>10
  <2> QED
    BY <1>5, <1>6, <1>7, <2>1
<1> QED
  BY <1>3, <1>4, <1>9, <1>10

LEMMA Typed ==
  ASSUME CloudInv, C!typed PROVE CloudInv'
<1>1. /\ cloudReq.pc = "typed" /\ market' = market /\ cloudCalls' = cloudCalls
  BY DEF C!typed
<1>2. PICK p \in Providers :
        LET o == <<p, cloudReq.type>> IN
        /\ Rank[p] = cloudReq.at
        /\ \/ C!Price(o) = C!Absent /\ cloudReq' = C!NextProvider /\ UNCHANGED instances
           \/ C!Price(o) # C!Absent /\ cloudReq' = C!Failed(o) /\ UNCHANGED instances
           \/ C!Price(o) # C!Absent /\ C!TooDear(o) /\ cloudReq' = C!NextProvider /\ UNCHANGED instances
           \/ C!Price(o) # C!Absent /\ ~C!TooDear(o) /\ C!Answered(o) /\ C!Return
           \/ C!Price(o) # C!Absent /\ ~C!TooDear(o) /\ C!Raised(o) /\ cloudReq' = C!Failed(o)
  BY DEF C!typed
<1>3. cloudReq.type \in Types /\ cloudReq \in LaunchRequests
  BY <1>1 DEF CloudInv, Searching, CloudTypes
<1> DEFINE t == cloudReq.type
           o == <<p, t>>
           Next0 == Onward({})
           Next1 == Onward({o})
<1>4. o \in C!Offers /\ C!Price(o) = market[p][t] /\ Rank[p] = cloudReq.at
  BY <1>2, <1>3 DEF C!Offers, C!Price
<1>5. C!Failed(o) = Next1
  BY DEF C!Failed, Onward
<1>6. C!NextProvider = Next0
  BY <1>3 DEF C!NextProvider, LaunchRequests, Onward
<1>7. C!Price(o) = C!Absent \/ C!TooDear(o) => PassedOver(market, p, cloudReq)
  BY <1>4 DEF PassedOver, C!TooDear
<1>8. ASSUME cloudReq' = Next1 \/ (cloudReq' = Next0 /\ PassedOver(market, p, cloudReq)),
             instances' \subseteq Instances,
             \A i \in instances' : i.for.id <= cloudCalls',
             \A i \in instances' : i.known = "answered" => i.for.id # cloudReq.id,
             (C!OneAnswerPerRequest /\ C!WithinMaxPrice /\ C!OtherTypeOnlyByFailure)'
      PROVE  CloudInv'
  <2> DEFINE r == cloudReq'
  <2>1. /\ r \in LaunchRequests /\ r.id = cloudReq.id /\ r.type = cloudReq.type /\ r.max = cloudReq.max
        /\ cloudReq.failed \subseteq r.failed /\ r.pc \in {"typed", "list"}
        /\ r.pc = "typed" => \A v \in Providers : Rank[v] < r.at => PassedOver(market, v, r)
        /\ r.pc = "list" => \A v \in Providers : PassedOver(market, v, r)
    <3>1. CASE cloudReq' = Next1
      <4>1. {o} \in SUBSET C!Offers /\ <<p, cloudReq.type>> \in {o}
        BY <1>4
      <4> HIDE DEF o
      <4> QED
        BY <1>1, <1>4, <3>1, <4>1, GoesToNext
    <3>2. CASE cloudReq' = Next0 /\ PassedOver(market, p, cloudReq)
      <4>1. {} \in SUBSET C!Offers
        OBVIOUS
      <4> QED
        BY <1>1, <1>4, <3>2, <4>1, GoesToNext
    <3> QED
      BY <1>8, <3>1, <3>2
  <2> HIDE DEF r, Next0, Next1
  <2>2. r = cloudReq'
    BY DEF r
  <2> QED
    BY <1>1, <1>8, <2>1, <2>2, RequestGoesOn
<1>9. CASE /\ UNCHANGED instances
           /\ cloudReq' = Next1 \/ (cloudReq' = Next0 /\ PassedOver(market, p, cloudReq))
  <2>1. cloudCalls \in Nat /\ cloudCalls <= cloudCalls'
    BY <1>1 DEF CloudInv, CloudTypes
  <2>2. \A i \in instances' : i.known = "answered" => i.for.id # cloudReq.id
    BY <1>1, <1>9 DEF CloudInv, Searching
  <2> HIDE DEF Next0, Next1
  <2> QED
    BY <1>1, <1>8, <1>9, <2>1, <2>2, InstancesStay
<1>10. CASE ~C!TooDear(o) /\ C!Answered(o) /\ C!Return
  <2>1. /\ instances' \subseteq Instances
        /\ \A i \in instances' : i.for.id <= cloudCalls'
        /\ (C!OneAnswerPerRequest /\ C!WithinMaxPrice /\ C!OtherTypeOnlyByFailure)'
    BY <1>1, <1>3, <1>10, ProviderCall
  <2> QED
    BY <1>1, <1>10, <2>1, RequestReturns
<1>11. CASE ~C!TooDear(o) /\ C!Raised(o) /\ cloudReq' = Next1
  <2>1. /\ instances' \subseteq Instances
        /\ \A i \in instances' : i.for.id <= cloudCalls'
        /\ (C!OneAnswerPerRequest /\ C!WithinMaxPrice /\ C!OtherTypeOnlyByFailure)'
        /\ \A i \in instances' : i.known = "answered" => i.for.id # cloudReq.id
    BY <1>1, <1>3, <1>11, ProviderCall
  <2> HIDE DEF Next0, Next1
  <2> QED
    BY <1>8, <1>11, <2>1
<1> HIDE DEF Next0, Next1, o
<1> QED
  BY <1>2, <1>5, <1>6, <1>7, <1>9, <1>10, <1>11 DEF o, t

LEMMA Listing ==
  ASSUME CloudInv, C!get_cheapest_gpus PROVE CloudInv'
<1>1. /\ cloudReq.pc = "list" /\ market' = market /\ cloudCalls' = cloudCalls /\ instances' = instances
  BY DEF C!get_cheapest_gpus
<1>2. PICK O \in SUBSET C!Offers : cloudReq' = [cloudReq EXCEPT !.pc = "cheapest", !.offers = O]
  <2>1. PICK up \in SUBSET Providers :
          cloudReq' = [cloudReq EXCEPT !.pc = "cheapest",
                         !.offers = {o \in C!Offers : o[1] \in up /\ C!Price(o) # C!Absent}]
    BY DEF C!get_cheapest_gpus
  <2>2. {o \in C!Offers : o[1] \in up /\ C!Price(o) # C!Absent} \in SUBSET C!Offers
    OBVIOUS
  <2> QED
    BY <2>1, <2>2
<1>3. cloudReq \in LaunchRequests /\ cloudCalls \in Nat
  BY DEF CloudInv, CloudTypes
<1> DEFINE r == [cloudReq EXCEPT !.pc = "cheapest", !.offers = O]
<1>4. /\ r \in LaunchRequests /\ r.id = cloudReq.id /\ r.type = cloudReq.type /\ r.max = cloudReq.max
      /\ r.failed = cloudReq.failed /\ r.pc = "cheapest"
  BY <1>3 DEF LaunchRequests
<1>5. cloudReq' = r
  BY <1>2
<1>6. \A i \in instances' : i.known = "answered" => i.for.id # cloudReq.id
  BY <1>1 DEF CloudInv, Searching
<1> HIDE DEF r
<1>7. /\ instances' \subseteq Instances
      /\ \A i \in instances' : i.for.id <= cloudCalls'
      /\ (C!OneAnswerPerRequest /\ C!WithinMaxPrice /\ C!OtherTypeOnlyByFailure)'
  BY <1>1, <1>3, InstancesStay
<1> QED
  BY <1>1, <1>4, <1>5, <1>6, <1>7, RequestGoesOn

LEMMA CheapestFirst ==
  ASSUME CloudInv, C!cheapest PROVE CloudInv'
<1>1. /\ cloudReq.pc = "cheapest" /\ market' = market /\ cloudCalls' = cloudCalls
  BY DEF C!cheapest
<1>2. /\ cloudReq \in LaunchRequests /\ cloudCalls \in Nat /\ cloudReq.offers \subseteq C!Offers
      /\ cloudCalls <= cloudCalls'
  BY <1>1 DEF CloudInv, CloudTypes, LaunchRequests
<1>3. CASE cloudReq.offers = {} /\ C!Return /\ UNCHANGED instances
  <2>1. /\ instances' \subseteq Instances
        /\ \A i \in instances' : i.for.id <= cloudCalls'
        /\ (C!OneAnswerPerRequest /\ C!WithinMaxPrice /\ C!OtherTypeOnlyByFailure)'
    BY <1>1, <1>2, <1>3, InstancesStay
  <2> QED
    BY <1>1, <1>3, <2>1, RequestReturns
<1>4. ASSUME NEW o \in C!Cheapest,
             \/ C!TooDear(o) /\ cloudReq' = [cloudReq EXCEPT !.offers = @ \ {o}] /\ UNCHANGED instances
             \/ ~C!TooDear(o) /\ C!Answered(o) /\ cloudReq' = C!Launched(o)
             \/ ~C!TooDear(o) /\ C!Raised(o) /\ cloudReq' = [cloudReq EXCEPT !.offers = @ \ {o}]
      PROVE  CloudInv'
  <2>1. o \in C!Offers
    BY <1>2 DEF C!Cheapest
  <2>2. PICK p \in Providers, t \in Types : o = <<p, t>>
    BY <2>1 DEF C!Offers
  <2>3. cloudReq.type \notin {AnyType, t} => \A v \in Providers : PassedOver(market, v, cloudReq)
    BY <1>1 DEF CloudInv, Searching
  <2> DEFINE r == [cloudReq EXCEPT !.offers = @ \ {o}]
  <2>4. /\ r \in LaunchRequests /\ r.id = cloudReq.id /\ r.type = cloudReq.type /\ r.max = cloudReq.max
        /\ r.failed = cloudReq.failed /\ r.pc = "cheapest"
    BY <1>1, <1>2 DEF LaunchRequests
  <2>5. CASE C!TooDear(o) /\ cloudReq' = r /\ UNCHANGED instances
    <3> HIDE DEF r
    <3>1. /\ instances' \subseteq Instances
          /\ \A i \in instances' : i.for.id <= cloudCalls'
          /\ (C!OneAnswerPerRequest /\ C!WithinMaxPrice /\ C!OtherTypeOnlyByFailure)'
      BY <1>1, <1>2, <2>5, InstancesStay
    <3>2. \A i \in instances' : i.known = "answered" => i.for.id # cloudReq.id
      BY <1>1, <2>5 DEF CloudInv, Searching
    <3> QED
      BY <1>1, <2>4, <2>5, <3>1, <3>2, RequestGoesOn
  <2>6. CASE ~C!TooDear(o) /\ C!Answered(o) /\ cloudReq' = C!Launched(o)
    <3>1. C!Return
      BY <2>6 DEF C!Return, C!Launched
    <3>2. /\ instances' \subseteq Instances
          /\ \A i \in instances' : i.for.id <= cloudCalls'
          /\ (C!OneAnswerPerRequest /\ C!WithinMaxPrice /\ C!OtherTypeOnlyByFailure)'
      BY <1>1, <2>2, <2>3, <2>6, ProviderCall
    <3> QED
      BY <1>1, <3>1, <3>2, RequestReturns
  <2>7. CASE ~C!TooDear(o) /\ C!Raised(o) /\ cloudReq' = r
    <3> HIDE DEF r
    <3>1. /\ instances' \subseteq Instances
          /\ \A i \in instances' : i.for.id <= cloudCalls'
          /\ (C!OneAnswerPerRequest /\ C!WithinMaxPrice /\ C!OtherTypeOnlyByFailure)'
          /\ \A i \in instances' : i.known = "answered" => i.for.id # cloudReq.id
      BY <1>1, <2>2, <2>3, <2>7, ProviderCall
    <3> QED
      BY <1>1, <2>4, <2>7, <3>1, RequestGoesOn
  <2> QED
    BY <1>4, <2>5, <2>6, <2>7
<1> QED
  BY <1>3, <1>4 DEF C!cheapest

(* Stopping and deleting take an instance away or leave it stopped.        *)
LEMMA InstanceLeaves ==
  ASSUME CloudInv, NEW i \in instances, C!stop_instance(i) \/ C!delete_instance(i)
  PROVE  CloudInv'
<1> DEFINE j == [i EXCEPT !.st = "stopped"]
<1>1. i \in Instances /\ i.known = "answered"
  BY DEF CloudInv, CloudTypes, C!stop_instance, C!delete_instance
<1>2. /\ j \in Instances /\ j.for = i.for /\ j.provider = i.provider /\ j.type = i.type
      /\ j.known = i.known
  BY <1>1 DEF Instances
<1>3. /\ instances' = instances \ {i} \/ instances' = (instances \ {i}) \cup {j}
      /\ market' = market /\ cloudReq' = cloudReq /\ cloudCalls' = cloudCalls
  BY DEF C!stop_instance, C!delete_instance
<1> HIDE DEF j
<1>4. CloudTypes'
  BY <1>2, <1>3 DEF CloudInv, CloudTypes
<1>5. Searching'
  BY <1>1, <1>2, <1>3 DEF CloudInv, Searching
<1>6. C!OneAnswerPerRequest'
  BY <1>1, <1>2, <1>3 DEF CloudInv, C!OneAnswerPerRequest
<1>7. C!WithinMaxPrice'
  BY <1>2, <1>3 DEF CloudInv, C!WithinMaxPrice, C!Price
<1>8. C!OtherTypeOnlyByFailure'
  BY <1>2, <1>3 DEF CloudInv, C!OtherTypeOnlyByFailure, C!Price
<1> QED
  BY <1>4, <1>5, <1>6, <1>7, <1>8 DEF CloudInv

LEMMA CloudStep == CloudInv /\ [C!Next]_cloudVars => CloudInv'
<1> SUFFICES ASSUME CloudInv, [C!Next]_cloudVars PROVE CloudInv'
  OBVIOUS
<1>1. ASSUME NEW p \in Providers, NEW t \in Types, NEW max \in MaxPrices,
             C!launch_instance("direct", p, t, max)
      PROVE  CloudInv'
  BY <1>1, LaunchBegins
<1>2. ASSUME NEW p, NEW t \in Types, NEW max \in MaxPrices, C!launch_instance("typed", p, t, max)
      PROVE  CloudInv'
  BY <1>2, LaunchBegins
<1>3. ASSUME NEW p, NEW max \in MaxPrices, C!launch_instance("list", p, AnyType, max)
      PROVE  CloudInv'
  BY <1>3, LaunchBegins
<1>4. CASE UNCHANGED cloudVars
  <2>1. /\ market' = market /\ cloudReq' = cloudReq /\ instances' = instances /\ cloudCalls' = cloudCalls
    BY <1>4 DEF cloudVars
  <2>2. CloudTypes' /\ Searching'
    BY <2>1 DEF CloudInv, CloudTypes, Searching
  <2> QED
    BY <2>1, <2>2 DEF CloudInv, C!OneAnswerPerRequest, C!WithinMaxPrice, C!OtherTypeOnlyByFailure, C!Price
<1> QED
  BY <1>1, <1>2, <1>3, <1>4, Direct, Typed, Listing, CheapestFirst, InstanceLeaves DEF C!Next

LEMMA CloudSafe ==
  ASSUME CloudInv
  PROVE  C!TypeOK /\ C!OneAnswerPerRequest /\ C!WithinMaxPrice /\ C!OtherTypeOnlyByFailure
BY DEF CloudInv, CloudTypes, LaunchRequests, Instances, C!TypeOK, C!Offers

(* What an account is charged and given, for any number of overlapping     *)
(* transactions and any market (gang_repository.py, cloud/manager.py): a   *)
(* bucket is doubled, or loses a charge or a part of its period, only by a *)
(* commit on a stale read, and without one it counts a task a second time  *)
(* only when update_fair_share_usage charges it again; a launch answers    *)
(* with one instance, within the price asked for, and of another type only *)
(* when every provider of the type has nothing.                            *)
THEOREM ChargesSound == MCSpec => []ChargesAreSound
<1> DEFINE allVars == <<part, ledgerVars, bridgeVars, merkleVars, spaceVars, friendVars, shareVars,
                        cloudVars>>
<1>1. MCInit => ShareInv /\ CloudInv
  BY ShareInit, CloudInit DEF MCInit
<1>2. [MCNext]_allVars => [B!Next]_shareVars /\ [C!Next]_cloudVars
  BY DEF MCNext
<1>3. ShareInv /\ CloudInv => ChargesAreSound
  BY ShareSafe, CloudSafe DEF ChargesAreSound
<1> QED
  BY <1>1, <1>2, <1>3, ShareStep, CloudStep, PTL DEF MCSpec

-----------------------------------------------------------------------------
(* The ledger, for any validators, sessions and numbers of transactions.   *)

SessionRows ==
  [pc : {"idle", "nonce", "insert", "inserted", "pending", "persist",
         "approve", "finalize", "rebuild"},
   tx : 0..MaxTx, txs : SUBSET L!Tx, at : Nat, approvals : SUBSET Validators,
   state : SUBSET L!Tx]

LedgerTypes ==
  /\ chain \in Seq(L!LedgerBlock) /\ txAt \in [L!Tx -> Int]
  /\ balances \subseteq L!Tx /\ active \subseteq Validators
  /\ settings \in [auto_seal : BOOLEAN, extra : SUBSET Validators]
  /\ ses \in [Sessions -> SessionRows] /\ ops \in 0..MaxOps

(* A transaction that is in a block is in a block of the chain.            *)
Placed == \A n \in L!Tx : txAt[n] \in {L!Absent, L!Pending} \cup DOMAIN chain

(* Nonces grow from block to block, and every block but the first has some.*)
NoncesGrow ==
  /\ \A i, j \in DOMAIN chain : i < j => \A m \in chain[i].txs, n \in chain[j].txs : m < n
  /\ \A i \in DOMAIN chain : i = 1 <=> chain[i].txs = {}

Above(txs) == \A i \in DOMAIN chain : \A m \in chain[i].txs, n \in txs : m < n

(* Transactions that may be credited.                                      *)
Paid == UNION {chain[i].txs : i \in L!HadQuorum}

(* What a session has read is old.  A seal knows that the block it builds  *)
(* on had its quorum, and that its nonces are above those of the chain as  *)
(* long as that is the tip; whoever pays knows that what it pays for had   *)
(* its quorum, but for the block that it finalizes itself.                 *)
RowOK(o) ==
  /\ o.pc \in {"pending", "persist"} => o.txs # {}
  /\ o.pc = "persist" => /\ o.at \in L!HadQuorum /\ o.state \subseteq Paid \cup o.txs
                         /\ o.at = Len(chain) => Above(o.txs)
  /\ o.pc \in {"finalize", "approve"} => /\ o.at \in DOMAIN chain /\ Relay \in o.approvals
                                         /\ o.approvals \subseteq active
  /\ o.pc = "approve" /\ L!Cardinality(o.approvals) >= Quorum =>
       o.state \subseteq Paid \cup chain[o.at].txs
  /\ o.pc = "rebuild" => o.state \subseteq Paid

(* A session that has inserted its transaction and not committed holds the *)
(* nonce: no row has it yet, and no other session.  What a seal has listed *)
(* is in the table or its own.                                             *)
Holds(o) == o.pc \in {"inserted", "pending", "persist"} /\ o.tx # 0

InsertOK(o) ==
  /\ Holds(o) => txAt[o.tx] = L!Absent
  /\ o.pc \in {"pending", "persist"} => \A m \in o.txs : txAt[m] # L!Absent \/ m = o.tx

OneHolder ==
  \A s, x \in Sessions : s # x /\ Holds(ses[s]) /\ Holds(ses[x]) => ses[s].tx # ses[x].tx

LedgerInv ==
  /\ LedgerTypes /\ Placed /\ NoncesGrow
  /\ L!ChainIntact /\ L!ProposalIsLast /\ L!CreditsAreFinal /\ L!NothingLeftPending
  /\ \A i \in DOMAIN chain : L!verify_header_signatures(i)
  /\ \A s \in Sessions : RowOK(ses[s]) /\ InsertOK(ses[s])
  /\ OneHolder

-----------------------------------------------------------------------------
LEMMA LedgerInit == L!Init => LedgerInv
<1> SUFFICES ASSUME L!Init PROVE LedgerInv
  OBVIOUS
<1>1. chain = <<>> /\ DOMAIN chain = {} /\ chain \in Seq(L!LedgerBlock)
  BY DEF L!Init
<1>2. L!Idle \in SessionRows /\ L!Idle.pc = "idle"
  BY LedgerAssumption DEF L!Idle, SessionRows, L!Tx
<1>3. LedgerTypes
  BY <1>1, <1>2, LedgerAssumption DEF L!Init, LedgerTypes, L!Absent, L!Tx
<1>4. OneHolder /\ \A s \in Sessions : RowOK(ses[s]) /\ InsertOK(ses[s])
  BY <1>2 DEF L!Init, RowOK, InsertOK, OneHolder, Holds
<1> QED
  BY <1>1, <1>3, <1>4 DEF L!Init, LedgerInv, Placed, NoncesGrow, L!ChainIntact, L!ProposalIsLast,
     L!CreditsAreFinal, L!NothingLeftPending, L!Absent, L!Pending

(* What a session knows stays true while blocks are added, approvals and   *)
(* flags change, and validators are registered.                            *)
LEMMA RowKept ==
  ASSUME chain \in Seq(L!LedgerBlock), chain' \in Seq(L!LedgerBlock), Len(chain) <= Len(chain'),
         \A i \in DOMAIN chain : chain'[i].txs = chain[i].txs,
         L!HadQuorum \subseteq L!HadQuorum', active \subseteq active',
         NEW o \in SessionRows, RowOK(o)
  PROVE  RowOK(o)'
<1>1. DOMAIN chain = 1..Len(chain) /\ DOMAIN chain' = 1..Len(chain') /\ Len(chain) \in Nat /\ Len(chain') \in Nat
  OBVIOUS
<1>2. L!HadQuorum \subseteq DOMAIN chain
  BY DEF L!HadQuorum
<1>3. Paid \subseteq Paid'
  BY <1>2 DEF Paid
<1>4. o.pc = "persist" /\ o.at = Len(chain') => Above(o.txs)'
  <2> SUFFICES ASSUME o.pc = "persist", o.at = Len(chain') PROVE Above(o.txs)'
    OBVIOUS
  <2>1. o.at \in L!HadQuorum
    BY DEF RowOK
  <2>2. o.at \in 1..Len(chain)
    BY <1>1, <1>2, <2>1, Zenon
  <2>3. Len(chain') = Len(chain)
    <3>1. PICK k \in Nat : k = Len(chain')
      BY <1>1
    <3>2. PICK m \in Nat : m = Len(chain)
      BY <1>1
    <3>3. k \in 1..m /\ m <= k
      BY <2>2, <3>1, <3>2
    <3>4. k = m
      BY ONLY <3>3, m \in Nat, k \in Nat
    <3> QED
      BY <3>1, <3>2, <3>4
  <2> QED
    BY <1>1, <2>3 DEF RowOK, Above
<1> QED
  BY <1>1, <1>2, <1>3, <1>4 DEF RowOK

(* A step that changes a session alone.                                    *)
LEMMA SessionStep ==
  ASSUME LedgerInv, NEW s \in Sessions, NEW o \in SessionRows, RowOK(o), ses' = [ses EXCEPT ![s] = o],
         InsertOK(o),
         Holds(o) => \/ Holds(ses[s]) /\ o.tx = ses[s].tx
                     \/ L!Inserted(o.tx) = {},
         UNCHANGED <<chain, txAt, balances, active, settings>>, ops' \in 0..MaxOps
  PROVE  LedgerInv'
<1>3. \A x \in Sessions : InsertOK(ses[x])'
  BY DEF LedgerInv, LedgerTypes, InsertOK, Holds
<1>4. ses \in [Sessions -> SessionRows]
  BY DEF LedgerInv, LedgerTypes
<1>5. ASSUME NEW x \in Sessions, x # s, Holds(ses[x]), Holds(o) PROVE ses[x].tx # o.tx
  <2>1. CASE Holds(ses[s]) /\ o.tx = ses[s].tx
    BY <1>5, <2>1 DEF LedgerInv, OneHolder
  <2>2. CASE L!Inserted(o.tx) = {}
    BY <1>5, <2>2 DEF L!Inserted, Holds
  <2> QED
    BY <1>5, <2>1, <2>2
<1>6. OneHolder'
  <2>1. ses'[s] = o /\ \A x \in Sessions : x # s => ses'[x] = ses[x]
    BY <1>4
  <2>2. OneHolder
    BY DEF LedgerInv
  <2> QED
    BY <1>5, <2>1, <2>2 DEF OneHolder, Holds
<1>1. \A x \in Sessions : RowOK(ses[x])'
  BY DEF LedgerInv, LedgerTypes, RowOK, Paid, L!HadQuorum, Above
<1>2. LedgerTypes'
  BY DEF LedgerInv, LedgerTypes
<1> QED
  BY <1>1, <1>2, <1>3, <1>6 DEF LedgerInv, Placed, NoncesGrow, L!ChainIntact, L!ProposalIsLast,
     L!CreditsAreFinal, L!HadQuorum, L!NothingLeftPending, L!verify_header_signatures

LEMMA IdleRow ==
  /\ L!Idle \in SessionRows /\ L!Idle.pc = "idle" /\ L!Idle.tx = 0
  /\ RowOK(L!Idle) /\ InsertOK(L!Idle) /\ ~Holds(L!Idle)
BY LedgerAssumption DEF L!Idle, SessionRows, L!Tx, RowOK, InsertOK, Holds

(* The finalized tip is one of the finalized blocks.                       *)
LEMMA TipIsFinal ==
  ASSUME chain \in Seq(L!LedgerBlock), L!Final # {}
  PROVE  L!Max(L!Final) \in L!Final
<1>1. PICK top \in Nat : L!Final \subseteq 1..top
  BY DEF L!Final
<1> DEFINE S == {top - i : i \in L!Final}
<1>2. S \subseteq Nat /\ S # {}
  <2>1. ASSUME NEW i \in L!Final PROVE top - i \in Nat
    BY <1>1
  <2> QED
    BY <2>1
<1> HIDE DEF S
<1>3. PICK k \in S : \A m \in S : k <= m
  BY <1>2, LeastOf
<1>4. PICK i \in L!Final : k = top - i
  BY DEF S
<1>5. ASSUME NEW j \in L!Final PROVE i >= j
  <2>1. top - j \in S
    BY DEF S
  <2> QED
    BY <1>1, <1>3, <1>4, <2>1
<1> QED
  BY <1>5 DEF L!Max

LEMMA SessionFields ==
  ASSUME LedgerInv, NEW s \in Sessions
  PROVE  ses[s] \in SessionRows /\ RowOK(ses[s]) /\ InsertOK(ses[s])
BY DEF LedgerInv, LedgerTypes

LEMMA RollbackStep ==
  ASSUME LedgerInv, NEW s \in Sessions, L!Rollback(s), UNCHANGED <<settings, ops>>
  PROVE  LedgerInv'
<1>1. ops' \in 0..MaxOps
  BY DEF LedgerInv, LedgerTypes
<1>2. PICK o \in SessionRows : o = L!Idle /\ RowOK(o) /\ InsertOK(o) /\ ~Holds(o)
  BY IdleRow
<1> QED
  BY <1>1, <1>2, SessionStep DEF L!Rollback, L!Step

LEMMA RequestBegins ==
  ASSUME LedgerInv, NEW s \in Sessions, L!BeginSubmit(s) \/ L!BeginSeal(s)
  PROVE  LedgerInv'
<1>1. ops' \in 0..MaxOps
  BY LedgerAssumption DEF LedgerInv, LedgerTypes, L!BeginSubmit, L!BeginSeal, L!Begin
<1>2. PICK pc \in {"nonce", "inserted"} : L!Begin(s, pc)
  BY DEF L!BeginSubmit, L!BeginSeal
<1> DEFINE w == [L!Idle EXCEPT !.pc = pc]
<1>3. w \in SessionRows /\ w.pc = pc /\ w.tx = 0
  BY IdleRow DEF SessionRows
<1>4. PICK o \in SessionRows : o = w /\ RowOK(o) /\ InsertOK(o) /\ ~Holds(o)
  BY <1>3 DEF RowOK, InsertOK, Holds
<1> QED
  BY <1>1, <1>2, <1>4, SessionStep DEF L!Begin, L!Step

LEMMA NonceRead ==
  ASSUME LedgerInv, NEW s \in Sessions, NEW W, W \subseteq L!Tx, L!ReadNonce(s, W)
  PROVE  LedgerInv'
<1>1. ops' \in 0..MaxOps
  BY DEF LedgerInv, LedgerTypes, L!ReadNonce
<1>2. PICK n \in W : ses' = [ses EXCEPT ![s] = [ses[s] EXCEPT !.pc = "insert", !.tx = n]]
  BY DEF L!ReadNonce, L!Step
<1> DEFINE w == [ses[s] EXCEPT !.pc = "insert", !.tx = n]
<1>3. w \in SessionRows /\ w.pc = "insert"
  <2>1. n \in 0..MaxTx
    BY LedgerAssumption DEF L!Tx
  <2> QED
    BY <2>1, SessionFields DEF SessionRows
<1> HIDE DEF w
<1>4. PICK o \in SessionRows : o = w /\ RowOK(o) /\ InsertOK(o) /\ ~Holds(o)
  BY <1>3 DEF RowOK, InsertOK, Holds
<1> QED
  BY <1>1, <1>2, <1>4, SessionStep DEF L!ReadNonce, w

LEMMA TransactionInserted ==
  ASSUME LedgerInv, NEW s \in Sessions, L!add_pending_transaction(s)
  PROVE  LedgerInv'
<1>1. ops' \in 0..MaxOps
  BY DEF LedgerInv, LedgerTypes, L!add_pending_transaction
<1>2. CASE L!Rollback(s)
  BY <1>2, RollbackStep DEF L!add_pending_transaction
<1>3. CASE ~L!Rollback(s)
  <2> DEFINE w == [ses[s] EXCEPT !.pc = "inserted"]
  <2>1. w \in SessionRows /\ w.pc = "inserted" /\ w.tx = ses[s].tx
    BY SessionFields DEF SessionRows
  <2>2. /\ ses' = [ses EXCEPT ![s] = w] /\ L!Inserted(w.tx) = {} /\ txAt[w.tx] = L!Absent
        /\ UNCHANGED <<chain, txAt, balances, active, settings>>
    BY <1>3, <2>1 DEF L!add_pending_transaction, L!Step
  <2> HIDE DEF w
  <2>3. PICK o \in SessionRows : o = w /\ RowOK(o) /\ InsertOK(o)
    BY <2>1, <2>2 DEF RowOK, InsertOK
  <2> QED
    BY <1>1, <2>2, <2>3, SessionStep
<1> QED
  BY <1>2, <1>3

LEMMA PendingRead ==
  ASSUME LedgerInv, NEW s \in Sessions, L!ReadPending(s)
  PROVE  LedgerInv'
<1>1. ops' \in 0..MaxOps
  BY DEF LedgerInv, LedgerTypes, L!ReadPending
<1>2. CASE L!Rollback(s)
  BY <1>2, RollbackStep DEF L!ReadPending
<1>3. CASE ~L!Rollback(s)
  <2> DEFINE T == L!list_pending_transactions(s)
  <2>1. T \subseteq L!Tx
    BY SessionFields DEF SessionRows, L!list_pending_transactions, L!Tx
  <2>2. T # {} /\ ses' = [ses EXCEPT ![s] = [ses[s] EXCEPT !.pc = "pending", !.txs = T]]
        /\ UNCHANGED <<chain, txAt, balances, active, settings>>
    BY <1>3 DEF L!ReadPending, L!Step
  <2> HIDE DEF T
  <2> DEFINE w == [ses[s] EXCEPT !.pc = "pending", !.txs = T]
  <2>3. w \in SessionRows /\ w.pc = "pending" /\ w.txs = T /\ w.tx = ses[s].tx
    BY <2>1, SessionFields DEF SessionRows
  <2>4. Holds(w) => Holds(ses[s]) /\ w.tx = ses[s].tx
    BY <2>3 DEF Holds, L!ReadPending
  <2>5. ses' = [ses EXCEPT ![s] = w]
    BY <2>2
  <2> HIDE DEF w
  <2>6. \A m \in T : txAt[m] # L!Absent \/ m = ses[s].tx
    BY DEF T, L!list_pending_transactions, L!Absent, L!Pending
  <2>7. InsertOK(w)
    BY <2>3, <2>4, <2>6, SessionFields DEF InsertOK
  <2>8. PICK o \in SessionRows : o = w /\ RowOK(o)
    BY <2>2, <2>3 DEF RowOK
  <2> QED
    BY <1>1, <2>2, <2>4, <2>5, <2>7, <2>8, SessionStep
<1> QED
  BY <1>2, <1>3

LEMMA BlockFields ==
  ASSUME chain \in Seq(L!LedgerBlock), NEW i \in DOMAIN chain
  PROVE  /\ chain[i] \in L!LedgerBlock /\ chain[i].txs \subseteq L!Tx
         /\ chain[i].approvals \subseteq Validators
         /\ chain[i].final \in BOOLEAN /\ chain[i].cleared \in BOOLEAN
<1>1. chain[i] \in L!LedgerBlock
  OBVIOUS
<1> QED
  BY <1>1 DEF L!LedgerBlock

LEMMA SealedIsPaid ==
  ASSUME chain \in Seq(L!LedgerBlock)
  PROVE  /\ L!list_sealed_transactions \subseteq Paid /\ Paid \subseteq L!Tx
         /\ L!list_sealed_transactions \subseteq L!Tx
<1>1. \A i \in DOMAIN chain : chain[i].txs \subseteq L!Tx
  BY BlockFields
<1>2. L!Final \subseteq L!HadQuorum /\ L!HadQuorum \subseteq DOMAIN chain
  BY DEF L!Final, L!HadQuorum
<1> QED
  BY <1>1, <1>2 DEF L!list_sealed_transactions, Paid

(* The replay of the finalized transactions puts the nonces of the seal    *)
(* above those of the tip, hence above all.                                *)
LEMMA TipRead ==
  ASSUME LedgerInv, NEW s \in Sessions, L!ReadTip(s)
  PROVE  LedgerInv'
<1>1. ops' \in 0..MaxOps
  BY DEF LedgerInv, LedgerTypes, L!ReadTip
<1>2. CASE L!Rollback(s)
  BY <1>2, RollbackStep DEF L!ReadTip
<1>3. CASE ~L!Rollback(s)
  <2> DEFINE tip == L!Max(L!Final)
             T == L!list_sealed_transactions
  <2>1. /\ ses[s].pc = "pending" /\ L!Final # {} /\ L!apply_transaction(T, ses[s].txs)
        /\ ses' = [ses EXCEPT ![s] = [ses[s] EXCEPT !.pc = "persist", !.at = tip,
                                                    !.state = T \cup ses[s].txs]]
        /\ UNCHANGED <<chain, txAt, balances, active, settings>>
    BY <1>3 DEF L!ReadTip, L!Step
  <2>2. chain \in Seq(L!LedgerBlock)
    BY DEF LedgerInv, LedgerTypes
  <2>3. tip \in L!Final
    BY <2>1, <2>2, TipIsFinal
  <2>4. tip \in L!HadQuorum /\ tip \in Nat /\ tip \in DOMAIN chain
    BY <2>2, <2>3 DEF L!Final, L!HadQuorum
  <2>5. T \subseteq Paid /\ T \subseteq L!Tx
    BY <2>2, SealedIsPaid
  <2>6. tip = Len(chain) => Above(ses[s].txs)
    <3> SUFFICES ASSUME tip = Len(chain), NEW i \in DOMAIN chain, NEW m \in chain[i].txs,
                        NEW n \in ses[s].txs
                 PROVE  m < n
      BY DEF Above
    <3>1. n \in Int /\ m \in Int
      <4>1. n \in L!Tx
        BY SessionFields DEF SessionRows
      <4>2. m \in L!Tx
        BY <2>2, BlockFields
      <4> QED
        BY <4>1, <4>2 DEF L!Tx
    <3>2. ASSUME NEW k \in chain[tip].txs PROVE k < n /\ k \in Int
      <4>1. k \in T /\ k \in Int
        BY <2>2, <2>3, <2>5 DEF L!list_sealed_transactions, L!Tx
      <4> QED
        BY <2>1, <3>1, <4>1 DEF L!apply_transaction
    <3>3. CASE i = tip
      BY <3>2, <3>3
    <3>4. CASE i # tip
      <4>1. i < tip /\ tip # 1
        BY <2>2, <2>4, <3>4
      <4>2. PICK k \in chain[tip].txs : m < k
        BY <2>4, <4>1 DEF LedgerInv, NoncesGrow
      <4> QED
        BY <3>1, <3>2, <4>2
    <3> QED
      BY <3>3, <3>4
  <2> HIDE DEF tip, T
  <2> DEFINE w == [ses[s] EXCEPT !.pc = "persist", !.at = tip, !.state = T \cup ses[s].txs]
  <2>7. /\ w \in SessionRows
        /\ w.pc = "persist" /\ w.at = tip /\ w.state = T \cup ses[s].txs /\ w.txs = ses[s].txs
        /\ w.tx = ses[s].tx
    BY <2>4, <2>5, SessionFields DEF SessionRows
  <2>9. ses' = [ses EXCEPT ![s] = w]
    BY <2>1
  <2> HIDE DEF w
  <2>10. (Holds(w) => Holds(ses[s]) /\ w.tx = ses[s].tx) /\ InsertOK(w)
    BY <2>1, <2>7, SessionFields DEF InsertOK, Holds
  <2>8. PICK o \in SessionRows : o = w /\ RowOK(o)
    <3>1. ses[s].txs # {}
      BY <2>1, SessionFields DEF RowOK
    <3> QED
      BY <2>4, <2>5, <2>6, <2>7, <3>1 DEF RowOK
  <2> QED
    BY <1>1, <2>1, <2>8, <2>9, <2>10, SessionStep
<1> QED
  BY <1>2, <1>3

LEMMA ApprovalBegins ==
  ASSUME LedgerInv, NEW s \in Sessions, NEW v \in Validators, L!BeginApprove(s, v)
  PROVE  LedgerInv'
<1>1. ops' \in 0..MaxOps
  BY LedgerAssumption DEF LedgerInv, LedgerTypes, L!BeginApprove
<1>2. PICK i \in DOMAIN chain, pc \in {"finalize", "approve"} :
        /\ ses' = [ses EXCEPT ![s] = [L!Idle EXCEPT !.at = i, !.approvals = chain[i].approvals \cup {v},
                                                    !.pc = pc]]
        /\ pc = "approve" => ~(L!Cardinality(chain[i].approvals \cup {v}) >= Quorum)
  <2>1. PICK i \in DOMAIN chain :
          ses' = [ses EXCEPT ![s] = [L!Idle EXCEPT !.at = i, !.approvals = chain[i].approvals \cup {v},
                    !.pc = IF L!Cardinality(chain[i].approvals \cup {v}) >= Quorum
                           THEN "finalize" ELSE "approve"]]
    BY DEF L!BeginApprove, L!Step
  <2>2. CASE L!Cardinality(chain[i].approvals \cup {v}) >= Quorum
    BY <2>1, <2>2
  <2>3. CASE ~(L!Cardinality(chain[i].approvals \cup {v}) >= Quorum)
    BY <2>1, <2>3
  <2> QED
    BY <2>2, <2>3
<1> DEFINE w == [L!Idle EXCEPT !.at = i, !.approvals = chain[i].approvals \cup {v}, !.pc = pc]
<1>3. w \in SessionRows /\ w.pc = pc /\ w.at = i /\ w.approvals = chain[i].approvals \cup {v}
  <2>1. i \in Nat /\ chain[i].approvals \cup {v} \subseteq Validators
    BY BlockFields DEF LedgerInv, LedgerTypes
  <2> QED
    BY <2>1, IdleRow DEF SessionRows
<1>4. Relay \in w.approvals /\ w.approvals \subseteq active
  <2>1. Relay \in chain[i].approvals /\ chain[i].approvals \subseteq active
    BY DEF LedgerInv, L!verify_header_signatures
  <2> QED
    BY <1>3, <2>1 DEF L!BeginApprove
<1> HIDE DEF w
<1>5. PICK o \in SessionRows : o = w /\ RowOK(o) /\ InsertOK(o) /\ ~Holds(o)
  BY <1>2, <1>3, <1>4 DEF RowOK, InsertOK, Holds
<1> QED
  BY <1>1, <1>2, <1>5, SessionStep DEF L!BeginApprove, w

LEMMA ApprovalReplayed ==
  ASSUME LedgerInv, NEW s \in Sessions, L!ReplayApproved(s)
  PROVE  LedgerInv'
<1>1. ops' \in 0..MaxOps
  BY DEF LedgerInv, LedgerTypes, L!ReplayApproved
<1>2. CASE L!Rollback(s)
  BY <1>2, RollbackStep DEF L!ReplayApproved
<1>3. CASE ~L!Rollback(s)
  <2> DEFINE T == L!list_sealed_transactions \cup chain[ses[s].at].txs
             w == [ses[s] EXCEPT !.pc = "approve", !.state = T]
  <2>1. /\ ses[s].pc = "finalize" /\ ses' = [ses EXCEPT ![s] = w]
        /\ UNCHANGED <<chain, txAt, balances, active, settings>>
    BY <1>3 DEF L!ReplayApproved, L!Step
  <2>2. chain \in Seq(L!LedgerBlock)
    BY DEF LedgerInv, LedgerTypes
  <2>3. /\ ses[s].at \in DOMAIN chain /\ Relay \in ses[s].approvals
        /\ ses[s].approvals \subseteq active
    BY <2>1, SessionFields DEF RowOK
  <2>4. T \subseteq Paid \cup chain[ses[s].at].txs /\ T \subseteq L!Tx
    BY <2>2, <2>3, SealedIsPaid, BlockFields
  <2> HIDE DEF T
  <2>5. /\ w \in SessionRows /\ w.pc = "approve" /\ w.state = T /\ w.at = ses[s].at
        /\ w.approvals = ses[s].approvals
    BY <2>4, SessionFields DEF SessionRows
  <2> HIDE DEF w
  <2>6. PICK o \in SessionRows : o = w /\ RowOK(o) /\ InsertOK(o) /\ ~Holds(o)
    BY <2>3, <2>4, <2>5 DEF RowOK, InsertOK, Holds
  <2> QED
    BY <1>1, <2>1, <2>6, SessionStep
<1> QED
  BY <1>2, <1>3

LEMMA RebuildBegins ==
  ASSUME LedgerInv, NEW s \in Sessions, L!BeginRebuild(s)
  PROVE  LedgerInv'
<1>1. ops' \in 0..MaxOps
  BY LedgerAssumption DEF LedgerInv, LedgerTypes, L!BeginRebuild
<1> DEFINE w == [L!Idle EXCEPT !.pc = "rebuild", !.state = L!list_sealed_transactions]
<1>2. L!list_sealed_transactions \subseteq Paid /\ L!list_sealed_transactions \subseteq L!Tx
  BY SealedIsPaid DEF LedgerInv, LedgerTypes
<1>3. w \in SessionRows /\ w.pc = "rebuild" /\ w.state = L!list_sealed_transactions
  BY <1>2, IdleRow DEF SessionRows
<1> HIDE DEF w
<1>4. PICK o \in SessionRows : o = w /\ RowOK(o) /\ InsertOK(o) /\ ~Holds(o)
  BY <1>2, <1>3 DEF RowOK, InsertOK, Holds
<1> QED
  BY <1>1, <1>4, SessionStep DEF L!BeginRebuild, L!Step, w

-----------------------------------------------------------------------------
(* The steps that write.                                                   *)

LEMMA GenesisStep == ASSUME LedgerInv, L!ensure_initialized PROVE LedgerInv'
<1> DEFINE b == [txs |-> {}, approvals |-> L!Signers,
                 final |-> L!Cardinality(L!Signers) >= Quorum, cleared |-> FALSE]
<1>1. L!Signers \subseteq Validators /\ Relay \in L!Signers
  BY LedgerAssumption DEF LedgerInv, LedgerTypes, L!Signers
<1>2. /\ b \in L!LedgerBlock /\ b.txs = {} /\ b.approvals = L!Signers /\ b.cleared = FALSE
      /\ b.final = (L!Cardinality(L!Signers) >= Quorum)
  BY <1>1 DEF L!LedgerBlock
<1> HIDE DEF b
<1>3. /\ chain = <<>> /\ chain' = <<b>> /\ active' = L!Signers
      /\ UNCHANGED <<txAt, balances, settings, ses, ops>>
  <2>1. chain' = <<b>>
    BY Zenon DEF L!ensure_initialized, b
  <2> QED
    BY <2>1 DEF L!ensure_initialized
<1>4. /\ DOMAIN chain = {} /\ DOMAIN chain' = {1} /\ chain'[1] = b /\ Len(chain') = 1
      /\ chain' \in Seq(L!LedgerBlock)
  BY <1>2, <1>3
<1>5. LedgerTypes'
  BY <1>1, <1>3, <1>4 DEF LedgerInv, LedgerTypes
<1>6. Placed' /\ NoncesGrow' /\ L!ChainIntact' /\ L!ProposalIsLast' /\ L!NothingLeftPending'
  BY <1>2, <1>3, <1>4 DEF LedgerInv, Placed, NoncesGrow, L!ChainIntact, L!ProposalIsLast,
     L!NothingLeftPending, L!Absent, L!Pending
<1>7. Paid = {} /\ balances = {}
  BY <1>4 DEF Paid, L!HadQuorum, LedgerInv, L!CreditsAreFinal
<1>8. L!CreditsAreFinal'
  BY <1>3, <1>7 DEF L!CreditsAreFinal
<1>9. \A i \in DOMAIN chain' : L!verify_header_signatures(i)'
  <2>1. /\ chain'[1].approvals = L!Signers /\ active' = L!Signers
        /\ chain'[1].final => L!Cardinality(L!Signers) >= Quorum
    BY <1>2, <1>3, <1>4
  <2> QED
    BY <1>1, <1>4, <2>1 DEF L!verify_header_signatures
<1>10. ASSUME NEW x \in Sessions PROVE RowOK(ses[x])'
  <2>1. RowOK(ses[x])
    BY DEF LedgerInv
  <2>2. L!HadQuorum = {}
    BY <1>4 DEF L!HadQuorum
  <2>3. ses'[x] = ses[x] /\ ses[x].pc \notin {"persist", "approve", "finalize"}
    BY <1>3, <1>4, <2>1, <2>2 DEF RowOK
  <2> QED
    BY <1>7, <2>1, <2>3 DEF RowOK
<1>11. OneHolder' /\ \A x \in Sessions : InsertOK(ses[x])'
  BY <1>3 DEF LedgerInv, OneHolder, Holds, InsertOK
<1> QED
  BY <1>5, <1>6, <1>8, <1>9, <1>10, <1>11 DEF LedgerInv

(* What the sessions know when one of them at most ends.                    *)
LEMMA RowsKept ==
  ASSUME LedgerInv, chain' \in Seq(L!LedgerBlock), Len(chain) <= Len(chain'),
         \A i \in DOMAIN chain : chain'[i].txs = chain[i].txs,
         L!HadQuorum \subseteq L!HadQuorum', active \subseteq active',
         \A x \in Sessions : ses'[x] \in {ses[x], L!Idle}
  PROVE  \A x \in Sessions : RowOK(ses[x])'
<1> SUFFICES ASSUME NEW x \in Sessions PROVE RowOK(ses[x])'
  OBVIOUS
<1>1. PICK o \in SessionRows : o = ses'[x] /\ RowOK(o)
  <2>1. ses[x] \in SessionRows /\ RowOK(ses[x])
    BY SessionFields
  <2> QED
    BY <2>1, IdleRow
<1>2. chain \in Seq(L!LedgerBlock)
  BY DEF LedgerInv, LedgerTypes
<1>3. RowOK(o)'
  BY <1>1, <1>2, RowKept
<1> QED
  BY <1>1, <1>3 DEF RowOK

LEMMA HoldersKept ==
  ASSUME LedgerInv, \A x \in Sessions : ses'[x] \in {ses[x], L!Idle}
  PROVE  /\ OneHolder'
         /\ txAt' = txAt => \A x \in Sessions : InsertOK(ses[x])'
<1>1. \A x \in Sessions : Holds(ses[x])' => Holds(ses[x]) /\ ses'[x] = ses[x]
  BY IdleRow DEF Holds
<1>2. OneHolder'
  BY <1>1 DEF LedgerInv, OneHolder
<1>3. ASSUME txAt' = txAt, NEW x \in Sessions PROVE InsertOK(ses[x])'
  BY <1>1, <1>3, IdleRow DEF LedgerInv, InsertOK
<1> QED
  BY <1>2, <1>3

LEMMA ValidatorStep ==
  ASSUME LedgerInv, NEW v \in Validators, L!register_validator(v)
  PROVE  LedgerInv'
<1>1. /\ UNCHANGED <<chain, txAt, balances, settings, ses, ops>>
      /\ active' \subseteq Validators /\ active \subseteq active'
  BY DEF LedgerInv, LedgerTypes, L!register_validator
<1>2. L!HadQuorum' = L!HadQuorum
  BY <1>1 DEF L!HadQuorum
<1>3. LedgerTypes'
  BY <1>1 DEF LedgerInv, LedgerTypes
<1>4. chain' \in Seq(L!LedgerBlock) /\ Len(chain) <= Len(chain')
  BY <1>1 DEF LedgerInv, LedgerTypes
<1>5. \A x \in Sessions : RowOK(ses[x])'
  BY <1>1, <1>2, <1>4, RowsKept
<1>6. OneHolder' /\ \A x \in Sessions : InsertOK(ses[x])'
  BY <1>1, HoldersKept
<1>7. \A i \in DOMAIN chain' : L!verify_header_signatures(i)'
  BY <1>1 DEF LedgerInv, L!verify_header_signatures
<1> QED
  BY <1>1, <1>2, <1>3, <1>5, <1>6, <1>7 DEF LedgerInv, Placed, NoncesGrow, L!ChainIntact,
     L!ProposalIsLast, L!CreditsAreFinal, L!NothingLeftPending

(* The steps that end session s.                                           *)
LEMMA SessionEnds ==
  ASSUME LedgerInv, NEW s \in Sessions, L!Step(s, L!Idle)
  PROVE  ses' \in [Sessions -> SessionRows] /\ \A x \in Sessions : ses'[x] \in {ses[x], L!Idle}
BY IdleRow DEF LedgerInv, LedgerTypes, L!Step

LEMMA PendingCommitted ==
  ASSUME LedgerInv, NEW s \in Sessions, L!CommitPending(s)
  PROVE  LedgerInv'
<1> DEFINE t == ses[s].tx
<1>1. Holds(ses[s]) /\ txAt[t] = L!Absent /\ t \in L!Tx
  <2>1. Holds(ses[s]) /\ t # 0
    BY DEF L!CommitPending, Holds
  <2>2. txAt[t] = L!Absent
    BY <2>1, SessionFields DEF InsertOK
  <2>3. t \in 0..MaxTx
    BY SessionFields DEF SessionRows
  <2> QED
    BY <2>1, <2>2, <2>3 DEF L!Tx
<1>2. /\ txAt' = [txAt EXCEPT ![t] = L!Pending] /\ UNCHANGED <<chain, balances, active, settings, ops>>
      /\ ~settings.auto_seal
  BY DEF L!CommitPending
<1>3. ses' \in [Sessions -> SessionRows] /\ \A x \in Sessions : ses'[x] \in {ses[x], L!Idle}
  BY SessionEnds DEF L!CommitPending
<1>4. txAt \in [L!Tx -> Int] /\ chain \in Seq(L!LedgerBlock)
  BY DEF LedgerInv, LedgerTypes
<1>5. /\ txAt' \in [L!Tx -> Int] /\ txAt'[t] = L!Pending
      /\ \A n \in L!Tx : n # t => txAt'[n] = txAt[n]
  BY <1>1, <1>2, <1>4 DEF L!Pending
<1>6. LedgerTypes'
  BY <1>2, <1>3, <1>5 DEF LedgerInv, LedgerTypes
<1>7. L!HadQuorum' = L!HadQuorum /\ L!CreditsAreFinal'
  BY <1>2 DEF LedgerInv, L!HadQuorum, L!CreditsAreFinal
<1>8. \A x \in Sessions : RowOK(ses[x])'
  <2>1. chain' \in Seq(L!LedgerBlock) /\ Len(chain) <= Len(chain')
    BY <1>2, <1>4
  <2> QED
    BY <1>2, <1>3, <1>7, <2>1, RowsKept
<1>9. OneHolder'
  BY <1>3, HoldersKept
<1>10. ASSUME NEW x \in Sessions PROVE InsertOK(ses[x])'
  <2>1. ses'[x] # ses[x] => ses'[x] = L!Idle
    BY <1>3
  <2>2. ses'[s] = L!Idle
    BY DEF L!CommitPending, L!Step, LedgerInv, LedgerTypes
  <2>3. CASE ses'[x] = L!Idle
    BY <2>3, IdleRow DEF InsertOK, Holds
  <2>4. CASE ses'[x] # L!Idle
    <3>1. ses'[x] = ses[x] /\ x # s
      BY <2>1, <2>2, <2>4
    <3>2. Holds(ses[x]) => ses[x].tx # t
      BY <1>1, <3>1 DEF LedgerInv, OneHolder
    <3>3. ses[x].tx \in 0..MaxTx /\ ses[x].txs \subseteq L!Tx /\ InsertOK(ses[x])
      BY SessionFields DEF SessionRows
    <3>4. Holds(ses[x]) => txAt'[ses[x].tx] = L!Absent
      BY <1>5, <3>2, <3>3 DEF InsertOK, Holds, L!Tx
    <3>5. \A m \in ses[x].txs : txAt[m] # L!Absent => txAt'[m] # L!Absent
      BY <1>5, <3>3 DEF L!Absent, L!Pending
    <3> QED
      BY <3>1, <3>3, <3>4, <3>5 DEF InsertOK, Holds
  <2> QED
    BY <2>3, <2>4
<1>11. Placed'
  BY <1>2, <1>5 DEF LedgerInv, Placed
<1>12. L!ChainIntact'
  <2> SUFFICES ASSUME NEW i \in DOMAIN chain PROVE {n \in L!Tx : txAt'[n] = i} = {n \in L!Tx : txAt[n] = i}
    BY <1>2 DEF LedgerInv, L!ChainIntact
  <2>1. i \in Nat
    BY <1>4
  <2> QED
    BY <1>1, <1>5, <2>1 DEF L!Absent, L!Pending
<1>13. L!NothingLeftPending'
  BY <1>2 DEF L!NothingLeftPending
<1>14. \A i \in DOMAIN chain' : L!verify_header_signatures(i)'
  BY <1>2 DEF LedgerInv, L!verify_header_signatures
<1>15. NoncesGrow' /\ L!ProposalIsLast'
  BY <1>2 DEF LedgerInv, NoncesGrow, L!ProposalIsLast
<1> QED
  BY <1>6, <1>7, <1>8, <1>9, <1>10, <1>11, <1>12, <1>13, <1>14, <1>15 DEF LedgerInv

LEMMA BalancesRebuilt ==
  ASSUME LedgerInv, NEW s \in Sessions, L!rebuild_balances(s)
  PROVE  LedgerInv'
<1>1. UNCHANGED <<chain, txAt, active, settings, ops>> /\ balances' = ses[s].state
  BY DEF L!rebuild_balances
<1>2. ses' \in [Sessions -> SessionRows] /\ \A x \in Sessions : ses'[x] \in {ses[x], L!Idle}
  BY SessionEnds DEF L!rebuild_balances
<1>3. ses[s].state \subseteq Paid /\ ses[s].state \subseteq L!Tx
  BY SessionFields DEF L!rebuild_balances, RowOK, SessionRows
<1>4. L!HadQuorum' = L!HadQuorum
  BY <1>1 DEF L!HadQuorum
<1>5. L!CreditsAreFinal'
  BY <1>1, <1>3, <1>4 DEF L!CreditsAreFinal, Paid
<1>6. LedgerTypes' /\ chain' \in Seq(L!LedgerBlock) /\ Len(chain) <= Len(chain')
  BY <1>1, <1>2, <1>3 DEF LedgerInv, LedgerTypes
<1>7. \A x \in Sessions : RowOK(ses[x])'
  BY <1>1, <1>2, <1>4, <1>6, RowsKept
<1>8. OneHolder' /\ \A x \in Sessions : InsertOK(ses[x])'
  BY <1>1, <1>2, HoldersKept
<1>9. \A i \in DOMAIN chain' : L!verify_header_signatures(i)'
  BY <1>1 DEF LedgerInv, L!verify_header_signatures
<1> QED
  BY <1>1, <1>5, <1>6, <1>7, <1>8, <1>9 DEF LedgerInv, Placed, NoncesGrow, L!ChainIntact,
     L!ProposalIsLast, L!NothingLeftPending

(* An approval written back keeps the transactions of the block, and that  *)
(* it has had its quorum.                                                  *)
LEMMA ApprovalWritten ==
  ASSUME LedgerInv, NEW s \in Sessions, L!update_block_approvals(s)
  PROVE  LedgerInv'
<1>0. PICK h \in Nat : h = ses[s].at
  BY SessionFields DEF SessionRows
<1> DEFINE A == ses[s].approvals
           isFinal == L!Cardinality(A) >= Quorum
           b == [txs |-> chain[h].txs, approvals |-> A, final |-> isFinal,
                 cleared |-> chain[h].cleared \/ (chain[h].final /\ ~isFinal)]
<1>1. chain \in Seq(L!LedgerBlock)
  BY DEF LedgerInv, LedgerTypes
<1>2. h \in DOMAIN chain /\ Relay \in A /\ A \subseteq active /\ A \subseteq Validators
  BY <1>0, SessionFields DEF L!update_block_approvals, RowOK, SessionRows
<1>3. ses[s].state \subseteq L!Tx /\ (isFinal => ses[s].state \subseteq Paid \cup chain[h].txs)
  BY <1>0, SessionFields DEF L!update_block_approvals, RowOK, SessionRows
<1>4. chain[h] \in L!LedgerBlock /\ chain[h].final \in BOOLEAN /\ chain[h].cleared \in BOOLEAN
  BY <1>1, <1>2, BlockFields
<1>5. /\ chain' = [chain EXCEPT ![h] = b] /\ balances' = IF isFinal THEN ses[s].state ELSE balances
      /\ UNCHANGED <<txAt, active, settings, ops>>
  <2>3. chain' = [chain EXCEPT ![h] = b]
    BY <1>0, <1>2 DEF L!update_block_approvals
  <2> QED
    BY <2>3 DEF L!update_block_approvals
<1>6. /\ b \in L!LedgerBlock /\ b.txs = chain[h].txs /\ b.approvals = A /\ b.final = isFinal
      /\ b.cleared = (chain[h].cleared \/ (chain[h].final /\ ~isFinal))
  BY <1>1, <1>2, <1>4, BlockFields DEF L!LedgerBlock
<1> HIDE DEF b, A
<1>7. /\ chain' \in Seq(L!LedgerBlock) /\ Len(chain') = Len(chain) /\ DOMAIN chain' = DOMAIN chain
      /\ chain'[h] = b /\ \A i \in DOMAIN chain : i # h => chain'[i] = chain[i]
  BY <1>1, <1>2, <1>5, <1>6
<1>8. \A i \in DOMAIN chain : chain'[i].txs = chain[i].txs
  BY <1>6, <1>7
<1>9. \A i \in DOMAIN chain : chain[i].final \/ chain[i].cleared => chain'[i].final \/ chain'[i].cleared
  <2>1. chain[h].final \/ chain[h].cleared => chain'[h].final \/ chain'[h].cleared
    BY <1>4, <1>6, <1>7
  <2> QED
    BY <1>7, <2>1
<1>10. L!HadQuorum \subseteq L!HadQuorum' /\ (isFinal => h \in L!HadQuorum')
  BY <1>2, <1>6, <1>7, <1>9 DEF L!HadQuorum
<1>11. ses' \in [Sessions -> SessionRows] /\ \A x \in Sessions : ses'[x] \in {ses[x], L!Idle}
  BY SessionEnds DEF L!update_block_approvals
<1>12. LedgerTypes'
  <2>1. balances' \subseteq L!Tx
    BY <1>3, <1>5 DEF LedgerInv, LedgerTypes
  <2> QED
    BY <1>5, <1>7, <1>11, <2>1 DEF LedgerInv, LedgerTypes
<1>13. L!CreditsAreFinal'
  <2>1. L!HadQuorum \subseteq DOMAIN chain
    BY DEF L!HadQuorum
  <2>2. Paid \subseteq Paid' /\ (isFinal => chain[h].txs \subseteq Paid')
    BY <1>2, <1>8, <1>10, <2>1 DEF Paid
  <2>3. balances' \subseteq Paid'
    BY <1>3, <1>5, <2>2 DEF LedgerInv, L!CreditsAreFinal, Paid
  <2> QED
    BY <2>3 DEF Paid, L!CreditsAreFinal
<1>14. \A x \in Sessions : RowOK(ses[x])'
  <2>1. Len(chain) <= Len(chain')
    BY <1>1, <1>7
  <2> QED
    BY <1>5, <1>7, <1>8, <1>10, <1>11, <2>1, RowsKept
<1>15. OneHolder' /\ \A x \in Sessions : InsertOK(ses[x])'
  BY <1>5, <1>11, HoldersKept
<1>16. \A i \in DOMAIN chain' : L!verify_header_signatures(i)'
  <2>1. L!verify_header_signatures(h)'
    <3>1. /\ Relay \in chain'[h].approvals /\ chain'[h].approvals \subseteq active'
          /\ chain'[h].final => L!Cardinality(chain'[h].approvals) >= Quorum
      BY <1>2, <1>5, <1>6, <1>7
    <3> QED
      BY <3>1 DEF L!verify_header_signatures
  <2>2. ASSUME NEW i \in DOMAIN chain, i # h PROVE L!verify_header_signatures(i)'
    BY <1>5, <1>7, <2>2 DEF LedgerInv, L!verify_header_signatures
  <2> QED
    BY <1>7, <2>1, <2>2
<1>17. Placed' /\ NoncesGrow'
  BY <1>5, <1>7, <1>8 DEF LedgerInv, Placed, NoncesGrow
<1>18. L!ChainIntact' /\ L!ProposalIsLast' /\ L!NothingLeftPending'
  BY <1>5, <1>7, <1>8, <1>9 DEF LedgerInv, L!ChainIntact, L!ProposalIsLast, L!NothingLeftPending
<1> QED
  BY <1>12, <1>13, <1>14, <1>15, <1>16, <1>17, <1>18 DEF LedgerInv

(* A block goes on top of the tip that its session read, and takes no      *)
(* transaction from an earlier one.                                        *)
LEMMA BlockPersisted ==
  ASSUME LedgerInv, NEW s \in Sessions, L!_persist_block(s)
  PROVE  LedgerInv'
<1>1. CASE L!Rollback(s)
  BY <1>1, RollbackStep DEF L!_persist_block
<1>2. CASE ~L!Rollback(s)
  <2> DEFINE isFinal == L!Cardinality(L!Signers) >= Quorum
             T == ses[s].txs
             b == [txs |-> T, approvals |-> L!Signers, final |-> isFinal, cleared |-> FALSE]
  <2>1. /\ ses[s].pc = "persist" /\ ~(Len(chain) > ses[s].at) /\ chain' = Append(chain, b)
        /\ txAt' = [n \in L!Tx |-> IF n \in T THEN Len(chain) + 1 ELSE txAt[n]]
        /\ balances' = IF isFinal THEN ses[s].state ELSE balances
        /\ active' = active \cup L!Signers /\ L!Step(s, L!Idle) /\ UNCHANGED <<settings, ops>>
    BY <1>2 DEF L!_persist_block
  <2>2. L!Signers \subseteq Validators /\ Relay \in L!Signers
    BY LedgerAssumption DEF LedgerInv, LedgerTypes, L!Signers
  <2>3. /\ chain \in Seq(L!LedgerBlock) /\ Len(chain) \in Nat /\ DOMAIN chain = 1..Len(chain)
        /\ txAt \in [L!Tx -> Int]
    BY DEF LedgerInv, LedgerTypes
  <2>4. /\ T \subseteq L!Tx /\ T # {} /\ ses[s].state \subseteq Paid \cup T
        /\ ses[s].at \in L!HadQuorum /\ (ses[s].at = Len(chain) => Above(T))
        /\ ses[s].state \subseteq L!Tx
    BY <2>1, SessionFields DEF RowOK, SessionRows
  <2>5. Len(chain) \in L!HadQuorum /\ Len(chain) >= 1 /\ Above(T)
    <3>1. ses[s].at \in 1..Len(chain)
      BY <2>3, <2>4 DEF L!HadQuorum
    <3>2. PICK k \in Nat : k = Len(chain)
      BY <2>3
    <3>3. PICK a \in Int : a = ses[s].at
      BY <3>1
    <3>4. a = k /\ k >= 1
      BY <2>1, <3>1, <3>2, <3>3
    <3> QED
      BY <2>4, <3>2, <3>3, <3>4
  <2>6. /\ b \in L!LedgerBlock /\ b.txs = T /\ b.approvals = L!Signers /\ b.cleared = FALSE
        /\ b.final = isFinal
    BY <2>2, <2>4 DEF L!LedgerBlock
  <2> HIDE DEF b
  <2>7. PICK k \in Nat : k = Len(chain)
    BY <2>3
  <2>8. /\ chain' \in Seq(L!LedgerBlock) /\ Len(chain') = k + 1 /\ DOMAIN chain' = 1..(k + 1)
        /\ chain'[k + 1] = b /\ \A i \in DOMAIN chain : chain'[i] = chain[i]
    BY <2>1, <2>3, <2>6, <2>7
  <2>9. /\ DOMAIN chain = 1..k /\ k >= 1 /\ \A i \in 1..k : chain'[i] = chain[i]
    BY <2>3, <2>5, <2>7, <2>8
  <2>10. /\ L!HadQuorum \subseteq L!HadQuorum' /\ L!HadQuorum \subseteq 1..k
         /\ isFinal => k + 1 \in L!HadQuorum'
    <3>1. L!HadQuorum \subseteq 1..k
      BY <2>9 DEF L!HadQuorum
    <3>2. 1..k \subseteq 1..(k + 1)
      OBVIOUS
    <3>3. L!HadQuorum \subseteq L!HadQuorum'
      BY <2>8, <2>9, <3>1, <3>2 DEF L!HadQuorum
    <3>4. isFinal => k + 1 \in L!HadQuorum'
      <4>1. k + 1 \in DOMAIN chain' /\ chain'[k + 1].final = isFinal
        BY <2>6, <2>8
      <4> QED
        BY <4>1 DEF L!HadQuorum
    <3> QED
      BY <3>1, <3>3, <3>4
  <2>11. ses' \in [Sessions -> SessionRows] /\ \A x \in Sessions : ses'[x] \in {ses[x], L!Idle}
    BY <2>1, SessionEnds
  <2>12. /\ txAt' \in [L!Tx -> Int] /\ \A n \in T : txAt'[n] = k + 1
         /\ \A n \in L!Tx \ T : txAt'[n] = txAt[n]
    BY <2>1, <2>3, <2>4, <2>7
  <2>13. LedgerTypes'
    <3>1. balances' \subseteq L!Tx
      BY <2>1, <2>4 DEF LedgerInv, LedgerTypes
    <3>2. active' \subseteq Validators
      BY <2>1, <2>2 DEF LedgerInv, LedgerTypes
    <3> QED
      BY <2>1, <2>8, <2>11, <2>12, <3>1, <3>2 DEF LedgerInv, LedgerTypes
  <2>14. L!CreditsAreFinal'
    <3>1. Paid \subseteq Paid' /\ (isFinal => T \subseteq Paid')
      BY <2>6, <2>8, <2>9, <2>10 DEF Paid
    <3>2. balances' \subseteq Paid'
      BY <2>1, <2>4, <3>1 DEF LedgerInv, L!CreditsAreFinal, Paid
    <3> QED
      BY <3>2 DEF Paid, L!CreditsAreFinal
  <2>15. \A x \in Sessions : RowOK(ses[x])'
    <3>1. Len(chain) <= Len(chain')
      BY <2>7, <2>8
    <3> QED
      BY <2>1, <2>8, <2>10, <2>11, <3>1, RowsKept
  <2>16. OneHolder'
    BY <2>11, HoldersKept
  <2>17. ASSUME NEW x \in Sessions PROVE InsertOK(ses[x])'
    <3>1. ses'[s] = L!Idle
      BY <2>1 DEF L!Step, LedgerInv, LedgerTypes
    <3>2. CASE ses'[x] = L!Idle
      BY <3>2, IdleRow DEF InsertOK, Holds
    <3>3. CASE ses'[x] # L!Idle
      <4>1. ses'[x] = ses[x] /\ x # s
        BY <2>11, <3>1, <3>3
      <4>2. ses[x].tx \in 0..MaxTx /\ ses[x].txs \subseteq L!Tx /\ InsertOK(ses[x])
        BY SessionFields DEF SessionRows
      <4>3. Holds(ses[x]) => ses[x].tx \in L!Tx \ T /\ txAt[ses[x].tx] = L!Absent
        <5> SUFFICES ASSUME Holds(ses[x]), ses[x].tx \in T PROVE FALSE
          BY <4>2 DEF Holds, InsertOK, L!Tx
        <5>1. txAt[ses[x].tx] = L!Absent /\ ses[x].tx # 0
          BY <4>2 DEF InsertOK, Holds
        <5>2. ses[s].tx = ses[x].tx
          BY <2>1, <5>1, SessionFields DEF InsertOK
        <5>3. Holds(ses[s])
          BY <2>1, <5>1, <5>2 DEF Holds
        <5> QED
          BY <4>1, <5>2, <5>3 DEF LedgerInv, OneHolder
      <4>4. \A m \in ses[x].txs : txAt[m] # L!Absent => txAt'[m] # L!Absent
        BY <2>12, <4>2 DEF L!Absent
      <4> QED
        BY <2>12, <4>1, <4>2, <4>3, <4>4 DEF InsertOK, Holds
    <3> QED
      BY <3>2, <3>3
  <2>18. \A i \in DOMAIN chain' : L!verify_header_signatures(i)'
    <3>1. L!verify_header_signatures(k + 1)'
      <4>1. /\ Relay \in chain'[k + 1].approvals /\ chain'[k + 1].approvals \subseteq active'
            /\ chain'[k + 1].final => L!Cardinality(chain'[k + 1].approvals) >= Quorum
        BY <2>1, <2>2, <2>6, <2>8
      <4> QED
        BY <4>1 DEF L!verify_header_signatures
    <3>2. ASSUME NEW i \in 1..k PROVE L!verify_header_signatures(i)'
      BY <2>1, <2>9 DEF LedgerInv, L!verify_header_signatures
    <3> QED
      BY <2>8, <3>1, <3>2
  <2>19. Placed'
    BY <2>8, <2>9, <2>12 DEF LedgerInv, Placed
  <2>20. NoncesGrow'
    <3>1. ASSUME NEW i \in 1..k, NEW m \in chain'[i].txs, NEW n \in chain'[k + 1].txs PROVE m < n
      BY <2>5, <2>6, <2>8, <2>9, <3>1 DEF Above
    <3>2. ASSUME NEW i \in 1..(k + 1), NEW j \in 1..(k + 1), i < j,
                 NEW m \in chain'[i].txs, NEW n \in chain'[j].txs
          PROVE  m < n
      <4>1. CASE j = k + 1
        BY <3>1, <3>2, <4>1
      <4>2. CASE j # k + 1
        <5>1. i \in 1..k /\ j \in 1..k
          BY <3>2, <4>2
        <5> QED
          BY <2>9, <3>2, <5>1 DEF LedgerInv, NoncesGrow
      <4> QED
        BY <4>1, <4>2
    <3>3. ASSUME NEW i \in 1..(k + 1) PROVE i = 1 <=> chain'[i].txs = {}
      <4>1. CASE i = k + 1
        BY <2>4, <2>6, <2>8, <2>9, <4>1
      <4>2. CASE i # k + 1
        <5>1. i \in 1..k
          BY <4>2
        <5> QED
          BY <2>9, <5>1 DEF LedgerInv, NoncesGrow
      <4> QED
        BY <4>1, <4>2
    <3> QED
      BY <2>8, <3>2, <3>3 DEF NoncesGrow
  <2>21. L!ChainIntact'
    <3>1. ASSUME NEW i \in 1..k PROVE {n \in L!Tx : txAt'[n] = i} = chain'[i].txs
      <4>1. {n \in L!Tx : txAt[n] = i} = chain[i].txs /\ chain'[i] = chain[i]
        BY <2>9 DEF LedgerInv, L!ChainIntact
      <4>2. ASSUME NEW n \in T PROVE n \notin chain[i].txs
        <5>1. n \in Int
          BY <2>4 DEF L!Tx
        <5> QED
          BY <2>5, <2>9, <5>1 DEF Above
      <4> QED
        BY <2>12, <4>1, <4>2
    <3>2. {n \in L!Tx : txAt'[n] = k + 1} = chain'[k + 1].txs
      <4>1. \A n \in L!Tx : txAt[n] # k + 1
        BY <2>9 DEF LedgerInv, Placed, L!Absent, L!Pending
      <4> QED
        BY <2>4, <2>6, <2>8, <2>12, <4>1
    <3> QED
      BY <2>8, <3>1, <3>2 DEF L!ChainIntact
  <2>22. L!ProposalIsLast'
    <3>1. ASSUME NEW i \in 1..(k + 1), i < k + 1 PROVE chain'[i].final \/ chain'[i].cleared
      <4>1. i \in 1..k /\ (i = k \/ i < k)
        BY <3>1
      <4>2. chain'[i] = chain[i]
        BY <2>9, <4>1
      <4>3. i = k => chain[i].final \/ chain[i].cleared
        BY <2>5, <2>7 DEF L!HadQuorum
      <4>4. i < k => chain[i].final \/ chain[i].cleared
        BY <2>7, <2>9, <4>1 DEF LedgerInv, L!ProposalIsLast
      <4> QED
        BY <4>1, <4>2, <4>3, <4>4
    <3> QED
      BY <2>8, <3>1 DEF L!ProposalIsLast
  <2>23. L!NothingLeftPending'
    <3> SUFFICES ASSUME settings.auto_seal, NEW n \in L!Tx PROVE txAt'[n] # L!Pending
      BY <2>1 DEF L!NothingLeftPending
    <3>1. txAt[n] # L!Pending
      BY DEF LedgerInv, L!NothingLeftPending
    <3> QED
      BY <2>12, <3>1 DEF L!Pending
  <2> QED
    BY <2>13, <2>14, <2>15, <2>16, <2>17, <2>18, <2>19, <2>20, <2>21, <2>22, <2>23 DEF LedgerInv
<1> QED
  BY <1>1, <1>2

LEMMA LedgerStep == LedgerInv /\ [L!Next]_ledgerVars => LedgerInv'
<1> SUFFICES ASSUME LedgerInv, [L!Next]_ledgerVars PROVE LedgerInv'
  OBVIOUS
<1>1. CASE UNCHANGED ledgerVars
  <2>1. UNCHANGED <<chain, txAt, balances, active, settings, ses, ops>>
    BY <1>1 DEF ledgerVars
  <2>2. LedgerTypes' /\ L!HadQuorum' = L!HadQuorum
    BY <2>1 DEF LedgerInv, LedgerTypes, L!HadQuorum
  <2>3. chain' \in Seq(L!LedgerBlock) /\ Len(chain) <= Len(chain')
    BY <2>1 DEF LedgerInv, LedgerTypes
  <2>4. \A x \in Sessions : RowOK(ses[x])'
    BY <2>1, <2>2, <2>3, RowsKept
  <2>5. OneHolder' /\ \A x \in Sessions : InsertOK(ses[x])'
    BY <2>1, HoldersKept
  <2> QED
    BY <2>1, <2>2, <2>4, <2>5 DEF LedgerInv, Placed, NoncesGrow, L!ChainIntact, L!ProposalIsLast,
       L!CreditsAreFinal, L!NothingLeftPending, L!verify_header_signatures
<1>2. CASE L!ensure_initialized
  BY <1>2, GenesisStep
<1>3. CASE \E v \in Validators : L!register_validator(v)
  BY <1>3, ValidatorStep
<1>4. ASSUME NEW s \in Sessions,
             \/ L!BeginSubmit(s) \/ L!submit_transaction(s) \/ L!record_job_completed(s)
             \/ L!settle_credits(s) \/ L!submit_peer_attestation(s)
             \/ L!add_pending_transaction(s) \/ L!CommitPending(s)
             \/ L!BeginSeal(s) \/ L!ReadPending(s) \/ L!ReadTip(s) \/ L!_persist_block(s)
             \/ \E v \in Validators : L!BeginApprove(s, v)
             \/ L!ReplayApproved(s) \/ L!update_block_approvals(s)
             \/ L!BeginRebuild(s) \/ L!rebuild_balances(s) \/ L!Lost(s)
      PROVE  LedgerInv'
  <2>1. CASE L!submit_transaction(s) \/ L!submit_peer_attestation(s)
    <3>1. L!ReadNonce(s, {n \in L!Tx : n > L!get_max_nonce})
      BY <2>1 DEF L!submit_transaction, L!submit_peer_attestation
    <3>2. PICK W : W = {n \in L!Tx : n > L!get_max_nonce}
      OBVIOUS
    <3> QED
      BY <3>1, <3>2, NonceRead
  <2>2. CASE L!record_job_completed(s) \/ L!settle_credits(s)
    <3>1. L!ReadNonce(s, L!Tx \cap {L!get_max_nonce + 1})
      BY <2>2 DEF L!record_job_completed, L!settle_credits
    <3>2. PICK W : W = L!Tx \cap {L!get_max_nonce + 1}
      OBVIOUS
    <3> QED
      BY <3>1, <3>2, NonceRead
  <2>3. CASE L!Lost(s)
    BY <2>3, RollbackStep DEF L!Lost
  <2> QED
    BY <1>4, <2>1, <2>2, <2>3, RequestBegins, TransactionInserted, PendingCommitted, PendingRead,
       TipRead, BlockPersisted, ApprovalBegins, ApprovalReplayed, ApprovalWritten, RebuildBegins,
       BalancesRebuilt
<1> QED
  BY <1>1, <1>2, <1>3, <1>4 DEF L!Next

(* There are no more blocks than transactions, and the genesis block: the  *)
(* nonces of block i are at least i - 1.                                   *)
LEMMA ChainIsBounded == ASSUME LedgerInv PROVE Len(chain) \in 0..(MaxTx + 1)
<1>1. chain \in Seq(L!LedgerBlock)
  BY DEF LedgerInv, LedgerTypes
<1>2. PICK k \in Nat : k = Len(chain) /\ DOMAIN chain = 1..k
  BY <1>1
<1>3. \A i \in 1..k : chain[i].txs \subseteq 1..MaxTx
  BY <1>1, <1>2, BlockFields DEF L!Tx
<1> DEFINE Low == {i \in 2..k : \E n \in chain[i].txs : n < i - 1}
<1>4. Low = {}
  <2> SUFFICES ASSUME Low # {} PROVE FALSE
    OBVIOUS
  <2>0. Low \subseteq Nat
    OBVIOUS
  <2> HIDE DEF Low
  <2>1. PICK i \in Low : \A j \in Low : i <= j
    BY <2>0, LeastOf
  <2> USE DEF Low
  <2>2. PICK n \in chain[i].txs : n < i - 1
    OBVIOUS
  <2>3. i \in 1..k /\ n \in 1..MaxTx
    BY <1>3
  <2>4. i > 2 /\ i - 1 \in 2..k /\ i - 1 \in 1..k
    BY <2>2, <2>3
  <2>5. i - 1 \notin Low
    BY <2>1, <2>4
  <2>6. PICK m \in chain[i - 1].txs : TRUE
    BY <1>2, <2>4 DEF LedgerInv, NoncesGrow
  <2>7. m \in 1..MaxTx /\ ~(m < (i - 1) - 1)
    BY <1>3, <2>4, <2>5, <2>6
  <2>8. m < n
    BY <1>2, <2>3, <2>4 DEF LedgerInv, NoncesGrow
  <2> QED
    BY <2>2, <2>3, <2>7, <2>8
<1>5. CASE k <= 1
  BY <1>2, <1>5, LedgerAssumption
<1>6. CASE k > 1
  <2>1. k \in 1..k /\ k \in 2..k
    BY <1>6
  <2>2. PICK n \in chain[k].txs : TRUE
    BY <1>2, <1>6, <2>1 DEF LedgerInv, NoncesGrow
  <2>3. n \in 1..MaxTx
    BY <1>3, <2>1
  <2>4. ~(n < k - 1)
    BY <1>4, <2>1
  <2> QED
    BY <1>2, <2>3, <2>4, LedgerAssumption
<1> QED
  BY <1>2, <1>5, <1>6

LEMMA ChainIsSound ==
  ASSUME LedgerInv
  PROVE  /\ L!TypeOK /\ L!ChainIntact /\ L!ProposalIsLast /\ L!CreditsAreFinal
         /\ L!NothingLeftPending /\ L!HeadersVerify
<1>1. chain \in Seq(L!LedgerBlock) /\ txAt \in [L!Tx -> Int]
  BY DEF LedgerInv, LedgerTypes
<1>2. PICK k \in Nat : k = Len(chain) /\ DOMAIN chain = 1..k
  BY <1>1
<1>3. k <= MaxTx + 1
  BY <1>2, ChainIsBounded
<1>4. txAt \in L!LedgerTransaction
  <2>1. \A n \in L!Tx : txAt[n] \in {-2, -1} \cup 1..k
    BY <1>2 DEF LedgerInv, Placed, L!Absent, L!Pending
  <2>2. \A n \in L!Tx : txAt[n] \in (-2)..(MaxTx + 1)
    BY <1>3, <2>1, LedgerAssumption
  <2> QED
    BY <1>1, <2>2 DEF L!LedgerTransaction, L!Absent
<1>5. L!TypeOK
  BY <1>4 DEF LedgerInv, LedgerTypes, L!TypeOK, SessionRows, L!LedgerBalance, L!LedgerValidator
<1>6. ASSUME \A i \in DOMAIN chain : ~chain[i].cleared PROVE L!verify_header_chain
  <2>1. L!Final \subseteq 1..k
    BY <1>2 DEF L!Final
  <2>2. ASSUME NEW i \in L!Final, NEW j \in 1..i PROVE j \in L!Final
    <3>1. i \in 1..k /\ chain[i].final
      BY <1>2 DEF L!Final
    <3>2. CASE j = i
      BY <3>2
    <3>3. CASE j # i
      <4>1. j \in 1..k /\ j < k
        BY <3>1, <3>3
      <4>2. chain[j].final \/ chain[j].cleared
        BY <1>2, <4>1 DEF LedgerInv, L!ProposalIsLast
      <4> QED
        BY <1>2, <1>6, <4>1, <4>2 DEF L!Final
    <3> QED
      BY <3>2, <3>3
  <2>3. \A i \in L!Final : L!verify_header_signatures(i)
    BY <1>2, <2>1 DEF LedgerInv
  <2> QED
    BY <2>2, <2>3 DEF L!verify_header_chain
<1>7. L!HeadersVerify
  BY <1>6 DEF LedgerInv, L!HeadersVerify
<1> QED
  BY <1>5, <1>7 DEF LedgerInv

-----------------------------------------------------------------------------
(* The tree.  Its functions are recursive: that each exists is shown first.*)

Climb(level) == IF Len(level) <= 1 THEN level ELSE M!NextLevel(level)

Absorb(hash, step) ==
  IF step.position = "right" THEN M!_hash_pair(hash, step.hash) ELSE M!_hash_pair(step.hash, hash)

LEMMA Levels ==
  ASSUME NEW leaves, NEW k \in 0..MaxLeaves
  PROVE  M!LevelAt(leaves)[k] = IF k = 0 THEN leaves ELSE Climb(M!LevelAt(leaves)[k - 1])
<1> DEFINE Is(f, n) == f = [j \in 0..n |-> IF j = 0 THEN leaves ELSE Climb(f[j - 1])]
           G == {n \in Nat : \E f : Is(f, n)}
           R == M!LevelAt(leaves)
<1>1. 0 \in G
  <2> DEFINE g == [j \in 0..0 |-> leaves]
  <2>1. Is(g, 0)
    OBVIOUS
  <2> QED
    BY <2>1
<1>2. ASSUME NEW n \in Nat, n \in G PROVE n + 1 \in G
  <2>1. PICK f : Is(f, n)
    BY <1>2
  <2> DEFINE g == [j \in 0..(n + 1) |-> IF j = n + 1 THEN Climb(f[n]) ELSE f[j]]
  <2>2. ASSUME NEW j \in 0..(n + 1) PROVE g[j] = IF j = 0 THEN leaves ELSE Climb(g[j - 1])
    BY <2>1
  <2>3. Is(g, n + 1)
    BY <2>2
  <2> HIDE DEF Is, g
  <2> QED
    BY <2>3
<1>3. \E f : Is(f, MaxLeaves)
  <2> HIDE DEF Is
  <2>1. \A n \in 0..(MaxLeaves - 1) : n \in G => n + 1 \in G
    BY <1>2, LedgerAssumption
  <2>2. MaxLeaves \in G
    <3> HIDE DEF G
    <3> QED
      BY <1>1, <2>1, UpTo, LedgerAssumption
  <2> QED
    BY <2>2
<1>4. R = CHOOSE f : Is(f, MaxLeaves)
  BY DEF M!LevelAt, Climb
<1>5. Is(R, MaxLeaves)
  <2> HIDE DEF Is
  <2> QED
    BY <1>3, <1>4, Zenon
<1> HIDE DEF R
<1>6. R[k] = IF k = 0 THEN leaves ELSE Climb(R[k - 1])
  BY <1>5
<1> QED
  BY <1>6 DEF R

LEMMA Halving ==
  ASSUME NEW index, NEW k \in 0..MaxLeaves
  PROVE  M!IndexAt(index)[k] = IF k = 0 THEN index ELSE M!IndexAt(index)[k - 1] \div 2
<1> DEFINE Is(f, n) == f = [j \in 0..n |-> IF j = 0 THEN index ELSE f[j - 1] \div 2]
           G == {n \in Nat : \E f : Is(f, n)}
           R == M!IndexAt(index)
<1>1. 0 \in G
  <2> DEFINE g == [j \in 0..0 |-> index]
  <2>1. Is(g, 0)
    OBVIOUS
  <2> QED
    BY <2>1
<1>2. ASSUME NEW n \in Nat, n \in G PROVE n + 1 \in G
  <2>1. PICK f : Is(f, n)
    BY <1>2
  <2> DEFINE g == [j \in 0..(n + 1) |-> IF j = n + 1 THEN f[n] \div 2 ELSE f[j]]
  <2>2. ASSUME NEW j \in 0..(n + 1) PROVE g[j] = IF j = 0 THEN index ELSE g[j - 1] \div 2
    BY <2>1
  <2>3. Is(g, n + 1)
    BY <2>2
  <2> HIDE DEF Is, g
  <2> QED
    BY <2>3
<1>3. \E f : Is(f, MaxLeaves)
  <2> HIDE DEF Is
  <2>1. \A n \in 0..(MaxLeaves - 1) : n \in G => n + 1 \in G
    BY <1>2, LedgerAssumption
  <2>2. MaxLeaves \in G
    <3> HIDE DEF G
    <3> QED
      BY <1>1, <2>1, UpTo, LedgerAssumption
  <2> QED
    BY <2>2
<1>4. R = CHOOSE f : Is(f, MaxLeaves)
  BY DEF M!IndexAt
<1>5. Is(R, MaxLeaves)
  <2> HIDE DEF Is
  <2> QED
    BY <1>3, <1>4, Zenon
<1> HIDE DEF R
<1>6. R[k] = IF k = 0 THEN index ELSE R[k - 1] \div 2
  BY <1>5
<1> QED
  BY <1>6 DEF R

LEMMA Running ==
  ASSUME NEW p, NEW top \in Nat, top = Len(p.steps), NEW k \in 0..top
  PROVE  M!RunningHash(p)[k] = IF k = 0 THEN p.leaf ELSE Absorb(M!RunningHash(p)[k - 1], p.steps[k])
<1> DEFINE Is(f, n) == f = [j \in 0..n |-> IF j = 0 THEN p.leaf ELSE Absorb(f[j - 1], p.steps[j])]
           G == {n \in Nat : \E f : Is(f, n)}
           R == M!RunningHash(p)
<1>1. 0 \in G
  <2> DEFINE g == [j \in 0..0 |-> p.leaf]
  <2>1. Is(g, 0)
    OBVIOUS
  <2> QED
    BY <2>1
<1>2. ASSUME NEW n \in Nat, n \in G PROVE n + 1 \in G
  <2>1. PICK f : Is(f, n)
    BY <1>2
  <2> DEFINE g == [j \in 0..(n + 1) |-> IF j = n + 1 THEN Absorb(f[n], p.steps[j]) ELSE f[j]]
  <2>2. ASSUME NEW j \in 0..(n + 1) PROVE g[j] = IF j = 0 THEN p.leaf ELSE Absorb(g[j - 1], p.steps[j])
    BY <2>1
  <2>3. Is(g, n + 1)
    BY <2>2
  <2> HIDE DEF Is, g
  <2> QED
    BY <2>3
<1>3. \E f : Is(f, top)
  <2> HIDE DEF Is
  <2>1. \A n \in 0..(top - 1) : n \in G => n + 1 \in G
    BY <1>2
  <2>2. top \in G
    <3> HIDE DEF G
    <3> QED
      <4>1. \A i \in 0..top : i \in G
        BY <1>1, <2>1, UpTo, Zenon
      <4>2. top \in 0..top
        OBVIOUS
      <4> QED
        BY <4>1, <4>2
  <2> QED
    BY <2>2
<1>4. R = CHOOSE f : Is(f, top)
  BY DEF M!RunningHash, Absorb
<1>5. Is(R, top)
  <2> HIDE DEF Is
  <2> QED
    BY <1>3, <1>4, Zenon
<1> HIDE DEF R
<1>6. R[k] = IF k = 0 THEN p.leaf ELSE Absorb(R[k - 1], p.steps[k])
  BY <1>5
<1> QED
  BY <1>6 DEF R

-----------------------------------------------------------------------------
LEMMA EvenLevel ==
  ASSUME NEW S, NEW x \in Seq(S), Len(x) > 1
  PROVE  /\ M!Even(x) \in Seq(S) /\ Len(M!Even(x)) % 2 = 0
         /\ Len(M!Even(x)) \in {Len(x), Len(x) + 1}
         /\ \A i \in 1..Len(x) : M!Even(x)[i] = x[i]
         /\ Len(M!Even(x)) # Len(x) => M!Even(x)[Len(x) + 1] = x[Len(x)]
<1>1. PICK n \in Nat : n = Len(x) /\ n > 1 /\ x[n] \in S
  OBVIOUS
<1>2. CASE n % 2 = 1
  <2>1. M!Even(x) = Append(x, x[n])
    BY <1>1, <1>2 DEF M!Even
  <2>2. (n + 1) % 2 = 0
    BY <1>2
  <2> QED
    BY <1>1, <2>1, <2>2
<1>3. CASE n % 2 # 1
  <2>1. M!Even(x) = x
    BY <1>1, <1>3 DEF M!Even
  <2>2. n % 2 = 0
    BY <1>3
  <2> QED
    BY <1>1, <2>1, <2>2
<1> QED
  BY <1>2, <1>3

LEMMA LevelAbove ==
  ASSUME NEW S, NEW x \in Seq(S), Len(x) > 1
  PROVE  \E m \in Nat : /\ m >= 1 /\ m < Len(x) /\ Len(M!Even(x)) = 2 * m
                        /\ 2 * m \in {Len(x), Len(x) + 1}
                        /\ M!NextLevel(x) \in Seq(S \X S) /\ Len(M!NextLevel(x)) = m
                        /\ \A i \in 1..m : M!NextLevel(x)[i] = <<M!Even(x)[2 * i - 1], M!Even(x)[2 * i]>>
<1>1. PICK n \in Nat : n = Len(x) /\ n > 1
  OBVIOUS
<1> DEFINE e == M!Even(x)
<1>2. e \in Seq(S) /\ Len(e) % 2 = 0 /\ Len(e) \in {n, n + 1}
  BY <1>1, EvenLevel
<1> HIDE DEF e
<1>3. PICK m \in Nat : Len(e) = 2 * m /\ m = Len(e) \div 2
  <2>1. PICK w \in Nat : w = Len(e) /\ w % 2 = 0
    BY <1>2
  <2>2. w \div 2 \in Nat /\ 2 * (w \div 2) = w
    BY <2>1
  <2> QED
    BY <2>1, <2>2
<1>4. m >= 1 /\ m < n /\ 2 * m \in {n, n + 1}
  BY <1>1, <1>2, <1>3
<1>5. M!NextLevel(x) = [i \in 1..m |-> <<e[2 * i - 1], e[2 * i]>>]
  BY <1>3 DEF M!NextLevel, M!_hash_pair, e
<1>6. ASSUME NEW i \in 1..m PROVE e[2 * i - 1] \in S /\ e[2 * i] \in S
  <2>1. 2 * i - 1 \in 1..(2 * m) /\ 2 * i \in 1..(2 * m)
    OBVIOUS
  <2> QED
    BY <1>2, <1>3, <2>1
<1>7. M!NextLevel(x) \in Seq(S \X S) /\ Len(M!NextLevel(x)) = m
  BY <1>5, <1>6
<1>8. \A i \in 1..m : M!NextLevel(x)[i] = <<e[2 * i - 1], e[2 * i]>>
  BY <1>5
<1> QED
  BY <1>1, <1>3, <1>4, <1>7, <1>8 DEF e

-----------------------------------------------------------------------------
(* The transactions of a block are distinct leaves.                        *)
Distinct(x) == \A i, j \in DOMAIN x : x[i] = x[j] => i = j

Leaves(x) ==
  /\ x \in Seq(Seq(Nat)) /\ Len(x) <= MaxLeaves /\ Distinct(x)
  /\ \A i \in DOMAIN x : Len(x[i]) = 1

(* On every level the nodes are distinct, although an odd one repeats its  *)
(* last before it is hashed, and each is shorter than the one below.       *)
GoodLevel(x, k) ==
  /\ \E S : M!LevelAt(x)[k] \in Seq(S)
  /\ Distinct(M!LevelAt(x)[k])
  /\ Len(M!LevelAt(x)[k]) <= 1 \/ Len(M!LevelAt(x)[k]) + k <= Len(x)
  /\ Len(x) >= 1 => Len(M!LevelAt(x)[k]) >= 1

LEMMA DistinctAbove ==
  ASSUME NEW S, NEW x \in Seq(S), Len(x) > 1, Distinct(x)
  PROVE  Distinct(M!NextLevel(x))
<1>1. PICK m \in Nat : /\ m >= 1 /\ 2 * m \in {Len(x), Len(x) + 1}
                       /\ M!NextLevel(x) \in Seq(S \X S) /\ Len(M!NextLevel(x)) = m
                       /\ \A i \in 1..m : M!NextLevel(x)[i] = <<M!Even(x)[2 * i - 1], M!Even(x)[2 * i]>>
  BY LevelAbove
<1>2. PICK n \in Nat : n = Len(x) /\ DOMAIN x = 1..n
  OBVIOUS
<1>3. \A i \in 1..m : 2 * i - 1 \in 1..n
  BY <1>1, <1>2
<1>4. \A i \in 1..n : M!Even(x)[i] = x[i]
  BY <1>2, EvenLevel
<1>5. ASSUME NEW i \in 1..m, NEW j \in 1..m, M!NextLevel(x)[i] = M!NextLevel(x)[j] PROVE i = j
  <2>1. M!Even(x)[2 * i - 1] = M!Even(x)[2 * j - 1]
    BY <1>1, <1>5
  <2>2. x[2 * i - 1] = x[2 * j - 1]
    BY <1>3, <1>4, <2>1
  <2>3. 2 * i - 1 = 2 * j - 1
    BY <1>2, <1>3, <2>2 DEF Distinct
  <2> QED
    BY <2>3
<1>6. DOMAIN M!NextLevel(x) = 1..m
  BY <1>1
<1> QED
  BY <1>5, <1>6 DEF Distinct

LEMMA LevelsAreGood ==
  ASSUME NEW x, Leaves(x)
  PROVE  \A k \in 0..MaxLeaves : GoodLevel(x, k)
<1> DEFINE G == {k \in 0..MaxLeaves : GoodLevel(x, k)}
<1>1. x \in Seq(Seq(Nat)) /\ Distinct(x) /\ Len(x) \in Nat
  BY DEF Leaves
<1>2. 0 \in G
  <2>1. 0 \in 0..MaxLeaves
    BY LedgerAssumption
  <2>2. M!LevelAt(x)[0] = x
    BY <2>1, Levels
  <2> QED
    BY <1>1, <2>1, <2>2 DEF GoodLevel
<1>3. ASSUME NEW k \in 0..(MaxLeaves - 1), k \in G PROVE k + 1 \in G
  <2> DEFINE y == M!LevelAt(x)[k]
             z == M!LevelAt(x)[k + 1]
  <2>1. PICK S : y \in Seq(S)
    BY <1>3 DEF GoodLevel
  <2>2. k + 1 \in 0..MaxLeaves /\ (k + 1) - 1 = k /\ k + 1 # 0 /\ k \in Nat
    BY LedgerAssumption
  <2>3. z = Climb(y)
    BY <2>2, Levels
  <2>4. Distinct(y) /\ (Len(y) <= 1 \/ Len(y) + k <= Len(x)) /\ (Len(x) >= 1 => Len(y) >= 1)
    BY <1>3 DEF GoodLevel
  <2> HIDE DEF y, z
  <2>5. (\E T : z \in Seq(T)) /\ Distinct(z) /\ (Len(z) <= 1 \/ Len(z) + (k + 1) <= Len(x))
        /\ (Len(x) >= 1 => Len(z) >= 1)
    <3>1. CASE Len(y) <= 1
      <4>1. z = y
        BY <2>3, <3>1 DEF Climb
      <4> QED
        BY <2>1, <2>4, <3>1, <4>1
    <3>2. CASE ~(Len(y) <= 1)
      <4>1. z = M!NextLevel(y) /\ Len(y) > 1
        BY <2>1, <2>3, <3>2 DEF Climb
      <4>2. PICK m \in Nat : m >= 1 /\ m < Len(y) /\ z \in Seq(S \X S) /\ Len(z) = m
        BY <2>1, <4>1, LevelAbove
      <4>3. Distinct(z)
        BY <2>1, <2>4, <4>1, DistinctAbove
      <4>4. PICK n \in Nat : n = Len(y)
        BY <2>1
      <4>5. m + (k + 1) <= Len(x)
        BY <1>1, <2>2, <2>4, <3>2, <4>2, <4>4
      <4> QED
        BY <4>2, <4>3, <4>5
    <3> QED
      BY <3>1, <3>2
  <2> QED
    BY <2>2, <2>5 DEF GoodLevel, z
<1>4. \A k \in 0..MaxLeaves : k \in G
  <2> HIDE DEF G
  <2> QED
    BY <1>2, <1>3, UpTo, LedgerAssumption
<1> QED
  BY <1>4

(* The climb ends, at a single node.                                       *)
LEMMA TopOfTree ==
  ASSUME NEW x, Leaves(x)
  PROVE  /\ M!Height(x) \in 0..MaxLeaves /\ Len(M!LevelAt(x)[M!Height(x)]) <= 1
         /\ \A j \in 0..(M!Height(x) - 1) : Len(M!LevelAt(x)[j]) > 1
<1> DEFINE Top(k) == /\ Len(M!LevelAt(x)[k]) <= 1 /\ \A j \in 0..(k - 1) : Len(M!LevelAt(x)[j]) > 1
           E == {k \in 0..MaxLeaves : Len(M!LevelAt(x)[k]) <= 1}
<1>1. \A k \in 0..MaxLeaves : Len(M!LevelAt(x)[k]) \in Nat
  BY LevelsAreGood DEF GoodLevel
<1>2. Len(x) \in Nat /\ Len(x) <= MaxLeaves
  BY DEF Leaves
<1>3. MaxLeaves \in E
  <2>1. MaxLeaves \in 0..MaxLeaves
    BY LedgerAssumption
  <2>2. Len(M!LevelAt(x)[MaxLeaves]) <= 1 \/ Len(M!LevelAt(x)[MaxLeaves]) + MaxLeaves <= Len(x)
    BY <2>1, LevelsAreGood DEF GoodLevel
  <2>3. PICK n \in Nat : n = Len(M!LevelAt(x)[MaxLeaves])
    BY <1>1, <2>1
  <2>4. n <= 1
    BY <1>2, <2>2, <2>3, LedgerAssumption
  <2> QED
    BY <2>1, <2>3, <2>4
<1>4. E \subseteq Nat
  BY LedgerAssumption
<1>5. PICK k \in E : \A j \in E : k <= j
  <2> HIDE DEF E
  <2> QED
    BY <1>3, <1>4, LeastOf
<1>6. ASSUME NEW j \in 0..(k - 1) PROVE Len(M!LevelAt(x)[j]) > 1
  <2>1. j \in 0..MaxLeaves /\ ~(k <= j)
    BY <1>5, LedgerAssumption
  <2>2. j \notin E
    BY <1>5, <2>1
  <2> QED
    BY <1>1, <2>1, <2>2
<1>7. k \in 0..MaxLeaves /\ Top(k)
  BY <1>6
<1>8. M!Height(x) = CHOOSE h \in 0..MaxLeaves : Top(h)
  BY DEF M!Height
<1>9. M!Height(x) \in 0..MaxLeaves /\ Top(M!Height(x))
  <2> HIDE DEF Top
  <2> QED
    BY <1>7, <1>8
<1> QED
  BY <1>9

(* Below the top every level is hashed into the next.                      *)
LEMMA HashedLevel ==
  ASSUME NEW x, Leaves(x), NEW k \in 1..M!Height(x)
  PROVE  \E S : /\ M!LevelAt(x)[k - 1] \in Seq(S) /\ Len(M!LevelAt(x)[k - 1]) > 1
                /\ Distinct(M!LevelAt(x)[k - 1])
                /\ M!LevelAt(x)[k] = M!NextLevel(M!LevelAt(x)[k - 1])
<1>1. M!Height(x) \in 0..MaxLeaves /\ k \in 0..MaxLeaves /\ k # 0
  BY TopOfTree, LedgerAssumption
<1>2. k - 1 \in 0..MaxLeaves /\ k - 1 \in 0..(M!Height(x) - 1)
  BY <1>1, LedgerAssumption
<1>3. Len(M!LevelAt(x)[k - 1]) > 1
  BY <1>2, TopOfTree
<1>4. PICK S : M!LevelAt(x)[k - 1] \in Seq(S) /\ Distinct(M!LevelAt(x)[k - 1])
  BY <1>2, LevelsAreGood DEF GoodLevel
<1>5. ~(Len(M!LevelAt(x)[k - 1]) <= 1)
  BY <1>3, <1>4
<1>6. M!LevelAt(x)[k] = Climb(M!LevelAt(x)[k - 1])
  BY <1>1, Levels
<1> QED
  BY <1>3, <1>4, <1>5, <1>6 DEF Climb

LEMMA RootIsTop ==
  ASSUME NEW x, Leaves(x), x # <<>>
  PROVE  /\ Len(M!LevelAt(x)[M!Height(x)]) = 1 /\ (\E S : M!LevelAt(x)[M!Height(x)] \in Seq(S))
         /\ M!merkle_root(x) = M!LevelAt(x)[M!Height(x)][1]
<1>1. Len(x) >= 1
  BY DEF Leaves
<1>2. M!Height(x) \in 0..MaxLeaves /\ Len(M!LevelAt(x)[M!Height(x)]) <= 1
  BY TopOfTree
<1>3. GoodLevel(x, M!Height(x))
  BY <1>2, LevelsAreGood
<1>4. PICK S : M!LevelAt(x)[M!Height(x)] \in Seq(S)
  BY <1>3 DEF GoodLevel
<1>5. Len(M!LevelAt(x)[M!Height(x)]) >= 1
  BY <1>1, <1>3 DEF GoodLevel
<1>6. Len(M!LevelAt(x)[M!Height(x)]) = 1
  <2>1. PICK n \in Nat : n = Len(M!LevelAt(x)[M!Height(x)])
    BY <1>4
  <2>2. n <= 1 /\ n >= 1
    BY <1>2, <1>5, <2>1
  <2>3. n = 1
    BY <2>2
  <2> QED
    BY <2>1, <2>3
<1> QED
  BY <1>4, <1>6 DEF M!merkle_root

(* The hash after k steps of a proof is the node on level k above the leaf.*)
LEMMA ProofRuns ==
  ASSUME NEW x, Leaves(x), NEW i \in DOMAIN x
  PROVE  M!verify_tx_inclusion(M!merkle_root(x), M!merkle_proof(x, i - 1))
<1>1. PICK h \in 0..MaxLeaves : h = M!Height(x)
  BY TopOfTree
<1>2. h \in Nat /\ x \in Seq(Seq(Nat)) /\ x # <<>> /\ i \in Nat /\ i \in 1..Len(x)
  BY LedgerAssumption DEF Leaves
<1> DEFINE p == M!merkle_proof(x, i - 1)
           lev == M!LevelAt(x)
           idx == M!IndexAt(i - 1)
           run == M!RunningHash(p)
<1>3. /\ p.leaf = x[i] /\ p.root = M!merkle_root(x)
      /\ p.steps = [k \in 1..h |-> M!Sibling(M!Even(lev[k - 1]), idx[k - 1])]
  BY <1>1, <1>2 DEF M!merkle_proof
<1> HIDE DEF p
<1>4. Len(p.steps) = h
  <2> DEFINE T == {p.steps[k] : k \in 1..h}
  <2>1. p.steps \in [1..h -> T]
    BY <1>3
  <2> HIDE DEF T
  <2> QED
    BY <1>2, <2>1
<1> DEFINE G == {k \in 0..h : idx[k] \in 0..(Len(lev[k]) - 1) /\ run[k] = lev[k][idx[k] + 1]}
<1>5. 0 \in G
  <2>1. 0 \in 0..h /\ 0 \in 0..MaxLeaves
    BY <1>2, LedgerAssumption
  <2>2. lev[0] = x /\ idx[0] = i - 1 /\ run[0] = x[i]
    BY <1>2, <1>3, <1>4, <2>1, Levels, Halving, Running
  <2> QED
    BY <1>2, <2>1, <2>2
<1>6. ASSUME NEW k \in 0..(h - 1), k \in G PROVE k + 1 \in G
  <2>1. /\ k + 1 \in 1..M!Height(x) /\ (k + 1) - 1 = k /\ k + 1 \in 0..MaxLeaves /\ k + 1 # 0
        /\ k + 1 \in 0..h /\ k + 1 \in 1..h
    BY <1>1, <1>2, LedgerAssumption
  <2>2. PICK S : lev[k] \in Seq(S) /\ Len(lev[k]) > 1 /\ lev[k + 1] = M!NextLevel(lev[k])
    BY <2>1, HashedLevel
  <2>3. idx[k + 1] = idx[k] \div 2
    BY <2>1, Halving
  <2>4. run[k + 1] = Absorb(run[k], p.steps[k + 1])
    BY <1>2, <1>4, <2>1, Running
  <2>5. p.steps[k + 1] = M!Sibling(M!Even(lev[k]), idx[k])
    BY <1>3, <2>1
  <2>6. PICK n \in Nat, a \in Nat : n = Len(lev[k]) /\ a = idx[k] /\ a < n /\ n > 1 /\ run[k] = lev[k][a + 1]
    BY <1>6, <2>2
  <2>7. PICK m \in Nat : /\ 2 * m \in {n, n + 1} /\ Len(lev[k + 1]) = m
                         /\ \A j \in 1..m : lev[k + 1][j] = <<M!Even(lev[k])[2 * j - 1], M!Even(lev[k])[2 * j]>>
    <3>1. PICK m \in Nat :
            /\ 2 * m \in {Len(lev[k]), Len(lev[k]) + 1} /\ Len(M!NextLevel(lev[k])) = m
            /\ \A j \in 1..m : M!NextLevel(lev[k])[j] = <<M!Even(lev[k])[2 * j - 1], M!Even(lev[k])[2 * j]>>
      <4>1. PICK y \in Seq(S) : y = lev[k] /\ Len(y) > 1
        BY <2>2
      <4> QED
        BY <4>1, LevelAbove
    <3> QED
      BY <2>2, <2>6, <3>1
  <2>8. M!Even(lev[k])[a + 1] = lev[k][a + 1]
    <3>1. PICK y \in Seq(S) : y = lev[k] /\ Len(y) > 1
      BY <2>2
    <3>2. \A j \in 1..Len(y) : M!Even(y)[j] = y[j]
      BY <3>1, EvenLevel
    <3>3. a + 1 \in 1..n
      BY <2>6
    <3> QED
      BY <2>6, <3>1, <3>2, <3>3
  <2>9. a \div 2 \in 0..(m - 1) /\ (a \div 2) + 1 \in 1..m
    <3>1. a < 2 * m
      BY <2>6, <2>7
    <3> QED
      BY <3>1
  <2>10. run[k + 1] = lev[k + 1][(a \div 2) + 1]
    <3>1. CASE a % 2 = 0
      <4>1. 2 * ((a \div 2) + 1) - 1 = a + 1 /\ 2 * ((a \div 2) + 1) = a + 2
        BY <3>1
      <4>2. lev[k + 1][(a \div 2) + 1] = <<M!Even(lev[k])[a + 1], M!Even(lev[k])[a + 2]>>
        BY <2>7, <2>9, <4>1
      <4>3. p.steps[k + 1].position = "right" /\ p.steps[k + 1].hash = M!Even(lev[k])[a + 2]
        BY <2>5, <2>6, <3>1 DEF M!Sibling
      <4> QED
        BY <2>4, <2>6, <2>8, <4>2, <4>3 DEF Absorb, M!_hash_pair
    <3>2. CASE a % 2 # 0
      <4>1. 2 * ((a \div 2) + 1) - 1 = a /\ 2 * ((a \div 2) + 1) = a + 1
        BY <3>2
      <4>2. lev[k + 1][(a \div 2) + 1] = <<M!Even(lev[k])[a], M!Even(lev[k])[a + 1]>>
        BY <2>7, <2>9, <4>1
      <4>3. p.steps[k + 1].position = "left" /\ p.steps[k + 1].hash = M!Even(lev[k])[a]
        BY <2>5, <2>6, <3>2 DEF M!Sibling
      <4> QED
        BY <2>4, <2>6, <2>8, <4>2, <4>3 DEF Absorb, M!_hash_pair
    <3> QED
      BY <3>1, <3>2
  <2> QED
    BY <2>1, <2>3, <2>6, <2>7, <2>9, <2>10
<1>7. h \in G
  <2> HIDE DEF G
  <2>1. \A k \in 0..(h - 1) : k \in G => k + 1 \in G
    BY <1>6
  <2>2. \A k \in 0..h : k \in G
    BY <1>2, <1>5, <2>1, UpTo
  <2> QED
    BY <1>2, <2>2
<1>8. idx[h] = 0 /\ run[h] = lev[h][1] /\ M!merkle_root(x) = lev[h][1]
  <2>1. Len(lev[h]) = 1 /\ M!merkle_root(x) = lev[h][1]
    BY <1>1, <1>2, RootIsTop
  <2>2. idx[h] \in 0..(1 - 1) /\ run[h] = lev[h][idx[h] + 1]
    BY <1>7, <2>1
  <2>3. idx[h] = 0
    BY <2>2
  <2> QED
    BY <2>1, <2>2, <2>3
<1> QED
  BY <1>3, <1>4, <1>8 DEF M!verify_tx_inclusion, M!verify_merkle_proof, p

-----------------------------------------------------------------------------
(* Equal levels come from equal levels.                                    *)
LEMMA EvenBinds ==
  ASSUME NEW S, NEW x \in Seq(S), NEW y \in Seq(S), Len(x) > 1, Len(y) > 1, Distinct(y),
         Len(x) <= Len(y), M!Even(x) = M!Even(y)
  PROVE  x = y
<1>1. PICK n \in Nat, m \in Nat : n = Len(x) /\ m = Len(y) /\ n > 1 /\ n <= m
  OBVIOUS
<1>2. \A i \in 1..n : M!Even(x)[i] = x[i]
  BY <1>1, EvenLevel
<1>3. \A i \in 1..m : M!Even(y)[i] = y[i]
  BY <1>1, EvenLevel
<1>4. CASE n = m
  <2>1. \A i \in 1..n : x[i] = y[i]
    BY <1>2, <1>3, <1>4
  <2> QED
    <3>1. x \in [1..n -> S] /\ y \in [1..n -> S]
      <4>1. x \in [1..Len(x) -> S] /\ y \in [1..Len(y) -> S]
        OBVIOUS
      <4> QED
        BY <1>1, <1>4, <4>1
    <3> QED
      BY <2>1, <3>1
<1>5. CASE n # m
  <2>1. Len(M!Even(x)) \in {n, n + 1} /\ Len(M!Even(y)) \in {m, m + 1} /\ Len(M!Even(x)) = Len(M!Even(y))
    BY <1>1, EvenLevel
  <2>2. m = n + 1 /\ Len(M!Even(x)) = n + 1
    BY <1>1, <1>5, <2>1, EvenLevel
  <2>3. M!Even(x)[n + 1] = x[n]
    BY <1>1, <2>2, EvenLevel
  <2>4. y[n + 1] = y[n] /\ n \in 1..m /\ n + 1 \in 1..m
    <3>1. n \in 1..n /\ n \in 1..m /\ n + 1 \in 1..m
      BY <1>1, <2>2
    <3>2. y[n] = x[n]
      BY <1>2, <1>3, <3>1
    <3>3. y[n + 1] = x[n]
      BY <1>3, <2>3, <3>1
    <3> QED
      BY <3>1, <3>2, <3>3
  <2>5. DOMAIN y = 1..m
    BY <1>1
  <2>6. n = n + 1
    BY <2>4, <2>5 DEF Distinct
  <2> QED
    BY <2>6
<1> QED
  BY <1>4, <1>5

LEMMA NextBinds ==
  ASSUME NEW S, NEW x \in Seq(S), NEW y \in Seq(S), Len(x) > 1, Len(y) > 1, Distinct(x), Distinct(y),
         M!NextLevel(x) = M!NextLevel(y)
  PROVE  x = y
<1>1. PICK m \in Nat : /\ Len(M!Even(x)) = 2 * m /\ Len(M!NextLevel(x)) = m
                       /\ \A i \in 1..m : M!NextLevel(x)[i] = <<M!Even(x)[2 * i - 1], M!Even(x)[2 * i]>>
  BY LevelAbove
<1>2. /\ Len(M!Even(y)) = 2 * m
      /\ \A i \in 1..m : M!NextLevel(y)[i] = <<M!Even(y)[2 * i - 1], M!Even(y)[2 * i]>>
  <2>1. PICK w \in Nat : /\ Len(M!Even(y)) = 2 * w /\ Len(M!NextLevel(y)) = w
                         /\ \A i \in 1..w : M!NextLevel(y)[i] = <<M!Even(y)[2 * i - 1], M!Even(y)[2 * i]>>
    BY LevelAbove
  <2> QED
    BY <1>1, <2>1
<1>3. \A i \in 1..m : M!Even(x)[2 * i - 1] = M!Even(y)[2 * i - 1] /\ M!Even(x)[2 * i] = M!Even(y)[2 * i]
  BY <1>1, <1>2
<1>4. ASSUME NEW j \in 1..(2 * m) PROVE M!Even(x)[j] = M!Even(y)[j]
  <2>1. CASE j % 2 = 0
    <3>1. j \div 2 \in 1..m /\ 2 * (j \div 2) = j
      BY <2>1
    <3> QED
      BY <1>3, <3>1
  <2>2. CASE j % 2 # 0
    <3>1. (j + 1) \div 2 \in 1..m /\ 2 * ((j + 1) \div 2) - 1 = j
      BY <2>2
    <3> QED
      BY <1>3, <3>1
  <2> QED
    BY <2>1, <2>2
<1>5. M!Even(x) \in Seq(S) /\ M!Even(y) \in Seq(S)
  BY EvenLevel
<1>6. M!Even(x) = M!Even(y)
  <2> DEFINE a == M!Even(x)
             b == M!Even(y)
  <2>1. a \in Seq(S) /\ b \in Seq(S) /\ Len(a) = 2 * m /\ Len(b) = 2 * m /\ \A j \in 1..(2 * m) : a[j] = b[j]
    BY <1>1, <1>2, <1>4, <1>5
  <2> HIDE DEF a, b
  <2>2. a = b
    BY <2>1
  <2> QED
    BY <2>2 DEF a, b
<1>7. CASE Len(x) <= Len(y)
  BY <1>6, <1>7, EvenBinds
<1>8. CASE Len(y) <= Len(x)
  BY <1>6, <1>8, EvenBinds
<1> QED
  BY <1>7, <1>8

LEMMA FirstNode ==
  ASSUME NEW S, NEW x \in Seq(S), Len(x) > 1
  PROVE  \E a, b : M!NextLevel(x)[1] = <<a, b>>
<1>1. PICK m \in Nat : /\ m >= 1
                       /\ \A i \in 1..m : M!NextLevel(x)[i] = <<M!Even(x)[2 * i - 1], M!Even(x)[2 * i]>>
  BY LevelAbove
<1>2. 1 \in 1..m
  BY <1>1
<1> QED
  BY <1>1, <1>2

LEMMA RootsBind ==
  ASSUME NEW x, NEW y, Leaves(x), Leaves(y), x # <<>>, y # <<>>, M!Height(x) <= M!Height(y),
         M!merkle_root(x) = M!merkle_root(y)
  PROVE  x = y
<1>1. PICK h \in Nat, d \in Nat : h = M!Height(x) /\ h + d = M!Height(y) /\ h <= MaxLeaves /\ h + d <= MaxLeaves
  <2>1. M!Height(x) \in 0..MaxLeaves /\ M!Height(y) \in 0..MaxLeaves
    BY TopOfTree
  <2>2. M!Height(y) - M!Height(x) \in Nat
    BY <2>1, LedgerAssumption
  <2> QED
    BY <2>1, <2>2, LedgerAssumption
<1> DEFINE u == M!LevelAt(x)
           v == M!LevelAt(y)
           G == {j \in 0..h : u[h - j] = v[(h + d) - j]}
<1>2. 0 \in G
  <2>1. u[h] = v[h + d]
    <3>1. Len(u[h]) = 1 /\ Len(v[h + d]) = 1 /\ u[h][1] = v[h + d][1]
      BY <1>1, RootIsTop
    <3>2. PICK S : u[h] \in Seq(S)
      BY <1>1, RootIsTop
    <3>3. PICK T : v[h + d] \in Seq(T)
      BY <1>1, RootIsTop
    <3> HIDE DEF u, v
    <3> QED
      BY <3>1, <3>2, <3>3
  <2> QED
    BY <2>1
<1>3. ASSUME NEW j \in 0..(h - 1), j \in G PROVE j + 1 \in G
  <2>1. h - j \in 1..M!Height(x) /\ (h + d) - j \in 1..M!Height(y)
    BY <1>1
  <2> DEFINE a == u[(h - j) - 1]
             b == v[((h + d) - j) - 1]
  <2>2. PICK S : a \in Seq(S) /\ Len(a) > 1 /\ Distinct(a) /\ u[h - j] = M!NextLevel(a)
    BY <2>1, HashedLevel
  <2>3. PICK T : b \in Seq(T) /\ Len(b) > 1 /\ Distinct(b) /\ v[(h + d) - j] = M!NextLevel(b)
    BY <2>1, HashedLevel
  <2>4. u[h - j] = v[(h + d) - j]
    BY <1>3
  <2> HIDE DEF a, b
  <2>5. a \in Seq(S \cup T) /\ b \in Seq(S \cup T)
    BY <2>2, <2>3
  <2>6. a = b
    BY <2>2, <2>3, <2>4, <2>5, NextBinds
  <2>7. (h - j) - 1 = h - (j + 1) /\ ((h + d) - j) - 1 = (h + d) - (j + 1) /\ j + 1 \in 0..h
    OBVIOUS
  <2> QED
    BY <2>6, <2>7 DEF a, b
<1>4. x = v[d]
  <2>1. h \in G
    <3> HIDE DEF G
    <3>1. \A j \in 0..(h - 1) : j \in G => j + 1 \in G
      BY <1>3
    <3>2. \A j \in 0..h : j \in G
      BY <1>2, <3>1, UpTo
    <3> QED
      BY <3>2
  <2>2. u[0] = v[d]
    <3>1. h - h = 0 /\ (h + d) - h = d
      OBVIOUS
    <3> QED
      BY <2>1, <3>1
  <2> QED
    BY <1>1, <2>2, Levels, LedgerAssumption
<1>5. CASE d = 0
  BY <1>1, <1>4, <1>5, Levels, LedgerAssumption
<1>6. CASE d # 0
  <2>1. d \in 1..M!Height(y)
    BY <1>1, <1>6
  <2>2. PICK S : v[d - 1] \in Seq(S) /\ Len(v[d - 1]) > 1 /\ v[d] = M!NextLevel(v[d - 1])
    BY <2>1, HashedLevel
  <2>3. PICK a, b : v[d][1] = <<a, b>>
    BY <2>2, FirstNode
  <2>4. Len(x[1]) = 1
    <3>1. 1 \in DOMAIN x
      BY DEF Leaves
    <3> QED
      BY <3>1 DEF Leaves
  <2> QED
    BY <1>4, <2>3, <2>4
<1> QED
  BY <1>5, <1>6

LEMMA RootIsNotEmpty ==
  ASSUME NEW x, Leaves(x), x # <<>>
  PROVE  M!merkle_root(x) # <<>>
<1>1. PICK h \in Nat : h = M!Height(x) /\ h <= MaxLeaves
  BY TopOfTree, LedgerAssumption
<1>2. M!merkle_root(x) = M!LevelAt(x)[h][1]
  BY <1>1, RootIsTop
<1>3. CASE h = 0
  <2>1. M!merkle_root(x) = x[1]
    BY <1>1, <1>2, <1>3, Levels, LedgerAssumption
  <2>2. 1 \in DOMAIN x
    BY DEF Leaves
  <2>3. Len(x[1]) = 1
    BY <2>2 DEF Leaves
  <2> QED
    BY <2>1, <2>3
<1>4. CASE h # 0
  <2>1. h \in 1..M!Height(x)
    BY <1>1, <1>4
  <2>2. PICK S : /\ M!LevelAt(x)[h - 1] \in Seq(S) /\ Len(M!LevelAt(x)[h - 1]) > 1
                 /\ M!LevelAt(x)[h] = M!NextLevel(M!LevelAt(x)[h - 1])
    BY <2>1, HashedLevel
  <2>3. PICK a, b : M!LevelAt(x)[h][1] = <<a, b>>
    BY <2>2, FirstNode
  <2> QED
    BY <1>2, <2>3
<1> QED
  BY <1>3, <1>4

(* Two blocks with the same root are the same block.                       *)
LEMMA SameRootSameBlock ==
  ASSUME NEW x, NEW y, Leaves(x), Leaves(y), M!merkle_root(x) = M!merkle_root(y)
  PROVE  x = y
<1>1. CASE x = <<>> \/ y = <<>>
  <2>1. M!merkle_root(<<>>) = <<>>
    BY DEF M!merkle_root
  <2> QED
    BY <1>1, <2>1, RootIsNotEmpty
<1>2. CASE x # <<>> /\ y # <<>>
  <2>1. M!Height(x) \in 0..MaxLeaves /\ M!Height(y) \in 0..MaxLeaves
    BY TopOfTree
  <2>2. M!Height(x) <= M!Height(y) \/ M!Height(y) <= M!Height(x)
    BY <2>1, LedgerAssumption
  <2> QED
    BY <1>2, <2>2, RootsBind
<1> QED
  BY <1>1, <1>2

-----------------------------------------------------------------------------
TreeInv ==
  /\ Leaves(block) /\ Leaves(other)
  /\ \A i \in DOMAIN block : block[i] = M!Leaf(i)

LEMMA TreeInit == M!Init => TreeInv
<1> SUFFICES ASSUME M!Init PROVE TreeInv
  OBVIOUS
<1>1. block = <<>> /\ other = <<>>
  BY DEF M!Init
<1>2. ASSUME NEW x, x = <<>> PROVE Leaves(x)
  <2>1. x \in Seq(Seq(Nat)) /\ Len(x) = 0 /\ DOMAIN x = {}
    BY <1>2
  <2> QED
    BY <2>1, LedgerAssumption DEF Leaves, Distinct
<1> QED
  BY <1>1, <1>2 DEF TreeInv

LEMMA LeafAdded ==
  ASSUME NEW x, Leaves(x), NEW n \in Nat, Len(x) < MaxLeaves, \A i \in DOMAIN x : x[i] # M!Leaf(n)
  PROVE  Leaves(Append(x, M!Leaf(n)))
<1>1. x \in Seq(Seq(Nat)) /\ Distinct(x) /\ \A i \in DOMAIN x : Len(x[i]) = 1
  BY DEF Leaves
<1>2. PICK w \in Nat : w = Len(x) /\ DOMAIN x = 1..w
  BY <1>1
<1> DEFINE f == M!Leaf(n)
           y == Append(x, f)
<1>3. f \in Seq(Nat) /\ Len(f) = 1
  BY DEF M!Leaf
<1> HIDE DEF f
<1>4. /\ y \in Seq(Seq(Nat)) /\ Len(y) = w + 1 /\ DOMAIN y = 1..(w + 1) /\ y[w + 1] = f
      /\ \A i \in 1..w : y[i] = x[i]
  BY <1>1, <1>2, <1>3
<1> HIDE DEF y
<1>5. \A i \in 1..w : x[i] # f
  BY <1>2 DEF f
<1>6. Distinct(y)
  <2>1. ASSUME NEW i \in 1..(w + 1), NEW j \in 1..(w + 1), y[i] = y[j] PROVE i = j
    <3>1. CASE i = w + 1 /\ j # w + 1
      <4>1. j \in 1..w
        BY <3>1
      <4> QED
        BY <1>4, <1>5, <2>1, <3>1, <4>1
    <3>2. CASE i # w + 1 /\ j = w + 1
      <4>1. i \in 1..w
        BY <3>2
      <4> QED
        BY <1>4, <1>5, <2>1, <3>2, <4>1
    <3>3. CASE i # w + 1 /\ j # w + 1
      <4>1. i \in 1..w /\ j \in 1..w
        BY <3>3
      <4> QED
        BY <1>1, <1>2, <1>4, <2>1, <4>1 DEF Distinct
    <3> QED
      BY <3>1, <3>2, <3>3
  <2> QED
    BY <1>4, <2>1 DEF Distinct
<1>7. \A i \in 1..(w + 1) : Len(y[i]) = 1
  <2>1. ASSUME NEW i \in 1..(w + 1) PROVE Len(y[i]) = 1
    <3>1. CASE i = w + 1
      BY <1>3, <1>4, <3>1
    <3>2. CASE i # w + 1
      <4>1. i \in 1..w
        BY <3>2
      <4> QED
        BY <1>1, <1>2, <1>4, <4>1
    <3> QED
      BY <3>1, <3>2
  <2> QED
    BY <2>1
<1>8. Len(y) <= MaxLeaves
  BY <1>2, <1>4, LedgerAssumption
<1>9. Leaves(y)
  BY <1>4, <1>6, <1>7, <1>8 DEF Leaves
<1> QED
  BY <1>9 DEF y, f

LEMMA TreeStep == TreeInv /\ [M!Next]_merkleVars => TreeInv'
<1> SUFFICES ASSUME TreeInv, [M!Next]_merkleVars PROVE TreeInv'
  OBVIOUS
<1>1. CASE UNCHANGED merkleVars
  <2>1. block' = block /\ other' = other
    BY <1>1 DEF merkleVars
  <2> QED
    BY <2>1 DEF TreeInv, Leaves, Distinct
<1>2. CASE M!Extend
  <2>1. /\ Len(block) < MaxLeaves /\ block' = Append(block, M!Leaf(Len(block) + 1)) /\ other' = other
    BY <1>2 DEF M!Extend
  <2>2. PICK b : b = block /\ Leaves(b) /\ \A i \in DOMAIN b : b[i] = M!Leaf(i)
    BY DEF TreeInv
  <2>3. PICK w \in Nat : w = Len(b) /\ DOMAIN b = 1..w /\ b \in Seq(Seq(Nat))
    BY <2>2 DEF Leaves
  <2>4. \A i \in DOMAIN b : b[i] # M!Leaf(w + 1)
    <3>1. ASSUME NEW i \in 1..w PROVE M!Leaf(i) # M!Leaf(w + 1)
      BY DEF M!Leaf
    <3> QED
      BY <2>2, <2>3, <3>1
  <2>5. PICK c : c = Append(b, M!Leaf(w + 1)) /\ Leaves(c)
    <3>1. Len(b) < MaxLeaves /\ w + 1 \in Nat
      BY <2>1, <2>2, <2>3
    <3>2. PICK n \in Nat : n = w + 1
      BY <3>1
    <3> QED
      BY <2>2, <2>4, <3>1, <3>2, LeafAdded
  <2>6. block' = c
    BY <2>1, <2>2, <2>3, <2>5
  <2>7. \A i \in DOMAIN c : c[i] = M!Leaf(i)
    <3>1. DOMAIN c = 1..(w + 1) /\ c[w + 1] = M!Leaf(w + 1) /\ \A i \in 1..w : c[i] = b[i]
      BY <2>3, <2>5
    <3>2. ASSUME NEW i \in 1..(w + 1) PROVE c[i] = M!Leaf(i)
      <4>1. CASE i = w + 1
        BY <3>1, <4>1
      <4>2. CASE i # w + 1
        <5>1. i \in 1..w
          BY <4>2
        <5> QED
          BY <2>2, <2>3, <3>1, <5>1
      <4> QED
        BY <4>1, <4>2
    <3> QED
      BY <3>1, <3>2
  <2> QED
    BY <2>1, <2>5, <2>6, <2>7 DEF TreeInv, Leaves, Distinct
<1>3. CASE M!ExtendOther
  <2>1. PICK n \in 1..MaxLeaves : /\ Len(other) < MaxLeaves /\ \A i \in DOMAIN other : other[i] # M!Leaf(n)
                                  /\ other' = Append(other, M!Leaf(n)) /\ block' = block
    BY <1>3 DEF M!ExtendOther
  <2>2. PICK b : b = other /\ Leaves(b)
    BY DEF TreeInv
  <2>3. n \in Nat
    BY LedgerAssumption
  <2>4. PICK c : c = Append(b, M!Leaf(n)) /\ Leaves(c)
    BY <2>1, <2>2, <2>3, LeafAdded
  <2>5. other' = c
    BY <2>1, <2>2, <2>4
  <2> QED
    BY <2>1, <2>4, <2>5 DEF TreeInv, Leaves, Distinct
<1> QED
  BY <1>1, <1>2, <1>3 DEF M!Next

LEMMA TreeIsSound == TreeInv => block \in Seq(Seq(Nat)) /\ M!ProofsVerify /\ M!RootBinds
<1> SUFFICES ASSUME TreeInv PROVE block \in Seq(Seq(Nat)) /\ M!ProofsVerify /\ M!RootBinds
  OBVIOUS
<1>1. PICK x, y : x = block /\ y = other /\ Leaves(x) /\ Leaves(y)
  BY DEF TreeInv
<1>2. \A i \in DOMAIN x : M!verify_tx_inclusion(M!merkle_root(x), M!merkle_proof(x, i - 1))
  BY <1>1, ProofRuns
<1>3. M!merkle_root(x) = M!merkle_root(y) => x = y
  BY <1>1, SameRootSameBlock
<1> QED
  BY <1>1, <1>2, <1>3 DEF M!ProofsVerify, M!RootBinds, Leaves

(* The compute ledger, for any validators, quorum, overlapping sessions,   *)
(* transactions and leaves (compute_ledger/service.py, repository.py,      *)
(* merkle.py, light_client.py): whatever the seals, approvals, rebuilds    *)
(* and lost sessions interleave to, a block keeps the transactions of its  *)
(* root, nothing is sealed on a block that never had its quorum, credits   *)
(* come from blocks that had it, and headers verify; every leaf of a tree  *)
(* has a proof, and the root binds the list.                               *)
THEOREM LedgerSound == MCSpec => []LedgerIsSound
<1> DEFINE allVars == <<part, ledgerVars, bridgeVars, merkleVars, spaceVars, friendVars, shareVars,
                        cloudVars>>
           AllInv == LedgerInv /\ BridgeInv /\ TreeInv
<1>1. MCInit => AllInv
  BY LedgerInit, BridgeInitInv, TreeInit DEF MCInit
<1>2. [MCNext]_allVars => [L!Next]_ledgerVars /\ [Next]_bridgeVars /\ [M!Next]_merkleVars
  BY DEF MCNext
<1>3. AllInv => LedgerIsSound
  BY ChainIsSound, TreeIsSound DEF BridgeInv, LedgerIsSound
<1> QED
  BY <1>1, <1>2, <1>3, LedgerStep, BridgeStep, TreeStep, PTL DEF MCSpec
=============================================================================
