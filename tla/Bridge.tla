-------------------------------- MODULE Bridge --------------------------------
(***************************************************************************)
(* BridgeService.transfer: credits of an account are burnt on the source   *)
(* chain and minted on the destination, in two blocks of two ledgers, with *)
(* nothing that makes the two one transaction.                             *)
(*                                                                         *)
(* Beside the transfers, the source chain seals jobs and settlements of    *)
(* the account.  A block is a transfer or a job.  One whose signers are    *)
(* short of the quorum waits for approvals, and no other is sealed until   *)
(* it has them.  An approval that read the block before that writes back   *)
(* an older list, and the block is no longer finalized (module Ledger).    *)
(* Balance rows may lag behind the blocks, so what get_balance finds is    *)
(* left open.  A replay also raises when a burn that is finalized has lost *)
(* the block that paid for it, or on the nonces of a block approved again: *)
(* those refusals are left out, the chain does more here.                  *)
(*                                                                         *)
(* POST /ledger/transactions takes any type from any signer: jobs stand    *)
(* for what it does to the source chain, SubmittedMint is a mint on the    *)
(* destination.                                                            *)
(***************************************************************************)
EXTENDS Integers, FiniteSets

CONSTANTS
  Transfers, Amounts,
  Jobs, Pay,    \* what a job adds to the account, or takes from it
  MaxMade       \* mints submitted in a behaviour, a bound

ASSUME AmountsAssumption == Amounts \in [Transfers -> Nat \ {0}]
ASSUME JobsAssumption == Pay \in [Jobs -> Int] /\ Jobs \cap Transfers = {} /\ MaxMade \in Nat

VARIABLES
  net,        \* credits minus debits that the finalized blocks replay to
  open,       \* sealed blocks that are not finalized
  final,      \* finalized blocks
  votes,      \* approvals in flight: the block, and whether they make the quorum
  at,         \* progress of each transfer
  minted,     \* transfers minted on the destination
  made,       \* other mints there
  taken,      \* transfers whose receipt such a mint has
  cosigned,   \* the relay's own signers meet the quorum
  cleared     \* a block has lost its finality (history)

bridgeVars == <<net, open, final, votes, at, minted, made, taken, cosigned, cleared>>

Blocks == Transfers \cup Jobs
Worth(b) == IF b \in Transfers THEN - Amounts[b] ELSE Pay[b]

BridgeTypeOK ==
  /\ net \in Int /\ open \subseteq Blocks /\ final \subseteq Blocks
  /\ votes \subseteq Blocks \X BOOLEAN
  /\ at \in [Transfers -> {"new", "checked", "sealing", "burnt", "proved", "done", "failed"}]
  /\ minted \subseteq Transfers /\ made \in 0..MaxMade /\ taken \subseteq Transfers
  /\ cosigned \in BOOLEAN /\ cleared \in BOOLEAN

Init ==
  /\ net = 0 /\ open = {} /\ final = {} /\ votes = {}
  /\ at = [t \in Transfers |-> "new"] /\ minted = {} /\ made = 0 /\ taken = {}
  /\ cosigned \in BOOLEAN /\ cleared = FALSE

Go(t, pc) == at' = [at EXCEPT ![t] = pc]

-----------------------------------------------------------------------------
(* The source chain.                                                       *)

(* _persist_block: with the quorum the block is finalized at once.  The    *)
(* unique height fails every other seal that read the same tip.            *)
Persist(b, pcs) ==
  /\ IF cosigned THEN final' = final \cup {b} /\ net' = net + Worth(b) /\ UNCHANGED open
                 ELSE open' = open \cup {b} /\ UNCHANGED <<final, net>>
  /\ at' = [t \in Transfers |-> IF t = b THEN pcs[cosigned]
                                ELSE IF at[t] = "sealing" THEN "failed" ELSE at[t]]

(* A job or a settlement is sealed; it may take the account below zero.    *)
Attest(j) ==
  /\ j \notin open \cup final /\ open = {}
  /\ Persist(j, [c \in BOOLEAN |-> "failed"])
  /\ UNCHANGED <<votes, minted, made, taken, cosigned, cleared>>

BRIDGE_BURN_trusting(t) == TRUE
(* apply_transaction of a burn, in the replay of every seal and approval.  *)
BRIDGE_BURN(t) == net >= Amounts[t]

Applies(b) == b \in Transfers => BRIDGE_BURN(b)

(* approve_block reads a waiting block; an approval that makes the quorum  *)
(* replays the chain and the block.                                        *)
approve_block(b, quorum) ==
  /\ b \in open /\ (quorum => Applies(b))
  /\ votes' = votes \cup {<<b, quorum>>}
  /\ UNCHANGED <<net, open, final, at, minted, made, taken, cosigned, cleared>>

(* It writes back its list and its flag, whatever the block has become.    *)
(* A burn that takes effect here resumes no transfer.                      *)
update_block_approvals(b, quorum) ==
  /\ <<b, quorum>> \in votes /\ votes' = votes \ {<<b, quorum>>}
  /\ IF quorum
     THEN /\ final' = final \cup {b} /\ open' = open \ {b}
          /\ net' = IF b \in final THEN net ELSE net + Worth(b)
          /\ UNCHANGED cleared
     ELSE /\ final' = final \ {b} /\ open' = open \cup {b}
          /\ net' = IF b \in final THEN net - Worth(b) ELSE net
          /\ cleared' = (cleared \/ b \in final)
  /\ UNCHANGED <<at, minted, made, taken, cosigned>>

(* quorum_threshold and extra_validator_private_keys are configuration.    *)
Reconfigure ==
  /\ cosigned' = ~cosigned
  /\ UNCHANGED <<net, open, final, votes, at, minted, made, taken, cleared>>

-----------------------------------------------------------------------------
(* A transfer.                                                             *)

(* The balance is read from its row, before anything is locked.            *)
get_balance(t) ==
  /\ at[t] = "new" /\ \E pc \in {"checked", "failed"} : Go(t, pc)
  /\ UNCHANGED <<net, open, final, votes, minted, made, taken, cosigned, cleared>>

(* submit_transaction on the source: no block is waiting, and the replay   *)
(* applies the burn; then the block is committed.  Without the quorum the  *)
(* transfer is refused, and its burn waits.                                *)
SubmitBurn(t) ==
  /\ at[t] = "checked"
  /\ Go(t, IF open = {} /\ BRIDGE_BURN(t) THEN "sealing" ELSE "failed")
  /\ UNCHANGED <<net, open, final, votes, minted, made, taken, cosigned, cleared>>
CommitBurn(t) ==
  /\ at[t] = "sealing"
  /\ Persist(t, [c \in BOOLEAN |-> IF c THEN "burnt" ELSE "failed"])
  /\ UNCHANGED <<votes, minted, made, taken, cosigned, cleared>>

(* The inclusion proof, and the scan for the receipt of this burn.         *)
list_sealed_receipts(t) ==
  /\ at[t] = "burnt" /\ Go(t, IF t \in taken THEN "failed" ELSE "proved")
  /\ UNCHANGED <<net, open, final, votes, minted, made, taken, cosigned, cleared>>

(* The mint is sealed on the destination, or refused there.                *)
SubmitMint(t) ==
  /\ at[t] = "proved"
  /\ \/ minted' = minted \cup {t} /\ Go(t, "done")
     \/ UNCHANGED minted /\ Go(t, "failed")
  /\ UNCHANGED <<net, open, final, votes, made, taken, cosigned, cleared>>

(* A mint that a client submits needs a receipt_id and nothing else; it    *)
(* may be that of a burn in a block.                                       *)
SubmittedMint ==
  /\ made < MaxMade /\ made' = made + 1
  /\ \E S \in {{}} \cup {{t} : t \in (open \cup final) \cap Transfers} : taken' = taken \cup S
  /\ UNCHANGED <<net, open, final, votes, at, minted, cosigned, cleared>>

(* The request's process dies: what was sealed stays.                      *)
Crash(t) ==
  /\ at[t] \in {"checked", "sealing", "burnt", "proved"} /\ Go(t, "failed")
  /\ UNCHANGED <<net, open, final, votes, minted, made, taken, cosigned, cleared>>

Next ==
  \/ \E j \in Jobs : Attest(j)
  \/ \E b \in Blocks, quorum \in BOOLEAN :
       approve_block(b, quorum) \/ update_block_approvals(b, quorum)
  \/ Reconfigure \/ SubmittedMint
  \/ \E t \in Transfers :
       \/ get_balance(t) \/ SubmitBurn(t) \/ CommitBurn(t) \/ list_sealed_receipts(t)
       \/ SubmitMint(t) \/ Crash(t)

Spec == Init /\ [][Next]_bridgeVars

-----------------------------------------------------------------------------
(* The bridge implements CreditFlow: whatever is read before the burn,     *)
(* overlaps it or dies after it, credits leave only an account that holds  *)
(* them, unless a block had lost its finality, and the mint of a transfer  *)
(* happens at most once and of a burn that stands.  The burn that a late   *)
(* approval takes back is never one that was minted.  Mints that clients   *)
(* submit are counted apart: nothing ties them to a burn.                  *)
Flow == INSTANCE CreditFlow
          WITH Parcels <- Transfers, Size <- Amounts, home <- net,
               gone <- final \cap Transfers, come <- minted, made <- made, shaken <- cleared
FlowSpec == Flow!Spec
=============================================================================
