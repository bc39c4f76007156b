-------------------------------- MODULE Ledger --------------------------------
(***************************************************************************)
(* One chain of the compute ledger: LedgerService over LedgerRepository.   *)
(*                                                                         *)
(* An API request is a database session at READ COMMITTED: each of its     *)
(* queries sees what is committed at that moment, and everything it writes *)
(* commits at its end.  What serialises two sessions are the unique keys   *)
(* (chain, sender, nonce) and (chain, height), the replay of the nonces    *)
(* and the row lock of an UPDATE; no row is read FOR UPDATE.               *)
(*                                                                         *)
(* A transaction is its nonce: all of them come from one sender, the relay *)
(* or a client that numbers its own.  Balances are the set of transactions *)
(* they account for.  Pending transactions are sealed in nonce order (the  *)
(* code orders them by the start of their session).                        *)
(***************************************************************************)
EXTENDS Integers, FiniteSets, Sequences, FiniteSetsExt

CONSTANTS
  Validators, Relay,
  Quorum,       \* quorum_threshold
  Sessions,
  MaxTx,        \* nonces
  MaxOps        \* requests in a behaviour

VARIABLES
  chain,      \* committed blocks, genesis first
  txAt,       \* where each transaction is: Absent, Pending or its block
  balances,   \* transactions in ledger_balances
  active,     \* active validators
  settings,   \* auto_seal, and the validators of extra_validator_private_keys
  ses,        \* the open sessions
  ops

ledgerVars == <<chain, txAt, balances, active, settings, ses, ops>>

Tx == 1..MaxTx
Absent == -2
Pending == -1
\* `cleared' is history: a late approval has taken back `finalized'.
LedgerBlock == [txs : SUBSET Tx, approvals : SUBSET Validators, final : BOOLEAN, cleared : BOOLEAN]
LedgerTransaction == [Tx -> Absent..(MaxTx + 1)]   \* the block_id column
LedgerBalance == SUBSET Tx
LedgerValidator == SUBSET Validators
Idle == [pc |-> "idle", tx |-> 0, txs |-> {}, at |-> 0, approvals |-> {}, state |-> {}]

TypeOK ==
  /\ chain \in Seq(LedgerBlock) /\ txAt \in LedgerTransaction
  /\ balances \in LedgerBalance /\ active \in LedgerValidator
  /\ settings \in [auto_seal : BOOLEAN, extra : SUBSET Validators]
  /\ ses \in [Sessions ->
       [pc : {"idle", "nonce", "insert", "inserted", "pending", "persist",
              "approve", "finalize", "rebuild"},
        tx : 0..MaxTx, txs : SUBSET Tx, at : Nat, approvals : SUBSET Validators,
        state : SUBSET Tx]]
  /\ ops \in 0..MaxOps

Init ==
  /\ chain = <<>> /\ txAt = [n \in Tx |-> Absent] /\ balances = {} /\ active = {}
  /\ settings \in [auto_seal : BOOLEAN, extra : SUBSET (Validators \ {Relay})]
  /\ ses = [s \in Sessions |-> Idle] /\ ops = 0

-----------------------------------------------------------------------------
Final == {i \in DOMAIN chain : chain[i].final}
list_sealed_transactions == UNION {chain[i].txs : i \in Final}
get_max_nonce == Max({0} \cup {n \in Tx : txAt[n] # Absent})

(* Who signs a new block at once.                                          *)
Signers == {Relay} \cup settings.extra

Step(s, next) == ses' = [ses EXCEPT ![s] = next]

(* The session ends without a commit: an error, or a lost process.         *)
Rollback(s) ==
  /\ Step(s, Idle)
  /\ UNCHANGED <<chain, txAt, balances, active>>

Begin(s, pc) ==
  /\ ses[s].pc = "idle" /\ ops < MaxOps /\ ops' = ops + 1
  /\ Step(s, [Idle EXCEPT !.pc = pc])
  /\ UNCHANGED <<chain, txAt, balances, active, settings>>

(* Genesis: the second of two first requests fails on the height.          *)
ensure_initialized ==
  /\ chain = <<>>
  /\ active' = Signers
  /\ chain' = <<[txs |-> {}, approvals |-> Signers,
                 final |-> Cardinality(Signers) >= Quorum, cleared |-> FALSE]>>
  /\ UNCHANGED <<txAt, balances, settings, ses, ops>>

register_validator(v) ==
  /\ chain # <<>> /\ v \notin active
  /\ active' = active \cup {v}
  /\ UNCHANGED <<chain, txAt, balances, settings, ses, ops>>

-----------------------------------------------------------------------------
(* A transaction from a client brings its nonce, which may skip some; one  *)
(* that the relay signs, for a job (record_job_completed) or a settlement, *)
(* takes the next.                                                         *)
BeginSubmit(s) == chain # <<>> /\ Begin(s, "nonce")

ReadNonce(s, nonces) ==
  /\ ses[s].pc = "nonce"
  /\ \E n \in nonces : Step(s, [ses[s] EXCEPT !.pc = "insert", !.tx = n])
  /\ UNCHANGED <<chain, txAt, balances, active, settings, ops>>

submit_transaction(s) == ReadNonce(s, {n \in Tx : n > get_max_nonce})
record_job_completed(s) == ReadNonce(s, Tx \cap {get_max_nonce + 1})
settle_credits(s) == ReadNonce(s, Tx \cap {get_max_nonce + 1})
submit_peer_attestation(s) == submit_transaction(s)

Inserted(n) == {s \in Sessions : ses[s].tx = n /\ ses[s].pc \in {"inserted", "pending", "persist"}}

(* The INSERT waits for an open session with the same nonce.               *)
add_pending_transaction(s) ==
  /\ ses[s].pc = "insert" /\ Inserted(ses[s].tx) = {}
  /\ IF txAt[ses[s].tx] # Absent
     THEN Rollback(s)
     ELSE /\ Step(s, [ses[s] EXCEPT !.pc = "inserted"])
          /\ UNCHANGED <<chain, txAt, balances, active>>
  /\ UNCHANGED <<settings, ops>>

CommitPending(s) ==
  /\ ses[s].pc = "inserted" /\ ses[s].tx # 0 /\ ~settings.auto_seal
  /\ txAt' = [txAt EXCEPT ![ses[s].tx] = Pending]
  /\ Step(s, Idle)
  /\ UNCHANGED <<chain, balances, active, settings, ops>>

(* seal_pending, called by a submission or by POST /ledger/seal.           *)
BeginSeal(s) == chain # <<>> /\ Begin(s, "inserted")

list_pending_transactions(s) ==
  {n \in Tx : txAt[n] = Pending} \cup ({ses[s].tx} \ {0})

(* An unfinalized block refuses the seal, and with it the transaction that *)
(* was submitted; so does, without an error, an empty list.                *)
ReadPending(s) ==
  /\ ses[s].pc = "inserted" /\ (ses[s].tx # 0 => settings.auto_seal)
  /\ IF (\E i \in DOMAIN chain : ~chain[i].final) \/ list_pending_transactions(s) = {}
     THEN Rollback(s)
     ELSE /\ Step(s, [ses[s] EXCEPT !.pc = "pending", !.txs = list_pending_transactions(s)])
          /\ UNCHANGED <<chain, txAt, balances, active>>
  /\ UNCHANGED <<settings, ops>>

(* apply_transaction raises on a nonce that is not above all earlier ones. *)
apply_transaction(state, txs) == \A n \in txs, k \in state : n > k

ReadTip_any(s) ==
  LET sealed == UNION {chain[i].txs : i \in DOMAIN chain}
  IN /\ ses[s].pc = "pending"
     /\ IF ~apply_transaction(sealed, ses[s].txs)
        THEN Rollback(s)
        ELSE /\ Step(s, [ses[s] EXCEPT !.pc = "persist", !.at = Len(chain),
                           !.state = sealed \cup ses[s].txs])
             /\ UNCHANGED <<chain, txAt, balances, active>>
     /\ UNCHANGED <<settings, ops>>
(* The finalized tip and the replay of the finalized transactions.         *)
ReadTip(s) ==
  /\ ses[s].pc = "pending"
  /\ IF Final = {} \/ ~apply_transaction(list_sealed_transactions, ses[s].txs)
     THEN Rollback(s)
     ELSE /\ Step(s, [ses[s] EXCEPT !.pc = "persist", !.at = Max(Final),
                        !.state = list_sealed_transactions \cup ses[s].txs])
          /\ UNCHANGED <<chain, txAt, balances, active>>
  /\ UNCHANGED <<settings, ops>>

(* A block of that height fails the insert; otherwise the rows of the      *)
(* transactions are pointed at the new block, wherever they were.          *)
_persist_block(s) ==
  LET final == Cardinality(Signers) >= Quorum
  IN /\ ses[s].pc = "persist"
     /\ IF Len(chain) > ses[s].at
        THEN Rollback(s)
        ELSE /\ chain' = Append(chain, [txs |-> ses[s].txs, approvals |-> Signers, final |-> final,
                                        cleared |-> FALSE])
             /\ txAt' = [n \in Tx |-> IF n \in ses[s].txs THEN Len(chain) + 1 ELSE txAt[n]]
             /\ balances' = IF final THEN ses[s].state ELSE balances
             /\ active' = active \cup Signers
             /\ Step(s, Idle)
     /\ UNCHANGED <<settings, ops>>

-----------------------------------------------------------------------------
(* approve_block of the last block: the row is read, the approval added in *)
(* memory, and the whole list and the flag are written back.               *)
BeginApprove(s, v) ==
  /\ chain # <<>> /\ ses[s].pc = "idle" /\ ops < MaxOps /\ ops' = ops + 1
  /\ v \in active
  /\ \E i \in DOMAIN chain :
       /\ ~chain[i].final /\ v \notin chain[i].approvals
       /\ Step(s, [Idle EXCEPT !.at = i, !.approvals = chain[i].approvals \cup {v},
            !.pc = IF Cardinality(chain[i].approvals \cup {v}) >= Quorum
                   THEN "finalize" ELSE "approve"])
  /\ UNCHANGED <<chain, txAt, balances, active, settings>>

ReplayApproved(s) ==
  /\ ses[s].pc = "finalize"
  /\ LET txs == chain[ses[s].at].txs
     IN IF apply_transaction(list_sealed_transactions, txs)
        THEN /\ Step(s, [ses[s] EXCEPT !.pc = "approve",
                           !.state = list_sealed_transactions \cup txs])
             /\ UNCHANGED <<chain, txAt, balances, active>>
        ELSE Rollback(s)
  /\ UNCHANGED <<settings, ops>>

update_block_approvals(s) ==
  LET final == Cardinality(ses[s].approvals) >= Quorum
  IN /\ ses[s].pc = "approve"
     /\ chain' = [chain EXCEPT ![ses[s].at] =
                    [txs |-> @.txs, approvals |-> ses[s].approvals, final |-> final,
                     cleared |-> @.cleared \/ (@.final /\ ~final)]]
     /\ balances' = IF final THEN ses[s].state ELSE balances
     /\ Step(s, Idle)
     /\ UNCHANGED <<txAt, active, settings, ops>>

(* rebuild_balances reads, and replaces the rows it finds afterwards.      *)
BeginRebuild(s) ==
  /\ chain # <<>> /\ ses[s].pc = "idle" /\ ops < MaxOps /\ ops' = ops + 1
  /\ Step(s, [Idle EXCEPT !.pc = "rebuild", !.state = list_sealed_transactions])
  /\ UNCHANGED <<chain, txAt, balances, active, settings>>

rebuild_balances(s) ==
  /\ ses[s].pc = "rebuild"
  /\ balances' = ses[s].state /\ Step(s, Idle)
  /\ UNCHANGED <<chain, txAt, active, settings, ops>>

Lost(s) == ses[s].pc # "idle" /\ Rollback(s) /\ UNCHANGED <<settings, ops>>

Next ==
  \/ ensure_initialized
  \/ \E v \in Validators : register_validator(v)
  \/ \E s \in Sessions :
       \/ BeginSubmit(s) \/ submit_transaction(s) \/ record_job_completed(s)
       \/ settle_credits(s) \/ submit_peer_attestation(s)
       \/ add_pending_transaction(s) \/ CommitPending(s)
       \/ BeginSeal(s) \/ ReadPending(s) \/ ReadTip(s) \/ _persist_block(s)
       \/ \E v \in Validators : BeginApprove(s, v)
       \/ ReplayApproved(s) \/ update_block_approvals(s)
       \/ BeginRebuild(s) \/ rebuild_balances(s) \/ Lost(s)

Spec == Init /\ [][Next]_ledgerVars

-----------------------------------------------------------------------------
(* The rows of a block are exactly the transactions that its Merkle root   *)
(* was computed from: two seals that read the same pending transactions    *)
(* never both take them.  This is about which rows, not their bytes: a     *)
(* timestamp sent with another offset is read back in UTC, and its hash    *)
(* then differs from the one that was sealed (_parse_ts, _row_to_tx).      *)
ChainIntact ==
  \A i \in DOMAIN chain : {n \in Tx : txAt[n] = i} = chain[i].txs

(* Nothing is sealed on top of a block that has not had its quorum.  The   *)
(* exception is named: a block that had it, until an approval that read it *)
(* before wrote its older list back.                                       *)
ProposalIsLast ==
  \A i \in DOMAIN chain : i < Len(chain) => chain[i].final \/ chain[i].cleared

(* No account is credited for a transaction outside the blocks that are,   *)
(* or have been, finalized.                                                *)
HadQuorum == {i \in DOMAIN chain : chain[i].final \/ chain[i].cleared}
CreditsAreFinal == balances \subseteq UNION {chain[i].txs : i \in HadQuorum}

verify_header_signatures(i) ==
  /\ Relay \in chain[i].approvals /\ chain[i].approvals \subseteq active
  /\ chain[i].final => Cardinality(chain[i].approvals) >= Quorum

(* What a light client asks of the exported headers, the finalized ones:   *)
(* no height is missing, and each is signed.                               *)
verify_header_chain ==
  /\ \A i \in Final : 1..i \subseteq Final
  /\ \A i \in Final : verify_header_signatures(i)

(* A light client with today's validators accepts the headers whenever it  *)
(* fetches them, also while approvals are being written back; unless one   *)
(* of them has taken a block out of the middle.                            *)
HeadersVerify ==
  /\ (\A i \in DOMAIN chain : ~chain[i].cleared) => verify_header_chain
  /\ \A i \in DOMAIN chain : verify_header_signatures(i)

(* With auto_seal no transaction is left committed and pending: it goes    *)
(* into a block together with its request, or not into the database.       *)
NothingLeftPending == settings.auto_seal => \A n \in Tx : txAt[n] # Pending

(* A finalized block stays finalized: the table is append-only.  It does   *)
(* not hold.  An approval that read the block while it waited writes back  *)
(* the list it read and finalized=False, over the quorum that others have  *)
(* completed since.                                                        *)
FinalityIsFinal ==
  [][\A i \in DOMAIN chain : chain[i].final => chain'[i].final]_ledgerVars
=============================================================================
