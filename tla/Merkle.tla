-------------------------------- MODULE Merkle --------------------------------
(***************************************************************************)
(* The Merkle tree over the transactions of a block and its inclusion      *)
(* proofs.  A hash is the term it was computed from, so two of them are    *)
(* equal exactly when their inputs are (no collisions).  The state is two  *)
(* blocks being filled: one with the transactions 1, 2, ... in order, one  *)
(* with any distinct ones.                                                 *)
(***************************************************************************)
EXTENDS Integers, Sequences

CONSTANT MaxLeaves

VARIABLES block, other

merkleVars == <<block, other>>

Leaf(n) == <<n>>
_hash_pair(l, r) == <<l, r>>

(* An odd level repeats its last node.                                     *)
Even(level) ==
  IF Len(level) % 2 = 1 /\ Len(level) > 1 THEN Append(level, level[Len(level)]) ELSE level

NextLevel(level) ==
  LET even == Even(level)
  IN [i \in 1..(Len(even) \div 2) |-> _hash_pair(even[2 * i - 1], even[2 * i])]

(* The levels above the leaves, up to the root.                            *)
LevelAt(leaves) ==
  LET lvl[k \in 0..MaxLeaves] ==
        IF k = 0 THEN leaves
        ELSE IF Len(lvl[k - 1]) <= 1 THEN lvl[k - 1] ELSE NextLevel(lvl[k - 1])
  IN lvl

Height(leaves) == CHOOSE k \in 0..MaxLeaves :
  /\ Len(LevelAt(leaves)[k]) <= 1
  /\ \A j \in 0..(k - 1) : Len(LevelAt(leaves)[j]) > 1

merkle_root(leaves) ==
  IF leaves = <<>> THEN <<>> ELSE LevelAt(leaves)[Height(leaves)][1]

(* The sibling of the node at a zero-based index, and its side.            *)
Sibling(even, idx) ==
  IF idx % 2 = 0 THEN [position |-> "right", hash |-> even[idx + 2]]
                 ELSE [position |-> "left", hash |-> even[idx]]

(* The index of the node on each level, halved from one to the next.       *)
IndexAt(index) ==
  LET idx[k \in 0..MaxLeaves] == IF k = 0 THEN index ELSE idx[k - 1] \div 2
  IN idx

merkle_proof(leaves, index) ==
  [leaf |-> leaves[index + 1], root |-> merkle_root(leaves),
   steps |-> [k \in 1..Height(leaves) |->
                Sibling(Even(LevelAt(leaves)[k - 1]), IndexAt(index)[k - 1])]]

(* The hash after each step of a proof.                                    *)
RunningHash(proof) ==
  LET running[k \in 0..Len(proof.steps)] ==
        IF k = 0 THEN proof.leaf
        ELSE IF proof.steps[k].position = "right"
             THEN _hash_pair(running[k - 1], proof.steps[k].hash)
             ELSE _hash_pair(proof.steps[k].hash, running[k - 1])
  IN running

verify_merkle_proof(proof) == RunningHash(proof)[Len(proof.steps)] = proof.root

(* Against a header that is trusted: its transactions_root.                *)
verify_tx_inclusion(root, proof) == proof.root = root /\ verify_merkle_proof(proof)

Init == block = <<>> /\ other = <<>>

Extend == Len(block) < MaxLeaves /\ block' = Append(block, Leaf(Len(block) + 1)) /\ UNCHANGED other

ExtendOther ==
  /\ Len(other) < MaxLeaves
  /\ \E n \in 1..MaxLeaves :
       (\A i \in DOMAIN other : other[i] # Leaf(n)) /\ other' = Append(other, Leaf(n))
  /\ UNCHANGED block

Next == Extend \/ ExtendOther

Spec == Init /\ [][Next]_merkleVars

-----------------------------------------------------------------------------
(* Every transaction of a block has a proof that verifies against the      *)
(* header, on even and odd levels alike.                                   *)
ProofsVerify ==
  \A i \in DOMAIN block :
    verify_tx_inclusion(merkle_root(block), merkle_proof(block, i - 1))

(* The root commits to the transactions and their order: another block     *)
(* never has it, although the last node of an odd level counts twice.      *)
RootBinds == merkle_root(block) = merkle_root(other) => block = other
=============================================================================
