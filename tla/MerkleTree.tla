---------------------------- MODULE MerkleTree ----------------------------
(***************************************************************************)
(* The Merkle commitment of a pulse round (src/pulse/verification.js) and  *)
(* its verification on chain (helpers.rs).  A hash is a tuple of what was  *)
(* hashed: <<i>> of row i, <<left, right>> of a pair, so that two hashes   *)
(* are equal only if what they hash is.  A loop is a recursive function of *)
(* the number of its iterations.                                           *)
(***************************************************************************)
EXTENDS Integers, Sequences

RowHash(i) == <<i>>
PairHash(left, right) == <<left, right>>

\* One level of the tree from the level below; the last hash of an odd level
\* is paired with itself.
NextLevel(current) ==
    [i \in 1 .. (Len(current) + 1) \div 2 |->
       PairHash(current[2 * i - 1],
                IF 2 * i <= Len(current) THEN current[2 * i] ELSE current[2 * i - 1])]

\* current after k iterations, were they to go on.
levels(n) ==
    LET current[k \in 0 .. n] ==
          IF k = 0 THEN [i \in 1 .. n |-> RowHash(i - 1)] ELSE NextLevel(current[k - 1])
    IN  current

\* The number of iterations, which end at a single hash.
LevelsOf(n) ==
    CHOOSE k \in 0 .. n :
        /\ Len(levels(n)[k]) <= 1
        /\ \A j \in 0 .. k - 1 : Len(levels(n)[j]) > 1

\* tree[k + 1] is level k; the last level is the root alone.
buildMerkleTree(n) == [k \in 1 .. LevelsOf(n) + 1 |-> levels(n)[k - 1]]

Root(tree) == tree[Len(tree)][1]

\* idx after each of n iterations, in merkleProof and in verify_merkle_proof.
halvings(index, n) ==
    LET idx[k \in 0 .. n] == IF k = 0 THEN index ELSE idx[k - 1] \div 2
    IN  idx

\* Mutation of merkleProof: the sibling is always the hash to the right.
merkleProof_Right(tree, index) ==
    [k \in 1 .. Len(tree) - 1 |->
       LET idx     == halvings(index, Len(tree))[k - 1]
           sibling == idx + 1
       IN  [hash |-> IF sibling < Len(tree[k]) THEN tree[k][sibling + 1] ELSE tree[k][idx + 1],
            isRight |-> idx % 2 = 0]]

merkleProof(tree, index) ==
    [k \in 1 .. Len(tree) - 1 |->
       LET idx     == halvings(index, Len(tree))[k - 1]
           sibling == IF idx % 2 = 1 THEN idx - 1 ELSE idx + 1
       IN  [hash |-> IF sibling < Len(tree[k]) THEN tree[k][sibling + 1] ELSE tree[k][idx + 1],
            isRight |-> idx % 2 = 0]]

\* What both verifiers compute: current after all hashes of a proof, each on
\* the right of it or on its left.
climb(leafHash, hashes, onRight) ==
    LET current[k \in 0 .. Len(hashes)] ==
          IF k = 0 THEN leafHash
          ELSE IF onRight[k] THEN PairHash(current[k - 1], hashes[k])
          ELSE PairHash(hashes[k], current[k - 1])
    IN  current[Len(hashes)]

verifyMerkleProof(leafHash, proof, root) ==
    root = climb(leafHash, [k \in 1 .. Len(proof) |-> proof[k].hash],
                 [k \in 1 .. Len(proof) |-> proof[k].isRight])

\* helpers.rs: the sides follow from the index; proof is the hashes alone.
verify_merkle_proof(leaf_hash, proof, root, index) ==
    root = climb(leaf_hash, proof,
                 [k \in 1 .. Len(proof) |-> halvings(index, Len(proof))[k - 1] % 2 = 0])

=============================================================================
