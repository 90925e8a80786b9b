------------------------------ MODULE Evidence ------------------------------
(***************************************************************************)
(* Signed blocks and votes, and what they prove against their signer.      *)
(* A key signs; its public part is written like the key.  Signatures are   *)
(* the ideal ones of the cryptography library: only the key gives one that *)
(* verifies, over one message.  Addresses and hashes are injective.        *)
(***************************************************************************)
EXTENDS FFG

\* Wallet.sign and verify_signature
SignWith(key, message) == [key |-> key, message |-> message]
VerifySignature(pub, message, sig) == sig = SignWith(pub, message)

\* address_from_public_key
Address(pub) == <<"address", pub>>

-----------------------------------------------------------------------------
(* Blocks *)

\* The hash covers the header, never the signature or the public key.
Hash(b) == <<b.index, b.previous_hash, b.merkle_root, b.validator>>

\* A block that names a validator and carries a public key and a signature.
SignedBlock(prev, index, root, validator, pub, signer) ==
    LET header == [index |-> index, previous_hash |-> prev, merkle_root |-> root,
                   validator |-> validator]
    IN  [index |-> index, previous_hash |-> prev, merkle_root |-> root,
         validator |-> validator, proposer_pubkey |-> pub,
         validator_sig |-> SignWith(signer, Hash(header))]

\* seal_block
SealBlock(prev, index, root, key) ==
    SignedBlock(prev, index, root, Address(key), key, key)

\* The seal checks of _check_proposer and of verify_equivocation.
Sealed(b) ==
    /\ Address(b.proposer_pubkey) = b.validator
    /\ VerifySignature(b.proposer_pubkey, Hash(b), b.validator_sig)

\* verify_equivocation
EquivocationOnAnyParent(a, b) ==
    /\ a.index = b.index
    /\ a.validator = b.validator
    /\ Hash(a) # Hash(b)
    /\ Sealed(a) /\ Sealed(b)
Equivocation(a, b) ==
    /\ a.index = b.index
    /\ a.previous_hash = b.previous_hash
    /\ a.validator = b.validator
    /\ Hash(a) # Hash(b)
    /\ Sealed(a) /\ Sealed(b)

-----------------------------------------------------------------------------
(* Votes *)

\* _signing_payload of a vote: everything but the signature.
SigningPayload(tx) == <<tx.sender, tx.link, tx.public_key>>

\* A vote that names a sender and carries a public key and a signature.
SignedVote(sender, link, pub, signer) ==
    LET unsigned == [sender |-> sender, link |-> link, public_key |-> pub]
    IN  [sender |-> sender, link |-> link, public_key |-> pub,
         signature |-> SignWith(signer, SigningPayload(unsigned))]

\* vote_tx with sign
VoteTx(link, key) == SignedVote(Address(key), link, key, key)

\* is_valid of a vote
IsValidTx(tx) ==
    /\ Address(tx.public_key) = tx.sender
    /\ VerifySignature(tx.public_key, SigningPayload(tx), tx.signature)

\* verify_vote_fault
VerifyVoteFault(x, y) ==
    /\ IsValidTx(x) /\ IsValidTx(y)
    /\ x.sender = y.sender
    /\ VoteFault(x.link, y.link)
=============================================================================
