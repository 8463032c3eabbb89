------------------------------- MODULE Merkle -------------------------------
(***************************************************************************)
(* limnifs/merkle.py: the ManifestRoot over the ten section hashes.        *)
(*                                                                         *)
(* BLAKE3 is taken to be collision-free: a digest is the bytes hashed,     *)
(* tagged, so that two digests are equal exactly when what was hashed is.  *)
(* Where a digest is written into a manifest, DigestBytes are its bytes.   *)
(***************************************************************************)
CONSTANT DigestBytes(_)      \* the 32 bytes of a digest

MERKLE_DOMAIN_SEPARATOR == "limnifs/v1"

hash_section(bytes) == [blake3 |-> bytes]
hash_empty_section == hash_section(<<>>)

\* Mutant: the digest of the metadata reference section is left out.
RootWithoutMetadataReference(hashes) ==
    [blake3 |-> <<MERKLE_DOMAIN_SEPARATOR, hashes.metadata, hashes.format_header,
                  hashes.feature_flags, hashes.slab_index, hashes.crypto_params,
                  hashes.ec_params, hashes.dms_policy, hashes.delta_linkage, hashes.history>>]

\* hashes is a SectionHashes; hashes.metadata are the bytes of a digest.
compute_merkle_root(hashes) ==
    [blake3 |-> <<MERKLE_DOMAIN_SEPARATOR, hashes.metadata, hashes.format_header,
                  hashes.feature_flags, hashes.metadata_reference, hashes.slab_index,
                  hashes.crypto_params, hashes.ec_params, hashes.dms_policy,
                  hashes.delta_linkage, hashes.history>>]
=============================================================================
