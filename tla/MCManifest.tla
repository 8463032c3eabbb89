----------------------------- MODULE MCManifest -----------------------------
(***************************************************************************)
(* Small manifests for TLC.  The layout has its real widths; the ceilings  *)
(* are a few bytes, so that each is met and crossed.                       *)
(***************************************************************************)
EXTENDS ManifestClaims

MCUriMax == 8         \* DEFAULT_LOCATOR_MAX_URI_BYTES
MCInlineMax == 6      \* DEFAULT_INLINE_METADATA_MAX_BYTES
MCShareMax == 2       \* DEFAULT_SHARE_DATA_MAX_BYTES
MCHintMax == 3        \* DEFAULT_HINT_MAX_BYTES
MCParamsMax == 4      \* DEFAULT_HISTORY_PARAMS_MAX_BYTES

EAcute == <<195, 169>>
MCUnicodeAlpha == {EAcute}
MCUnicodeAlnum == {EAcute, <<217, 160>>}     \* an Arabic zero is a digit

\* An injective digest of the short blobs that are inlined.
MCDigestBytes(h) ==
    [i \in 1..32 |-> IF i = 32 THEN Len(h.blake3)
                     ELSE IF i \in DOMAIN h.blake3 THEN h.blake3[i] ELSE 0]

Repeat(b, n) == [i \in 1..n |-> b]

\* URIs: "ab:c" and "d:ef" are good, and so are the ones that use the grammar.
Uri == <<97, 98, 58, 99>>
OtherUri == <<100, 58, 101, 102>>
GoodUris == {<<97, 43, 49, 58, 58>>, EAcute \o <<58, 97>>, <<97, 58>> \o EAcute, Repeat(97, 6) \o <<58, 97>>}
BadUris ==
    {<<97, 58, 99>>, Repeat(97, 7) \o <<58, 97>>,       \* too short, too long
     <<97, 98, 99, 100>>, <<58, 97, 98, 99>>,           \* no colon, no scheme
     <<49, 58, 97, 98>>, <<97, 95, 58, 98>>,            \* "1:ab", "a_:b"
     <<217, 160, 58, 97>>, <<97, 98, 99, 58>>,          \* a digit first, nothing after the colon
     <<97, 58, 98, 255>>, <<97, 58, 169, 98>>, <<97, 58, 98, 195>>}      \* not UTF-8

V1 == [drop_store_version |-> 1, metadata_version |-> 1, manifest_version |-> 1]
OtherVersions == [drop_store_version |-> 258, metadata_version |-> 0, manifest_version |-> 65535]

Flag(id, required) == [flag_id |-> id, required |-> required]
External(uris) == [kind |-> "external", metadata_hash |-> Repeat(170, 32), locators |-> uris]
Inlined(n) == [kind |-> "inlined", metadata |-> Repeat(187, n)]
SlabEntry(ordinal, uris) ==
    [slab_id |-> <<ordinal>> \o Repeat(0, 39), locators |-> uris]
Entry(op, inputs, params) ==
    [op |-> op, timestamp_ns |-> <<5, 0, 0, 0, 0, 0, 0, 1>>,
     inputs |-> Repeat(Repeat(3, 32), inputs), params |-> Repeat(4, params)]

Spec1 == [header |-> V1, feature_flags |-> <<>>, metadata_reference |-> External(<<Uri>>),
          slab_index |-> <<SlabEntry(0, <<OtherUri>>)>>, history |-> <<Entry(BUILD, 0, 0)>>]
Spec2 == [header |-> OtherVersions, feature_flags |-> <<Flag(7, TRUE), Flag(258, FALSE)>>,
          metadata_reference |-> Inlined(2),
          slab_index |-> <<SlabEntry(1, <<Uri, OtherUri>>), SlabEntry(0, <<Uri>>)>>,
          history |-> <<Entry(BUILD, 0, 1), Entry(4, 1, 0)>>]

MCSpecsToBuild ==
    {Spec1, Spec2}
    \cup {[Spec1 EXCEPT !.feature_flags = f] :
            f \in {<<Flag(7, TRUE), Flag(7, FALSE)>>, <<Flag(0, TRUE)>>,
                   <<Flag(EC_FLAG, TRUE)>>, <<Flag(DMS_FLAG, FALSE)>>}}
    \cup {[Spec1 EXCEPT !.metadata_reference = r] :
            r \in {External(<<>>), External(<<Uri, OtherUri>>)}
                    \cup {Inlined(n) : n \in {0, 1, MCInlineMax, MCInlineMax + 1}}
                    \cup {External(<<uri>>) : uri \in GoodUris \cup BadUris}}
    \cup {[Spec2 EXCEPT !.slab_index = index] :
            index \in {<<>>, <<SlabEntry(0, <<>>)>>, <<SlabEntry(0, <<Uri>>), SlabEntry(0, <<OtherUri>>)>>}}
    \cup {[Spec2 EXCEPT !.history = <<Entry(op, inputs, params)>>] :
            op \in HistoryOps, inputs \in {0, 2}, params \in {MCParamsMax, MCParamsMax + 1}}

Share(c, n) == [custodian_id |-> c, share_data |-> Repeat(9, n)]
Override(ordinal, k, m) == [slab_id |-> <<ordinal>> \o Repeat(0, 39), k |-> k, m |-> m]
Ec == [k |-> 1, m |-> 1, overrides |-> <<Override(1, 200, 55)>>]
Dms == [k |-> 1, n |-> 2, shares |-> <<Share(<<97>>, 1), Share(EAcute, MCShareMax)>>,
        reconstruction_hint |-> <<98>>]

Full1 == [ManifestOf(Spec1) EXCEPT
            !.feature_flags = <<Flag(DMS_FLAG, FALSE), Flag(EC_FLAG, TRUE)>>,
            !.metadata_reference.inline_metadata = <<1>>,
            !.ec_params = Ec, !.dms_policy = Dms]
MCFull ==
    {Full1}
    \cup {[Full1 EXCEPT !.ec_params = p] :
            p \in {[Ec EXCEPT !.overrides = <<>>], [Ec EXCEPT !.k = 0], [Ec EXCEPT !.m = 255]}
                  \cup {[Ec EXCEPT !.overrides = @ \o <<o>>] :
                          o \in {Override(2, 254, 1), Override(2, 255, 1), Override(1, 2, 2)}}}
    \cup {[Full1 EXCEPT !.dms_policy = p] :
            p \in {[Dms EXCEPT !.k = 3], [Dms EXCEPT !.k = 0], [Dms EXCEPT !.reconstruction_hint = <<>>],
                   [Dms EXCEPT !.reconstruction_hint = <<195>>],
                   [Dms EXCEPT !.reconstruction_hint = <<97, 97, 97, 97>>],
                   [Dms EXCEPT !.n = 1]}
                  \cup {[Dms EXCEPT !.shares[2] = s] :
                          s \in {Share(<<97>>, 1), Share(<<>>, 1), Share(<<98>>, 0), Share(<<98>>, 3),
                                 Share(<<255>>, 1), Share(<<97, 97, 97, 97>>, 1)}}}

\* What is done to a sent manifest: nothing, cut short, continued, a byte changed,
\* or its end replaced by that of another.
Continued(bytes) == {bytes \o <<0>>, bytes \o <<1, 1, 0, 0>>}
Spliced(a, b) == {SubSeq(a, 1, n) \o SubSeq(b, n + 1, Len(b)) : n \in 1..Len(b)}
MCFaultValues == {0, 1, 2, 3, 58, 128, 255}
Changed(bytes) == {[bytes EXCEPT ![i] = b] : i \in DOMAIN bytes, b \in MCFaultValues}

SentBytes == {s.bytes : s \in Sent}
Disturbed == {Build(Spec1).bytes, Build(Spec2).bytes, EncodeManifest(Full1)}
AllBuffers ==
    SentBytes \cup UNION {Continued(b) : b \in SentBytes}
              \cup UNION {Prefixes(b) \cup Changed(b) : b \in Disturbed}
              \cup Spliced(Build(Spec2).bytes, Build(Spec1).bytes)

\* A DMS policy that announces more shares than the file has bytes.
SharesMissing ==
    LET bytes == EncodedSections(Full1)
    IN  bytes.header \o bytes.feature_flags \o bytes.metadata_reference \o bytes.slab_index
          \o bytes.ec_params \o <<1, DMS_SCHEME_SHAMIR, 1, 255>> \o PackU32(255)

\* For the runs that refute one claim: no file is changed, one is cut short.
FewBuffers == SentBytes \cup Prefixes(EncodeManifest(Full1))

MCSpecs == MCSpecsToBuild
MCFullManifests == MCFull
MCBuffers == AllBuffers \cup {SharesMissing}
MCFewBuffers == FewBuffers
=============================================================================
