--------------------------- MODULE ManifestClaims ---------------------------
(***************************************************************************)
(* Sentences of the repository's own documentation about manifests, as     *)
(* properties of what verify does.  The code does not keep them.           *)
(***************************************************************************)
EXTENDS ManifestIdentity

\* limnifs/builder.py:3-7: "ManifestBuilder encodes them in the spec's fixed section
\* order"; limnifs/ec_params.py:3-4: the EC section is "Present iff the EC feature
\* flag (0x0001) is declared".  So a manifest built from valid sections
\* verifies.  The builder writes the flag without the section.
BuiltManifestVerifies ==
    status \in ErrorKinds =>
        \A spec \in Specs : Build(spec).bytes = buf =>
            ~(/\ ValidFlags(spec.feature_flags)
              /\ ValidReference(ReferenceOf(spec.metadata_reference))
              /\ ValidSlabIndex(spec.slab_index)
              /\ ValidHistory(spec.history))

\* limnifs/feature_flags.py:4-5: "Required flags unknown to the reader cause
\* UnsupportedFeature".  The flags verify knows are those of its optional sections.
RequiredFlagsKnown ==
    status = "verified" =>
        \A i \in DOMAIN flags : flags[i].required => flags[i].flag_id \in {EC_FLAG, DMS_FLAG}

\* limnifs/history.py:3-5: "Every image MUST have at least one history entry (the
\* build op that produced it)."  The parser asks for an entry of any op.
HistoryHasBuild ==
    status = "verified" => \E i \in DOMAIN history : history[i].op = BUILD

\* limnifs/locator.py:48: "RFC 3986 scheme = ALPHA *( ALPHA / DIGIT / "+" / "-" /
\* "." )", whose letters and digits are ASCII.  str.isalpha and str.isalnum are not.
SchemesFollowRfc3986 ==
    \A i \in DOMAIN locators :
        Characters(Scheme(locators[i])) \subseteq AsciiLetters \cup AsciiDigits \cup SCHEME_PUNCTUATION
=============================================================================
