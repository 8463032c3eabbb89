----------------------------- MODULE VerifyProofs -----------------------------
(***************************************************************************)
(* Proofs about the whole command, for every file, every image and all     *)
(* ceilings: what it returns is up to the manifest alone.                  *)
(***************************************************************************)
EXTENDS VerifyReport, ManifestRoundTripProofs

-----------------------------------------------------------------------------
\* The manifest parser of the command is that of Manifest.

LEMMA VerifyInitIsInit == VerifyInit => Init
BY DEF VerifyInit

LEMMA VerifyStepIsStep == [VerifyNext]_verifyVars => [Next]_vars
<1> SUFFICES ASSUME [VerifyNext]_verifyVars
             PROVE  [Next]_vars
  OBVIOUS
<1>1. CASE ParseManifest
  BY <1>1 DEF ParseManifest, Next
<1>2. CASE CannotReadFile \/ ManifestError \/ BeginSummary \/ ParseBlob
  BY <1>2 DEF CannotReadFile, ManifestError, BeginSummary, ParseBlob
<1>3. CASE ReportWithoutMetadata \/ ReportSummary \/ SwallowBlobError
  BY <1>3 DEF ReportWithoutMetadata, ReportSummary, SwallowBlobError, ReportWith
<1>4. CASE VerifyReturned \/ UNCHANGED verifyVars
  BY <1>4 DEF VerifyReturned, verifyVars
<1>. QED
  BY <1>1, <1>2, <1>3, <1>4 DEF VerifyNext, VerifyStep

LEMMA VerifyIsManifest == VerifySpec => Spec
BY VerifyInitIsInit, VerifyStepIsStep, PTL DEF VerifySpec, Spec

-----------------------------------------------------------------------------
\* What the exit code says of the manifest.

\* The report has the root of what was parsed.  The file is good when 0 is returned, and
\* while its metadata is parsed; when 1 is, it is not, or was not read.
RootReported == report.merkle_root = MerkleRoot

ExitInv ==
    /\ exit_code \in {NOT_RETURNED, 0, 1}
    /\ blob_status # "not called" => status = "verified"
    /\ exit_code = 0 => status = "verified" /\ RootReported
    /\ exit_code = 1 => status \in ErrorKinds \/ NotRead

LEMMA NotReturned == NOT_RETURNED # 0 /\ NOT_RETURNED # 1
BY DEF NOT_RETURNED

LEMMA StepIsParsing ==
    ASSUME CodecInv, Step
    PROVE  status = "parsing"
BY StepShape DEF CodecInv, Raises, Advances, Returns

LEMMA BlobStepIsParsing == Blob!Step => blob_status = "parsing"
BY DEF Blob!Step, Blob!ReadInodeCount, Blob!ReadNodeCount, Blob!RejectCount, Blob!InodeStep, Blob!NodeStep,
   Blob!BlobParsed, Blob!RejectInode, Blob!ReadInodeHead, Blob!ReadXattr, Blob!ReadContent,
   Blob!BeginSlices, Blob!ReadSlice, Blob!SlicesEnd, Blob!RejectNode, Blob!ReadNodeHead,
   Blob!ReadEntry, Blob!NodeEnd, Blob!Accept, Blob!Reject, Blob!At

LEMMA SameRoot == UNCHANGED vars => MerkleRoot' = MerkleRoot
<1> SUFFICES ASSUME UNCHANGED vars
             PROVE  MerkleRoot' = MerkleRoot
  OBVIOUS
<1>1. buf' = buf /\ ends' = ends /\ UNCHANGED <<flags, metadata_reference>>
  BY DEF vars, parserVars
<1>2. \A s : SectionBytes(s)' = SectionBytes(s)
  BY <1>1 DEF SectionBytes, SectionStart
<1>. QED
  BY <1>1, <1>2 DEF MerkleRoot, HasFlag

LEMMA ExitInit == VerifyInit => ExitInv
BY NotReturned, Zenon DEF VerifyInit, ExitInv

LEMMA ExitNext == CodecInv /\ ExitInv /\ [VerifyNext]_verifyVars => ExitInv'
<1> SUFFICES ASSUME CodecInv, ExitInv, [VerifyNext]_verifyVars
             PROVE  ExitInv'
  OBVIOUS
<1>1. CASE ParseManifest
  <2>1. status = "parsing" /\ exit_code = NOT_RETURNED /\ UNCHANGED <<blob_status, report, exit_code>>
    BY <1>1, StepIsParsing DEF ParseManifest, Running, blobVars
  <2>. QED
    BY <2>1, NotReturned, Zenon DEF ExitInv
<1>2. CASE CannotReadFile
  <2>1. exit_code = NOT_RETURNED /\ exit_code' = 1 /\ status = "parsing" /\ step = "head" /\ section = "header"
    BY <1>2 DEF CannotReadFile, Running, At
  <2>2. UNCHANGED <<status, position, blob_status, report>>
    BY <1>2 DEF CannotReadFile, vars, parserVars, blobVars
  <2>3. 1 # 0
    OBVIOUS
  <2>4. position = 0
    <3>1. SectionsCut = 0
      <4>1. SectionOrder[1] = "header"
        BY DEF SectionOrder
      <4>2. PlaceIn(SectionOrder[1]) = 1
        BY Places
      <4>. QED
        BY <2>1, <4>1, <4>2, CutCount
    <3>. QED
      BY <2>1, <3>1 DEF CodecInv, IInv, Tiled, EndAt
  <2>. QED
    BY <2>1, <2>2, <2>3, <2>4, Zenon DEF ExitInv, NotRead
<1>3. CASE ManifestError
  <2>1. exit_code' = 1 /\ status \in ErrorKinds /\ UNCHANGED <<status, position, blob_status, report>>
    BY <1>3 DEF ManifestError, vars, parserVars, blobVars
  <2>2. 1 # 0
    OBVIOUS
  <2>. QED
    BY <2>1, <2>2, Zenon DEF ExitInv
<1>4. CASE BeginSummary
  <2>1. exit_code = NOT_RETURNED /\ status = "verified" /\ UNCHANGED <<status, report, exit_code>>
    BY <1>4 DEF BeginSummary, vars, parserVars, Running
  <2>. QED
    BY <2>1, NotReturned, Zenon DEF ExitInv
<1>5. CASE ParseBlob
  <2>1. exit_code = NOT_RETURNED /\ blob_status = "parsing" /\ UNCHANGED <<status, report, exit_code>>
    BY <1>5, BlobStepIsParsing DEF ParseBlob, vars, parserVars, Running
  <2>. QED
    BY <2>1, NotReturned, Zenon DEF ExitInv
<1>6. ASSUME NEW summary, ReportWith(summary), status = "verified"
      PROVE  ExitInv'
  <2>1. /\ exit_code' = 0 /\ report' = Report(summary) /\ UNCHANGED vars /\ UNCHANGED <<status, blob_status>>
    BY <1>6 DEF ReportWith, vars, parserVars, blobVars
  <2>2. report'.merkle_root = MerkleRoot /\ MerkleRoot' = MerkleRoot
    BY <2>1, SameRoot DEF Report
  <2>3. 1 # 0
    OBVIOUS
  <2>. QED
    BY <1>6, <2>1, <2>2, <2>3, Zenon DEF ExitInv, RootReported
<1>7. CASE ReportWithoutMetadata
  BY <1>6, <1>7 DEF ReportWithoutMetadata
<1>8. CASE ReportSummary \/ SwallowBlobError
  <2>1. blob_status # "not called"
    BY <1>8 DEF ReportSummary, SwallowBlobError, ErrorKinds
  <2>. QED
    BY <1>6, <1>8, <2>1 DEF ReportSummary, SwallowBlobError, ExitInv
<1>9. CASE VerifyReturned \/ UNCHANGED verifyVars
  <2>1. UNCHANGED <<vars, status, position, blob_status, report, exit_code>>
    BY <1>9 DEF VerifyReturned, verifyVars, vars, parserVars, blobVars
  <2>. QED
    BY <2>1, SameRoot, Zenon DEF ExitInv, RootReported, NotRead
<1>. QED
  BY <1>1, <1>2, <1>3, <1>4, <1>5, <1>7, <1>8, <1>9 DEF VerifyNext, VerifyStep

LEMMA ExitInvariance == VerifySpec => []ExitInv
<1>1. VerifyInit => ExitInv
  BY ExitInit
<1>2. CodecInv /\ ExitInv /\ [VerifyNext]_verifyVars => ExitInv'
  BY ExitNext
<1>3. VerifySpec => []CodecInv
  BY VerifyIsManifest, CodecInvariance, PTL
<1>. QED
  BY <1>1, <1>2, <1>3, PTL DEF VerifySpec

-----------------------------------------------------------------------------
\* The images.

IsImage(i, m) ==
    /\ WrittenAs(m, FALSE) /\ Valid(m) /\ i.bytes = Written(m, FALSE) /\ i.root = RootOf(m)

LEMMA BuiltIsImage ==
    ASSUME NEW spec, WrittenSpec(spec), Valid(ManifestOf(spec)), NEW i,
           i.bytes = Build(spec).bytes, i.root = Build(spec).merkle_root
    PROVE  \E m : IsImage(i, m)
BY BuiltIsWritten DEF IsImage

LEMMA ImagesAre ==
    ASSUME NEW i \in AnyImage
    PROVE  \E m : IsImage(i, m)
<1>1. ASSUME NEW blob \in ImageBlobs, i.bytes = Inlining(blob).bytes, i.root = Inlining(blob).merkle_root
      PROVE  \E m : IsImage(i, m)
  BY <1>1, ImagesAssumption, BuiltIsImage DEF Inlining
<1>2. CASE \E w \in WrittenImages : i = [bytes |-> w.bytes, root |-> w.root]
  <2>1. PICK w \in WrittenImages : i = [bytes |-> w.bytes, root |-> w.root]
    BY <1>2
  <2>2. PICK t \in Image!WrittenTrees :
          w = [tree |-> t.tree, bytes |-> Inlining(t.bytes).bytes, root |-> Inlining(t.bytes).merkle_root]
    BY <2>1 DEF WrittenImages
  <2>3. i.bytes = Inlining(t.bytes).bytes /\ i.root = Inlining(t.bytes).merkle_root
    BY <2>1, <2>2
  <2>4. t.bytes \in ImageBlobs
    BY <2>2 DEF ImageBlobs
  <2>. QED
    BY <1>1, <2>3, <2>4
<1>3. CASE i \in BrokenImages
  <2>1. PICK b \in BadBlobs : i = [bytes |-> Inlining(b).bytes, root |-> Inlining(b).merkle_root]
    BY <1>3 DEF BrokenImages
  <2>. QED
    BY <1>1, <2>1 DEF ImageBlobs
<1>4. CASE i \in ExternalImages
  <2>1. PICK s \in Specs : Valid(ManifestOf(s))
                           /\ i = [bytes |-> Build(s).bytes, root |-> Build(s).merkle_root]
    BY <1>4 DEF ExternalImages
  <2>. QED
    BY <2>1, WrittenAssumption, BuiltIsImage
<1>. QED
  BY <1>2, <1>3, <1>4 DEF AnyImage

\* A file that begins with an image is refused only if it could not be read, and is
\* reported with its root; one with a part of an image is not accepted.
LEMMA WholeImage ==
    ASSUME CodecInv, FollowsAll, EndsSoFar, NEW i \in AnyImage, IsPrefix(i.bytes, buf)
    PROVE  status \notin ErrorKinds /\ (status = "verified" => MerkleRoot = i.root)
<1>1. PICK m : IsImage(i, m)
  BY ImagesAre
<1>2. WrittenAs(m, FALSE) /\ Valid(m) /\ IsPrefix(Written(m, FALSE), buf) /\ i.root = RootOf(m)
  BY <1>1 DEF IsImage
<1>3. Agrees(Written(m, FALSE)) /\ Len(Written(m, FALSE)) <= Len(buf)
  BY <1>2, WrittenTyped, PrefixAgrees
<1>4. RefusedShort(m, FALSE)
  BY <1>2, <1>3 DEF FollowsAll
<1>5. status \notin ErrorKinds
  <2>1. PICK n \in Nat, k \in Nat : n = Len(buf) /\ k = Len(Written(m, FALSE))
    BY <1>2, WrittenTyped
  <2>2. k <= n
    BY <1>3, <2>1, Zenon
  <2>3. ~(n < k)
    BY <2>2
  <2>4. ~(Len(buf) < Len(Written(m, FALSE)))
    BY <2>1, <2>3, Zenon
  <2>. QED
    BY <1>2, <1>4, <2>4, Zenon DEF RefusedShort
<1>6. ASSUME status = "verified"
      PROVE  MerkleRoot = i.root
  <2>1. Parsed = m
    BY <1>2, <1>3, <1>6, VerifiedIs
  <2>. QED
    BY <1>2, <1>6, <2>1, InvParsedRoot DEF RootIsOfParsed
<1>. QED
  BY <1>5, <1>6

LEMMA PartOfImage ==
    ASSUME CodecInv, FollowsAll, NEW i \in AnyImage, IsStrictPrefix(buf, i.bytes)
    PROVE  status # "verified"
<1>1. PICK m : IsImage(i, m)
  BY ImagesAre
<1>2. WrittenAs(m, FALSE) /\ IsStrictPrefix(buf, Written(m, FALSE))
  BY <1>1 DEF IsImage
<1>3. Agrees(Written(m, FALSE)) /\ Len(buf) < Len(Written(m, FALSE))
  BY <1>2, WrittenTyped, PrefixAgrees DEF IsStrictPrefix
<1>4. position <= Len(buf) /\ position \in Nat
  BY CodecFile DEF TypeOK
<1>. QED
  <2>1. PICK n \in Nat, k \in Nat : n = Len(buf) /\ k = Len(Written(m, FALSE))
    BY <1>2, WrittenTyped
  <2>2. status = "verified" => position = Len(Written(m, FALSE))
    BY <1>2, <1>3, VerifiedIs
  <2>3. n < k /\ position <= n
    BY <1>3, <1>4, <2>1, Zenon
  <2>4. position # k
    BY <1>4, <2>3
  <2>. QED
    BY <2>1, <2>2, <2>4, Zenon

LEMMA InvVerdict == CodecInv /\ FollowsAll /\ EndsSoFar /\ ExitInv => VerdictIsOnManifest
<1> SUFFICES ASSUME CodecInv, FollowsAll, EndsSoFar, ExitInv
             PROVE  VerdictIsOnManifest
  OBVIOUS
<1>1. ASSUME NEW i \in AnyImage, IsPrefix(i.bytes, buf), exit_code = 1
      PROVE  NotRead
  BY <1>1, WholeImage DEF ExitInv
<1>2. ASSUME exit_code = 0, NEW i \in AnyImage, IsStrictPrefix(buf, i.bytes)
      PROVE  FALSE
  BY <1>2, PartOfImage DEF ExitInv
<1>. QED
  BY <1>1, <1>2 DEF VerdictIsOnManifest

\* The root that is reported of an image.
ReportNamesImage ==
    exit_code = 0 => \A i \in AnyImage : IsPrefix(i.bytes, buf) => report.merkle_root = i.root

LEMMA InvNamed == CodecInv /\ FollowsAll /\ EndsSoFar /\ ExitInv => ReportNamesImage
BY WholeImage DEF ExitInv, RootReported, ReportNamesImage

\* _cmd_verify returns 1 for a file that holds a good manifest only where _read_file
\* raised, and never 0 for a part of one, whatever the metadata parser made of the
\* inlined bytes in between.
THEOREM ExitCodeIsOfManifest == VerifySpec => []VerdictIsOnManifest
BY InvVerdict, ExitInvariance, VerifyIsManifest, FollowsInvariance, EndsInvariance, PTL

\* The report of a file that begins with an image has the root its writer computed, also
\* where the metadata in it is no blob and its parser stopped half way.
THEOREM ReportHasRoot == VerifySpec => []ReportNamesImage
BY InvNamed, ExitInvariance, VerifyIsManifest, FollowsInvariance, EndsInvariance, PTL
=============================================================================
