---------------------- MODULE DatasetPipeline_proofs ----------------------
(* The dataset workspace: types, no image in two splits, a CSV that omits  *)
(* nothing finished, and downloads that are never lost.                    *)
EXTENDS DatasetPipeline, FiniteSetTheorems, WellFoundedInduction, TLAPS

(* What is kept of a run.                                                  *)
RunRecord ==
  [step : Steps, selected : SUBSET Sources, skipped : SUBSET Sources,
   refreshed : SUBSET Sources, todo : SUBSET Sources, source : SUBSET Sources,
   left : SUBSET Images, got : SUBSET Images, records : SUBSET Images,
   failed : SUBSET Sources]

(* The types of what the downloader has, and those of the preparation.     *)
DownloadTyped ==
  /\ file \in [Images -> Digests \cup {NoFile}]
  /\ manifest \in [Sources -> Manifest]
  /\ csv \in SUBSET Images
  /\ report \in 0..Count(Images)
  /\ run \in RunRecord
  /\ torn \in SUBSET Sources /\ stale \in BOOLEAN
  /\ runs \in 0..MaxRuns /\ interrupts \in 0..MaxInterrupts

BuildTyped ==
  /\ dataset.state \in {"none", "partial", "whole"}
  /\ \E built \in SUBSET Images : dataset.digest \in [built -> Digests]
  /\ prep \in [step : {"idle", "validate", "copy"}, rows : SUBSET Images, left : SUBSET Images]
  /\ mixed \in BOOLEAN /\ builds \in 0..MaxBuilds

(* What the variables of a run hold at each of its steps.                  *)
RunFits ==
  /\ At("idle") => run = NoRun
  /\ run.todo \cup run.source \cup run.failed \subseteq run.selected
  /\ run.todo \cap run.source = {}
  /\ run.failed \cap (run.todo \cup run.source) = {}
  /\ IF run.step \in {"refresh", "fetch", "save"}
     THEN \E s \in Sources : run.source = {s} ELSE run.source = {}
  /\ run.step \in {"report", "write csv", "check csv", "update report"} =>
       run.todo = {}
  /\ \A i \in run.left \cup run.got : Source[i] \in run.source
  /\ \A i \in run.got : file[i] # NoFile
  /\ run.left \cap run.got = {}
  /\ At("refresh") => run.got = {}
  /\ At("save") => run.left = {}

(* A manifest only lists images of its source.                             *)
ManifestsFit == \A s \in Sources : manifest[s].records \subseteq ImagesOf(s)

(* Only a refresh takes files away that a manifest lists: a source that no *)
(* refresh was left in has them all, or nothing to list while it is        *)
(* fetched, and has nothing complete once it failed.                       *)
Whole(s) == \A i \in manifest[s].records : file[i] # NoFile

TornFits ==
  /\ \A s \in Sources \ torn : Whole(s) \/ (At("refresh") /\ run.source = {s})
  /\ \A s \in Sources \ torn :
       run.step \in {"fetch", "save"} /\ run.source = {s} => manifest[s].records = {}
  /\ \A s \in run.failed \ torn : complete(s) = {}

(* What a run has collected is still complete: it touches no source again. *)
RecordsAreComplete ==
  \A i \in run.records : /\ Source[i] \notin run.todo \cup run.source
                         /\ i \in complete(Source[i])

(* A source that had its turn and did not fail is collected, and so is,    *)
(* from the report on, an enabled one that was not selected.               *)
Collected(s) ==
  /\ s \notin run.failed
  /\ \/ s \in run.selected \ (run.todo \cup run.source)
     \/ /\ run.step \in {"report", "write csv", "check csv", "update report"}
        /\ s \notin run.skipped

CollectedIsRecorded ==
  ~At("idle") => \A s \in Sources : Collected(s) => complete(s) \subseteq run.records

CsvIsWritten == At("update report") => csv = Kept(run.records)

(* The report counts what the CSV left out of complete manifests.          *)
ReportFitsCsv ==
  \E records \in SUBSET Images :
    /\ csv = Kept(records)
    /\ report = Count(records) - Cardinality(csv)
    /\ \A i \in records : i \in complete(Source[i])

(* Between two runs the coverage check can rely on the report, on finding  *)
(* no omission at all, or on a manifest that it cannot read.               *)
ReportIsCurrent ==
  ~stale /\ At("idle") =>
    \/ \E s \in Sources : Raises(s)
    \/ report = 0
    \/ ReportFitsCsv

(* What is being built has no group in two splits, and is the validated    *)
(* content unless a download came in between.                              *)
BuildFits ==
  /\ dataset = [state |-> dataset.state, digest |-> dataset.digest]
  /\ PrepAt("copy") =>
       /\ dataset.state = "partial"
       /\ prep.left \subseteq prep.rows
       /\ DOMAIN dataset.digest = prep.rows \ prep.left
       /\ \A i, j \in prep.rows : Group[i] = Group[j] => Split[i] = Split[j]
  /\ PrepAt("copy") /\ ~mixed =>
       /\ At("idle")
       /\ RecordsValid(prep.rows)
       /\ \A i \in DOMAIN dataset.digest : dataset.digest[i] = file[i]

(* The inductive invariant: of the downloader, which the preparation       *)
(* leaves alone, and of the preparation.                                   *)
DownloadInv == /\ DownloadTyped
               /\ RunFits
               /\ ManifestsFit
               /\ TornFits
               /\ RecordsAreComplete
               /\ CollectedIsRecorded
               /\ CsvIsWritten
               /\ ReportIsCurrent

BuildInv == /\ BuildTyped
            /\ BuildFits
            /\ NoLeakage

PipelineInv == DownloadInv /\ BuildInv

(* A step changes the files and the manifest of the source being fetched   *)
(* and of no other.                                                        *)
OthersUntouched ==
  \A s \in Sources : run.source # {s} =>
    /\ manifest'[s] = manifest[s]
    /\ \A i \in ImagesOf(s) : file'[i] = file[i]

---------------------------------------------------------------------------
(* The helpers of the model.                                               *)

LEMMA LeastNumber ==
  ASSUME NEW T \in SUBSET Nat, T # {} PROVE \E m \in T : \A k \in T : m <= k
<1>1. PICK x \in T : \A y \in T : ~ (<<y, x>> \in OpToRel(<,Nat))
  BY NatLessThanWellFounded, WFMin
<1>2. \A y \in T : ~(y < x)
  BY <1>1 DEF OpToRel
<1> QED BY <1>2

(* write_source_metadata drops an image only for another of its content.   *)
LEMMA KeptRepresents ==
  ASSUME NEW records \in SUBSET Images, NEW i \in records
  PROVE  \E j \in Kept(records) : file[j] = file[i]
<1> DEFINE same == {j \in records : file[j] = file[i]}
           T == {Order[j] : j \in same}
<1>1. T \in SUBSET Nat /\ T # {}
  BY PipelineAssumption
<1> HIDE DEF T
<1>2. PICK m \in T : \A k \in T : m <= k
  BY <1>1, LeastNumber
<1>3. PICK j \in same : Order[j] = m
  BY <1>2 DEF T
<1>4. ASSUME NEW k \in records, file[k] = file[j], Order[k] < Order[j] PROVE FALSE
  <2>1. file[k] = file[i]
    BY <1>3, <1>4
  <2>2. Order[k] \in T
    BY <1>4, <2>1 DEF T
  <2>3. m <= Order[k] /\ Order[k] \in Nat /\ m \in Nat
    BY <1>1, <1>2, <2>2
  <2> QED BY <1>3, <1>4, <2>3
<1> QED BY <1>3, <1>4 DEF Kept

(* ... and never keeps two of one content.                                 *)
LEMMA KeptOnce ==
  ASSUME NEW records \in SUBSET Images, NEW i \in Kept(records), NEW j \in Kept(records),
         file[i] = file[j]
  PROVE  i = j
<1>1. i \in Images /\ j \in Images /\ ~(Order[j] < Order[i]) /\ ~(Order[i] < Order[j])
  BY DEF Kept
<1>2. Order[i] = Order[j]
  BY <1>1, PipelineAssumption
<1> QED BY <1>1, <1>2, PipelineAssumption DEF IsInjective

LEMMA CompleteType ==
  ASSUME ManifestsFit, NEW s \in Sources
  PROVE  /\ complete(s) \subseteq ImagesOf(s)
         /\ \A i \in complete(s) : i \in Images /\ Source[i] = s /\ file[i] # NoFile
BY DEF ManifestsFit, complete, ImagesOf

(* A source is as complete as before while nobody touches it.              *)
LEMMA UntouchedStaysComplete ==
  ASSUME ManifestsFit, NEW s \in Sources, manifest'[s] = manifest[s],
         \A i \in ImagesOf(s) : file'[i] = file[i]
  PROVE  complete(s)' = complete(s)
BY DEF ManifestsFit, complete

LEMMA SourceType == \A i \in Images : Source[i] \in Sources
BY PipelineAssumption

(* A list of records is no shorter than one that is left of it; and when   *)
(* none of what is left out shares its path, it is counted once.           *)
LEMMA CountType ==
  ASSUME NEW records \in SUBSET Images
  PROVE  /\ Count(records) \in Nat
         /\ Cardinality(records) \in Nat /\ Cardinality(records) <= Count(records)
         /\ IsFiniteSet(records) /\ IsFiniteSet(records \cap Twins)
         /\ Cardinality(records \cap Twins) \in Nat
<1>1. IsFiniteSet(records) /\ IsFiniteSet(records \cap Twins)
  BY PipelineAssumption, FS_Subset
<1>2. Cardinality(records) \in Nat /\ Cardinality(records \cap Twins) \in Nat
  BY <1>1, FS_CardinalityType
<1> QED BY <1>1, <1>2 DEF Count

LEMMA CountOfImages == Count(Images) \in Nat
<1>1. Images \in SUBSET Images
  OBVIOUS
<1> QED BY <1>1, CountType

LEMMA CountGrows ==
  ASSUME NEW all \in SUBSET Images, NEW part \in SUBSET all
  PROVE  /\ Count(part) <= Count(all)
         /\ Count(all) <= Count(part) => part = all
<1>1. /\ IsFiniteSet(all) /\ IsFiniteSet(all \cap Twins)
      /\ Cardinality(all) \in Nat /\ Cardinality(part) \in Nat
      /\ Cardinality(all \cap Twins) \in Nat /\ Cardinality(part \cap Twins) \in Nat
  BY CountType
<1>2. /\ Cardinality(part) <= Cardinality(all)
      /\ Cardinality(part) = Cardinality(all) => part = all
  BY <1>1, FS_Subset
<1>3. part \cap Twins \in SUBSET (all \cap Twins)
  OBVIOUS
<1>4. Cardinality(part \cap Twins) <= Cardinality(all \cap Twins)
  BY <1>1, <1>3, FS_Subset
<1>5. Count(part) <= Count(all)
  BY <1>1, <1>2, <1>4 DEF Count
<1>6. ASSUME Count(all) <= Count(part) PROVE Cardinality(part) = Cardinality(all)
  BY <1>1, <1>2, <1>4, <1>6 DEF Count
<1> QED BY <1>2, <1>5, <1>6

LEMMA CountOfTheRest ==
  ASSUME NEW all \in SUBSET Images, NEW part \in SUBSET all, part \cap Twins = {}
  PROVE  Count(all \ part) = Count(all) - Cardinality(part)
<1>1. /\ IsFiniteSet(all) /\ Cardinality(all) \in Nat /\ Cardinality(part) \in Nat
      /\ Cardinality(all \cap Twins) \in Nat
  BY CountType
<1>2. all \cap part = part /\ (all \ part) \cap Twins = all \cap Twins
  OBVIOUS
<1>3. Cardinality(all \ part) = Cardinality(all) - Cardinality(part)
  BY <1>1, <1>2, FS_Difference
<1> QED BY <1>1, <1>2, <1>3 DEF Count

LEMMA KeptIsCounted ==
  ASSUME NEW records \in SUBSET Images
  PROVE  Count(records) - Cardinality(Kept(records)) \in 0..Count(Images)
<1>1. Kept(records) \in SUBSET records
  BY DEF Kept
<1>2. /\ Cardinality(Kept(records)) \in Nat /\ Count(records) \in Nat /\ Count(Images) \in Nat
      /\ Cardinality(Kept(records)) <= Count(Kept(records)) /\ Count(Kept(records)) \in Nat
  BY <1>1, CountType
<1>3. Count(Kept(records)) <= Count(records) /\ Count(records) <= Count(Images)
  BY <1>1, CountGrows
<1> QED BY <1>2, <1>3

LEMMA SettledFiles ==
  ASSUME UNCHANGED <<file, manifest>>
  PROVE  /\ \A s \in Sources : complete(s)' = complete(s) /\ Raises(s)' = Raises(s)
         /\ \A s \in Sources : Whole(s)' = Whole(s) /\ manifest'[s] = manifest[s]
         /\ \A records : Kept(records)' = Kept(records)
         /\ OthersUntouched
         /\ ManifestsFit' = ManifestsFit
BY DEF complete, Raises, Whole, Kept, OthersUntouched, ManifestsFit

LEMMA NoRunType == NoRun \in RunRecord
BY DEF NoRun, RunRecord, Steps

LEMMA TypeSettles ==
  ASSUME DownloadTyped, UNCHANGED <<file, manifest, csv, report>>, run' \in RunRecord, torn' \in SUBSET Sources,
         stale' \in BOOLEAN, runs' \in 0..MaxRuns, interrupts' \in 0..MaxInterrupts
  PROVE  DownloadTyped'
BY DEF DownloadTyped

(* What the preparation does leaves the downloader where it was.           *)
LEMMA NothingDownloaded ==
  ASSUME DownloadInv, UNCHANGED <<disk, run, torn, stale>>,
         runs' \in 0..MaxRuns, interrupts' \in 0..MaxInterrupts
  PROVE  DownloadInv' /\ OthersUntouched
<1>1. UNCHANGED <<file, manifest, csv, report>>
  BY DEF disk
<1>2. DownloadTyped'
  BY <1>1, TypeSettles DEF DownloadInv, DownloadTyped
<1>3. RunFits'
  BY <1>1 DEF DownloadInv, RunFits, At
<1>4. /\ ManifestsFit' /\ OthersUntouched
      /\ \A s \in Sources : complete(s)' = complete(s) /\ Raises(s)' = Raises(s)
      /\ \A s \in Sources : Whole(s)' = Whole(s)
  BY <1>1, SettledFiles DEF DownloadInv
<1>5. TornFits'
  BY <1>1, <1>4 DEF DownloadInv, DownloadTyped, RunRecord, TornFits, At
<1>6. RecordsAreComplete'
  BY <1>4, SourceType DEF DownloadInv, DownloadTyped, RunRecord, RecordsAreComplete
<1>7. CollectedIsRecorded'
  BY <1>4 DEF DownloadInv, CollectedIsRecorded, Collected, At
<1>8. CsvIsWritten' /\ ReportFitsCsv' = ReportFitsCsv
  BY <1>1 DEF DownloadInv, CsvIsWritten, Kept, At, ReportFitsCsv, complete
<1>9. ReportIsCurrent'
  BY <1>1, <1>4, <1>8 DEF DownloadInv, ReportIsCurrent, At
<1> QED BY <1>2, <1>3, <1>4, <1>5, <1>6, <1>7, <1>8, <1>9 DEF DownloadInv

---------------------------------------------------------------------------
(* The steps of the downloader that leave the files alone.                 *)

LEMMA BeginDownloadKeeps ==
  ASSUME DownloadInv, NEW selected \in SUBSET Sources, NEW refreshed \in SUBSET selected,
         NEW skipped \in SUBSET (Sources \ selected),
         BeginDownload(selected, refreshed, skipped)
  PROVE  DownloadInv' /\ OthersUntouched
<1>1. /\ run = NoRun /\ UNCHANGED <<file, manifest, csv, report, torn, stale, interrupts>>
      /\ run' = [NoRun EXCEPT !.step = "choose", !.selected = selected, !.skipped = skipped,
                              !.refreshed = refreshed, !.todo = selected]
  BY DEF DownloadInv, RunFits, BeginDownload, disk
<1>2. /\ OthersUntouched /\ ManifestsFit'
      /\ \A t \in Sources : Whole(t)' = Whole(t)
  BY <1>1, SettledFiles DEF DownloadInv
<1>3. DownloadTyped'
  <2>1. run' \in RunRecord
    BY <1>1, NoRunType DEF RunRecord, Steps
  <2>2. runs' \in 0..MaxRuns
    BY PipelineAssumption DEF DownloadInv, DownloadTyped, BeginDownload
  <2> QED BY <1>1, <2>1, <2>2, TypeSettles DEF DownloadInv, DownloadTyped
<1>4. /\ run'.step = "choose" /\ run'.selected = selected /\ run'.todo = selected
      /\ run'.source = {} /\ run'.left = {} /\ run'.got = {} /\ run'.records = {}
      /\ run'.failed = {} /\ run.step = "idle"
  BY <1>1 DEF NoRun
<1>5. RunFits'
  BY <1>4 DEF RunFits, At
<1>6. RecordsAreComplete' /\ CollectedIsRecorded'
  BY <1>4 DEF RecordsAreComplete, CollectedIsRecorded, Collected
<1>7. TornFits'
  BY <1>1, <1>2, <1>4 DEF DownloadInv, TornFits, At
<1>8. CsvIsWritten' /\ ReportIsCurrent'
  BY <1>4 DEF CsvIsWritten, ReportIsCurrent, At
<1> QED BY <1>2, <1>3, <1>5, <1>6, <1>7, <1>8 DEF DownloadInv

LEMMA ReuseKeeps ==
  ASSUME DownloadInv, NEW s \in Sources, Reuse(s)
  PROVE  DownloadInv' /\ OthersUntouched
<1>1. /\ At("choose") /\ s \in run.todo
      /\ UNCHANGED <<file, manifest, csv, report, torn, stale, runs, interrupts>>
      /\ run' = [run EXCEPT !.todo = @ \ {s}, !.records = @ \cup complete(s)]
  BY DEF Reuse, Turn, disk, counters
<1>2. /\ OthersUntouched /\ ManifestsFit'
      /\ \A t \in Sources : complete(t)' = complete(t) /\ Whole(t)' = Whole(t)
  BY <1>1, SettledFiles DEF DownloadInv
<1>3. \A t \in Sources : \A i \in complete(t) : i \in Images /\ Source[i] = t
  BY CompleteType DEF DownloadInv
<1>4. DownloadTyped'
  <2>1. run' \in RunRecord
    BY <1>1, <1>3 DEF DownloadInv, DownloadTyped, RunRecord
  <2> QED BY <1>1, <2>1, TypeSettles DEF DownloadInv, DownloadTyped
<1>5. /\ run'.step = "choose" /\ run'.selected = run.selected /\ run'.todo = run.todo \ {s}
      /\ run'.source = run.source /\ run'.left = run.left /\ run'.got = run.got
      /\ run'.records = run.records \cup complete(s) /\ run'.failed = run.failed
      /\ run.step = "choose" /\ run'.skipped = run.skipped
  BY <1>1 DEF DownloadInv, DownloadTyped, RunRecord, At
<1>6. RunFits'
  BY <1>1, <1>5 DEF DownloadInv, RunFits, At
<1>7. TornFits'
  BY <1>1, <1>2, <1>5 DEF DownloadInv, DownloadTyped, RunRecord, TornFits, At
<1>8. RecordsAreComplete'
  <2>1. run.source = {} /\ s \notin run.todo \ {s}
    BY <1>5 DEF DownloadInv, RunFits
  <2>2. ASSUME NEW i \in run'.records
        PROVE  Source[i] \notin (run.todo \ {s}) /\ i \in complete(Source[i]) /\ i \in Images
    <3>1. CASE i \in run.records
      BY <3>1 DEF DownloadInv, DownloadTyped, RunRecord, RecordsAreComplete
    <3>2. CASE i \in complete(s)
      BY <1>3, <3>2
    <3> QED BY <1>5, <3>1, <3>2
  <2> QED BY <1>2, <1>5, <2>1, <2>2, SourceType DEF RecordsAreComplete
<1>9. CollectedIsRecorded'
  BY <1>2, <1>5 DEF DownloadInv, CollectedIsRecorded, Collected, At
<1>10. CsvIsWritten' /\ ReportIsCurrent'
  BY <1>5 DEF CsvIsWritten, ReportIsCurrent, At
<1> QED BY <1>2, <1>4, <1>6, <1>7, <1>8, <1>9, <1>10 DEF DownloadInv

LEMMA UnreadableKeeps ==
  ASSUME DownloadInv, NEW s \in Sources, Unreadable(s)
  PROVE  DownloadInv' /\ OthersUntouched
<1>1. /\ At("choose") /\ s \in run.todo /\ Raises(s)
      /\ UNCHANGED <<file, manifest, csv, report, torn, stale, runs, interrupts>>
      /\ run' = [run EXCEPT !.todo = @ \ {s}, !.failed = @ \cup {s}]
  BY DEF Unreadable, Turn, disk, counters
<1>2. /\ OthersUntouched /\ ManifestsFit'
      /\ \A t \in Sources : complete(t)' = complete(t) /\ Whole(t)' = Whole(t)
  BY <1>1, SettledFiles DEF DownloadInv
<1>3. DownloadTyped'
  <2>1. run' \in RunRecord
    BY <1>1 DEF DownloadInv, DownloadTyped, RunRecord
  <2> QED BY <1>1, <2>1, TypeSettles DEF DownloadInv, DownloadTyped
<1>4. /\ run'.step = "choose" /\ run'.selected = run.selected /\ run'.todo = run.todo \ {s}
      /\ run'.source = run.source /\ run'.left = run.left /\ run'.got = run.got
      /\ run'.records = run.records /\ run'.failed = run.failed \cup {s}
      /\ run.step = "choose" /\ run'.skipped = run.skipped
  BY <1>1 DEF DownloadInv, DownloadTyped, RunRecord, At
<1>5. RunFits'
  BY <1>1, <1>4 DEF DownloadInv, RunFits, At
<1>6. TornFits'
  <2>1. complete(s) = {}
    BY <1>1 DEF complete, Raises, Truncated
  <2>2. \A t \in run.failed \ torn : complete(t) = {} /\ t \in Sources
    BY DEF DownloadInv, DownloadTyped, RunRecord, TornFits
  <2>3. \A t \in Sources \ torn : Whole(t)
    BY <1>4 DEF DownloadInv, TornFits, At
  <2> QED BY <1>1, <1>2, <1>4, <2>1, <2>2, <2>3 DEF TornFits, At
<1>7. RecordsAreComplete'
  BY <1>2, <1>4, SourceType DEF DownloadInv, DownloadTyped, RunRecord, RecordsAreComplete
<1>8. CollectedIsRecorded'
  BY <1>2, <1>4 DEF DownloadInv, CollectedIsRecorded, Collected, At
<1>9. CsvIsWritten' /\ ReportIsCurrent'
  BY <1>4 DEF CsvIsWritten, ReportIsCurrent, At
<1> QED BY <1>2, <1>3, <1>5, <1>6, <1>7, <1>8, <1>9 DEF DownloadInv

LEMMA BeginSourceKeeps ==
  ASSUME DownloadInv, NEW s \in Sources, BeginSource(s)
  PROVE  DownloadInv' /\ OthersUntouched
<1>1. /\ At("choose") /\ s \in run.todo
      /\ s \in run.refreshed \/ complete(s) = {}
      /\ UNCHANGED <<file, manifest, csv, report, torn, stale, runs, interrupts>>
      /\ run' = [run EXCEPT !.todo = @ \ {s}, !.source = {s}, !.left = ImagesOf(s),
                   !.step = IF s \in run.refreshed THEN "refresh" ELSE "fetch"]
  BY DEF BeginSource, Turn, disk, counters
<1>2. /\ OthersUntouched /\ ManifestsFit'
      /\ \A t \in Sources : /\ complete(t)' = complete(t) /\ Whole(t)' = Whole(t)
                            /\ manifest'[t] = manifest[t]
  BY <1>1, SettledFiles DEF DownloadInv
<1>3. DownloadTyped'
  <2>1. run' \in RunRecord
    BY <1>1 DEF DownloadInv, DownloadTyped, RunRecord, Steps, ImagesOf
  <2> QED BY <1>1, <2>1, TypeSettles DEF DownloadInv, DownloadTyped
<1>4. /\ run'.step = IF s \in run.refreshed THEN "refresh" ELSE "fetch"
      /\ run'.selected = run.selected /\ run'.skipped = run.skipped
      /\ run'.todo = run.todo \ {s} /\ run'.source = {s} /\ run'.left = ImagesOf(s)
      /\ run'.got = run.got /\ run'.records = run.records /\ run'.failed = run.failed
      /\ run.step = "choose" /\ run.source = {} /\ run.got = {}
  BY <1>1 DEF DownloadInv, DownloadTyped, RunRecord, RunFits, At
<1>5. RunFits'
  BY <1>1, <1>4 DEF DownloadInv, RunFits, At, ImagesOf
<1>6. TornFits'
  <2>1. \A t \in Sources \ torn : Whole(t)
    BY <1>4 DEF DownloadInv, TornFits, At
  <2>2. s \notin torn /\ s \notin run.refreshed => manifest[s].records = {}
    BY <1>1, <2>1 DEF complete, Whole
  <2>3. \A t \in run.failed \ torn : complete(t) = {} /\ t \in Sources
    BY DEF DownloadInv, DownloadTyped, RunRecord, TornFits
  <2> QED BY <1>1, <1>2, <1>4, <2>1, <2>2, <2>3 DEF TornFits, At
<1>7. RecordsAreComplete'
  BY <1>1, <1>2, <1>4, SourceType DEF DownloadInv, DownloadTyped, RunRecord, RecordsAreComplete
<1>8. CollectedIsRecorded'
  BY <1>2, <1>4 DEF DownloadInv, CollectedIsRecorded, Collected, At
<1>9. CsvIsWritten' /\ ReportIsCurrent'
  BY <1>4 DEF CsvIsWritten, ReportIsCurrent, At
<1> QED BY <1>2, <1>3, <1>5, <1>6, <1>7, <1>8, <1>9 DEF DownloadInv

(* A source fails while it is refreshed, fetched or saved.                 *)
LEMMA FailingKeeps ==
  ASSUME DownloadInv, NEW s \in Sources, Failing(s), run.source = {s},
         UNCHANGED <<disk, stale, counters>>,
         run.step \in {"refresh", "fetch", "save"},
         torn' = IF At("refresh") THEN torn \cup {s} ELSE torn
  PROVE  DownloadInv' /\ OthersUntouched
<1>1. /\ UNCHANGED <<file, manifest, csv, report, stale, runs, interrupts>>
      /\ run' = [run EXCEPT !.step = "choose", !.failed = @ \cup {s},
                            !.source = {}, !.left = {}, !.got = {}]
  BY DEF Failing, disk, counters
<1>2. /\ OthersUntouched /\ ManifestsFit'
      /\ \A t \in Sources : complete(t)' = complete(t) /\ Whole(t)' = Whole(t)
  BY <1>1, SettledFiles DEF DownloadInv
<1>3. DownloadTyped'
  <2>1. run' \in RunRecord
    BY <1>1 DEF DownloadInv, DownloadTyped, RunRecord, Steps
  <2>2. torn' \in SUBSET Sources
    BY DEF DownloadInv, DownloadTyped
  <2> QED BY <1>1, <2>1, <2>2, TypeSettles DEF DownloadInv, DownloadTyped
<1>4. /\ run'.step = "choose" /\ run'.selected = run.selected /\ run'.todo = run.todo
      /\ run'.source = {} /\ run'.left = {} /\ run'.got = {}
      /\ run'.records = run.records /\ run'.failed = run.failed \cup {s}
      /\ run'.skipped = run.skipped
  BY <1>1 DEF DownloadInv, DownloadTyped, RunRecord, At
<1>5. RunFits'
  BY <1>1, <1>4 DEF DownloadInv, RunFits, At
<1>6. TornFits'
  <2>1. \A t \in Sources \ torn' : Whole(t)
    BY DEF DownloadInv, TornFits, At
  <2>2. s \notin torn' => complete(s) = {}
    BY DEF DownloadInv, TornFits, At, complete
  <2>3. \A t \in run.failed \ torn' : complete(t) = {} /\ t \in Sources
    BY DEF DownloadInv, DownloadTyped, RunRecord, TornFits
  <2> QED BY <1>2, <1>4, <2>1, <2>2, <2>3 DEF TornFits, At
<1>7. RecordsAreComplete'
  BY <1>2, <1>4, SourceType DEF DownloadInv, DownloadTyped, RunRecord, RecordsAreComplete
<1>8. CollectedIsRecorded'
  BY <1>1, <1>2, <1>4 DEF DownloadInv, CollectedIsRecorded, Collected, At
<1>9. CsvIsWritten' /\ ReportIsCurrent'
  BY <1>4 DEF CsvIsWritten, ReportIsCurrent, At
<1> QED BY <1>2, <1>3, <1>5, <1>6, <1>7, <1>8, <1>9 DEF DownloadInv

LEMMA SourceFailsKeeps ==
  ASSUME DownloadInv, NEW s \in Sources, SourceFails(s) \/ ManifestFails(s)
  PROVE  DownloadInv' /\ OthersUntouched
<1>1. /\ Failing(s) /\ run.source = {s} /\ UNCHANGED <<disk, stale, counters>>
      /\ run.step \in {"refresh", "fetch", "save"}
      /\ torn' = IF At("refresh") THEN torn \cup {s} ELSE torn
  BY DEF SourceFails, ManifestFails, At
<1> QED BY <1>1, FailingKeeps

(* The end of a run drops what it knew: what stays is about the files.     *)
LEMMA EndKeeps ==
  ASSUME run' = NoRun, DownloadTyped', ManifestsFit', ReportIsCurrent',
         \A s \in Sources \ torn' : Whole(s)'
  PROVE  DownloadInv'
<1>1. /\ run'.step = "idle" /\ run'.todo = {} /\ run'.source = {} /\ run'.left = {}
      /\ run'.got = {} /\ run'.records = {} /\ run'.failed = {} /\ run'.selected = {}
  BY DEF NoRun
<1>2. RunFits' /\ TornFits'
  BY <1>1 DEF RunFits, TornFits, At
<1>3. RecordsAreComplete' /\ CollectedIsRecorded' /\ CsvIsWritten'
  BY <1>1 DEF RecordsAreComplete, CollectedIsRecorded, CsvIsWritten, At
<1> QED BY <1>2, <1>3 DEF DownloadInv

LEMMA RetainKeeps ==
  ASSUME DownloadInv, Retain
  PROVE  DownloadInv' /\ OthersUntouched
<1> DEFINE retained == Sources \ (run.selected \cup run.skipped)
           kept == UNION {complete(s) : s \in retained}
<1>1. /\ At("choose") /\ run.todo = {}
      /\ UNCHANGED <<file, manifest, csv, report, torn, stale, runs, interrupts>>
  BY DEF Retain, disk, counters
<1>2. /\ OthersUntouched /\ ManifestsFit'
      /\ \A t \in Sources : /\ complete(t)' = complete(t) /\ Whole(t)' = Whole(t)
                            /\ Raises(t)' = Raises(t)
  BY <1>1, SettledFiles DEF DownloadInv
<1>3. \A t \in Sources : \A i \in complete(t) : i \in Images /\ Source[i] = t
  BY CompleteType DEF DownloadInv
<1>4. \A t \in Sources \ torn' : Whole(t)'
  BY <1>1, <1>2 DEF DownloadInv, TornFits, At
<1>5. CASE \E s \in retained : Raises(s)
  <2>1. run' = NoRun
    BY <1>5 DEF Retain, End
  <2>2. DownloadTyped'
    BY <1>1, <2>1, NoRunType, TypeSettles DEF DownloadInv, DownloadTyped
  <2>3. ReportIsCurrent'
    BY <1>2, <1>5 DEF ReportIsCurrent
  <2> QED BY <1>2, <1>4, <2>1, <2>2, <2>3, EndKeeps
<1>6. CASE ~ \E s \in retained : Raises(s)
  <2>1. run' = [run EXCEPT !.step = "report", !.records = @ \cup kept]
    BY <1>6 DEF Retain
  <2>2. kept \subseteq Images
    BY <1>3
  <2>3. DownloadTyped'
    <3>1. run' \in RunRecord
      BY <2>1, <2>2 DEF DownloadInv, DownloadTyped, RunRecord, Steps
    <3> QED BY <1>1, <3>1, TypeSettles DEF DownloadInv, DownloadTyped
  <2>4. /\ run'.step = "report" /\ run'.selected = run.selected /\ run'.todo = {}
        /\ run'.source = run.source /\ run'.left = run.left /\ run'.got = run.got
        /\ run'.records = run.records \cup kept /\ run'.failed = run.failed
        /\ run.step = "choose" /\ run.source = {} /\ run'.skipped = run.skipped
    BY <1>1, <2>1 DEF DownloadInv, DownloadTyped, RunRecord, RunFits, At
  <2>5. RunFits'
    BY <1>1, <2>4 DEF DownloadInv, RunFits, At
  <2>6. TornFits'
    <3>1. \A t \in run.failed \ torn : complete(t) = {} /\ t \in Sources
      BY DEF DownloadInv, DownloadTyped, RunRecord, TornFits
    <3> QED BY <1>1, <1>2, <1>4, <2>4, <3>1 DEF TornFits, At
  <2>7. RecordsAreComplete'
    <3>1. ASSUME NEW i \in run'.records
          PROVE  i \in complete(Source[i]) /\ i \in Images
      <4>1. CASE i \in run.records
        BY <4>1 DEF DownloadInv, DownloadTyped, RunRecord, RecordsAreComplete
      <4>2. CASE i \in kept
        BY <1>3, <4>2
      <4> QED BY <2>4, <4>1, <4>2
    <3> QED BY <1>2, <2>4, <3>1, SourceType DEF RecordsAreComplete
  <2>8. CollectedIsRecorded'
    <3>1. SUFFICES ASSUME NEW s \in Sources, s \notin run.failed,
                          s \in run.selected \/ s \notin run.skipped
                   PROVE  complete(s) \subseteq run'.records
      BY <1>2, <2>4 DEF CollectedIsRecorded, Collected
    <3>2. CASE s \in run.selected
      BY <1>1, <2>4, <3>1, <3>2 DEF DownloadInv, CollectedIsRecorded, Collected, At
    <3>3. CASE s \notin run.selected
      BY <2>4, <3>1, <3>3
    <3> QED BY <3>2, <3>3
  <2>9. CsvIsWritten' /\ ReportIsCurrent'
    BY <2>4 DEF CsvIsWritten, ReportIsCurrent, At
  <2> QED BY <1>2, <2>3, <2>5, <2>6, <2>7, <2>8, <2>9 DEF DownloadInv
<1> QED BY <1>5, <1>6

LEMMA InterruptKeeps ==
  ASSUME DownloadInv, Interrupt
  PROVE  DownloadInv' /\ OthersUntouched
<1>1. /\ UNCHANGED <<disk, file, manifest, csv, report, runs>>
      /\ interrupts < MaxInterrupts /\ interrupts' = interrupts + 1
  BY DEF Interrupt, disk
<1>2. interrupts' \in 0..MaxInterrupts /\ runs' \in 0..MaxRuns
  BY <1>1, PipelineAssumption DEF DownloadInv, DownloadTyped
<1>3. CASE run' = run
  <2>1. torn' = torn /\ stale' = stale
    BY <1>3 DEF Interrupt, DownloadInv, DownloadTyped
  <2> QED BY <1>1, <1>2, <1>3, <2>1, NothingDownloaded
<1>4. CASE run' # run
  <2>1. /\ run' = NoRun /\ stale' = TRUE
        /\ torn' = IF At("refresh") THEN torn \cup run.source ELSE torn
    BY <1>4 DEF Interrupt, End
  <2>2. /\ OthersUntouched /\ ManifestsFit'
        /\ \A t \in Sources : Whole(t)' = Whole(t)
    BY <1>1, SettledFiles DEF DownloadInv
  <2>3. \A t \in Sources \ torn' : Whole(t)'
    BY <2>1, <2>2 DEF DownloadInv, TornFits, At
  <2>4. DownloadTyped'
    <3>1. torn' \in SUBSET Sources
      BY <2>1 DEF DownloadInv, DownloadTyped, RunRecord
    <3> QED BY <1>1, <1>2, <2>1, <3>1, NoRunType, TypeSettles DEF DownloadInv, DownloadTyped
  <2>5. ReportIsCurrent'
    BY <2>1 DEF ReportIsCurrent
  <2> QED BY <2>1, <2>2, <2>3, <2>4, <2>5, EndKeeps
<1> QED BY <1>3, <1>4

---------------------------------------------------------------------------
(* The steps that fetch a source: they change its files and its manifest.  *)

LEMMA FetchingKeeps ==
  ASSUME DownloadInv, NEW s \in Sources, run.source = {s}, OthersUntouched,
         DownloadTyped', RunFits', ManifestsFit',
         run'.step \in {"refresh", "fetch", "save"}, run'.source = {s},
         run'.selected = run.selected, run'.todo = run.todo, run'.skipped = run.skipped,
         run'.failed = run.failed, run'.records = run.records,
         torn' \cup {s} = torn \cup {s},
         s \in torn' \/ run'.step = "refresh" \/ manifest'[s].records = {}
  PROVE  DownloadInv'
<1>1. run.step \in {"refresh", "fetch", "save"} /\ s \notin run.failed
  BY DEF DownloadInv, RunFits
<1>2. \A t \in Sources \ {s} : complete(t)' = complete(t)
  BY UntouchedStaysComplete DEF DownloadInv, OthersUntouched
<1>3. TornFits'
  <2>1. ASSUME NEW t \in Sources \ torn', t # s PROVE Whole(t)'
    <3>1. Whole(t) /\ manifest'[t] = manifest[t] /\ \A i \in ImagesOf(t) : file'[i] = file[i]
      BY <2>1 DEF DownloadInv, TornFits, OthersUntouched
    <3> QED BY <2>1, <3>1 DEF DownloadInv, ManifestsFit, Whole
  <2>2. s \in Sources \ torn' => run'.step = "refresh" \/ (manifest'[s].records = {} /\ Whole(s)')
    BY DEF Whole
  <2>3. \A t \in run.failed \ torn' : t # s /\ complete(t)' = {}
    BY <1>1, <1>2 DEF DownloadInv, DownloadTyped, RunRecord, TornFits
  <2> QED BY <2>1, <2>2, <2>3 DEF TornFits, At
<1>4. RecordsAreComplete'
  BY <1>2, SourceType DEF DownloadInv, DownloadTyped, RunRecord, RecordsAreComplete
<1>5. CollectedIsRecorded'
  BY <1>1, <1>2 DEF DownloadInv, CollectedIsRecorded, Collected, At
<1>6. CsvIsWritten' /\ ReportIsCurrent'
  BY DEF CsvIsWritten, ReportIsCurrent, At
<1> QED BY <1>3, <1>4, <1>5, <1>6 DEF DownloadInv

LEMMA RefreshKeeps ==
  ASSUME DownloadInv, NEW s \in Sources, Refresh(s)
  PROVE  DownloadInv' /\ OthersUntouched
<1>1. /\ At("refresh") /\ run.source = {s} /\ run.step = "refresh"
      /\ UNCHANGED <<csv, report, stale, runs, interrupts>>
  BY DEF Refresh, At, counters
<1>2. CASE \E i \in ImagesOf(s) : /\ file[i] # NoFile
                                  /\ file' = [file EXCEPT ![i] = NoFile]
                                  /\ UNCHANGED <<manifest, run, torn>>
  <2>1. PICK i \in ImagesOf(s) : file' = [file EXCEPT ![i] = NoFile]
    BY <1>2
  <2>2. UNCHANGED <<manifest, run, torn>>
    BY <1>2
  <2>3. DownloadTyped'
    BY <1>1, <2>1, <2>2 DEF DownloadInv, DownloadTyped, RunRecord
  <2>4. RunFits'
    BY <1>1, <2>2 DEF DownloadInv, RunFits, At
  <2>5. ManifestsFit'
    BY <2>2 DEF DownloadInv, ManifestsFit
  <2>6. OthersUntouched
    BY <1>1, <2>1, <2>2 DEF DownloadInv, DownloadTyped, RunRecord, OthersUntouched, ImagesOf
  <2> QED BY <1>1, <2>2, <2>3, <2>4, <2>5, <2>6, FetchingKeeps
<1>3. CASE /\ manifest' = [manifest EXCEPT ![s] = NoManifest]
           /\ run' = [run EXCEPT !.step = "fetch"]
           /\ torn' = torn \ {s}
           /\ UNCHANGED file
  <2>1. NoManifest \in Manifest /\ NoManifest.records = {}
    BY DEF NoManifest, Manifest
  <2>2. run' \in RunRecord
    BY <1>3 DEF DownloadInv, DownloadTyped, RunRecord, Steps
  <2>3. DownloadTyped'
    BY <1>1, <1>3, <2>1, <2>2 DEF DownloadInv, DownloadTyped, RunRecord
  <2>4. /\ run'.step = "fetch" /\ run'.selected = run.selected /\ run'.todo = run.todo
        /\ run'.source = run.source /\ run'.left = run.left /\ run'.got = run.got
        /\ run'.records = run.records /\ run'.failed = run.failed /\ run'.skipped = run.skipped
    BY <1>3 DEF DownloadInv, DownloadTyped, RunRecord
  <2>5. RunFits'
    BY <1>1, <1>3, <2>4 DEF DownloadInv, RunFits, At
  <2>6. ManifestsFit'
    BY <1>3, <2>1 DEF DownloadInv, DownloadTyped, RunRecord, ManifestsFit
  <2>7. OthersUntouched /\ manifest'[s].records = {}
    BY <1>1, <1>3, <2>1 DEF DownloadInv, DownloadTyped, RunRecord, OthersUntouched
  <2>8. torn' \cup {s} = torn \cup {s}
    BY <1>3
  <2> QED BY <1>1, <2>3, <2>4, <2>5, <2>6, <2>7, <2>8, FetchingKeeps
<1> QED BY <1>2, <1>3 DEF Refresh

LEMMA FetchKeeps ==
  ASSUME DownloadInv, NEW i \in Images, Fetch(i)
  PROVE  DownloadInv' /\ OthersUntouched
<1>1. /\ At("fetch") /\ i \in run.left /\ run.step = "fetch"
      /\ UNCHANGED <<manifest, csv, report, torn, stale, runs, interrupts>>
  BY DEF Fetch, At, counters
<1>2. PICK s \in Sources : run.source = {s}
  BY <1>1 DEF DownloadInv, RunFits
<1>3. Source[i] = s /\ i \notin run.got
  BY <1>1, <1>2 DEF DownloadInv, RunFits
<1>4. PICK d \in Digests \cup {NoFile} :
        /\ file' = [file EXCEPT ![i] = d]
        /\ \/ /\ run' = [run EXCEPT !.left = @ \ {i}, !.got = @ \cup {i}]
              /\ d # NoFile
           \/ run' = [run EXCEPT !.left = @ \ {i}]
  <2>1. file = [file EXCEPT ![i] = file[i]] /\ file[i] \in Digests \cup {NoFile}
    BY DEF DownloadInv, DownloadTyped, RunRecord
  <2>2. CASE /\ run' = [run EXCEPT !.left = @ \ {i}, !.got = @ \cup {i}]
             /\ IF Source[i] \in Resuming /\ file[i] # NoFile
                THEN UNCHANGED file
                ELSE \E d \in Digests : file' = [file EXCEPT ![i] = d]
    BY <2>1, <2>2, PipelineAssumption
  <2>3. CASE /\ run' = [run EXCEPT !.left = @ \ {i}]
             /\ file' = IF Source[i] \in Resuming
                        THEN [file EXCEPT ![i] = NoFile] ELSE file
    BY <2>1, <2>3
  <2> QED BY <2>2, <2>3 DEF Fetch
<1>5. run' \in RunRecord
  <2>1. run \in RunRecord
    BY DEF DownloadInv, DownloadTyped, RunRecord
  <2>2. CASE run' = [run EXCEPT !.left = @ \ {i}, !.got = @ \cup {i}]
    BY <2>1, <2>2 DEF RunRecord
  <2>3. CASE run' = [run EXCEPT !.left = @ \ {i}]
    BY <2>1, <2>3 DEF RunRecord
  <2> QED BY <1>4, <2>2, <2>3
<1>6. DownloadTyped'
  BY <1>1, <1>4, <1>5 DEF DownloadInv, DownloadTyped, RunRecord
<1>7. /\ run'.step = "fetch" /\ run'.selected = run.selected /\ run'.todo = run.todo
      /\ run'.source = run.source /\ run'.left = run.left \ {i}
      /\ run'.got \in {run.got, run.got \cup {i}}
      /\ run'.records = run.records /\ run'.failed = run.failed /\ run'.skipped = run.skipped
  BY <1>1, <1>4 DEF DownloadInv, DownloadTyped, RunRecord
<1>8. \A j \in run'.got : file'[j] # NoFile
  <2>1. \A j \in run.got : j \in Images /\ file'[j] # NoFile
    BY <1>3, <1>4 DEF DownloadInv, DownloadTyped, RunRecord, RunFits
  <2>2. i \in run'.got => file'[i] # NoFile
    BY <1>3, <1>4 DEF DownloadInv, DownloadTyped, RunRecord
  <2> QED BY <1>7, <2>1, <2>2
<1>9. RunFits'
  BY <1>1, <1>2, <1>3, <1>7, <1>8 DEF DownloadInv, RunFits, At
<1>10. ManifestsFit'
  BY <1>1 DEF DownloadInv, ManifestsFit
<1>11. OthersUntouched
  BY <1>1, <1>2, <1>3, <1>4 DEF DownloadInv, DownloadTyped, RunRecord, OthersUntouched, ImagesOf
<1>12. s \in torn' \/ manifest'[s].records = {}
  BY <1>1, <1>2 DEF DownloadInv, TornFits
<1> QED BY <1>1, <1>2, <1>6, <1>7, <1>9, <1>10, <1>11, <1>12, FetchingKeeps

LEMMA OpenManifestKeeps ==
  ASSUME DownloadInv, NEW s \in Sources, OpenManifest(s)
  PROVE  DownloadInv' /\ OthersUntouched
<1>1. /\ At("fetch") /\ run.source = {s} /\ run.step = "fetch" /\ run.left = {}
      /\ manifest' = [manifest EXCEPT ![s] = Truncated]
      /\ run' = [run EXCEPT !.step = "save"]
      /\ torn' = torn \ {s}
      /\ UNCHANGED <<file, csv, report, stale, runs, interrupts>>
  BY DEF OpenManifest, At, counters
<1>2. Truncated \in Manifest /\ Truncated.records = {}
  BY DEF Truncated, Manifest
<1>3. run' \in RunRecord
  BY <1>1 DEF DownloadInv, DownloadTyped, RunRecord, Steps
<1>4. DownloadTyped'
  BY <1>1, <1>2, <1>3 DEF DownloadInv, DownloadTyped, RunRecord
<1>5. /\ run'.step = "save" /\ run'.selected = run.selected /\ run'.todo = run.todo
      /\ run'.source = run.source /\ run'.left = run.left /\ run'.got = run.got
      /\ run'.records = run.records /\ run'.failed = run.failed /\ run'.skipped = run.skipped
  BY <1>1 DEF DownloadInv, DownloadTyped, RunRecord
<1>6. RunFits'
  BY <1>1, <1>5 DEF DownloadInv, RunFits, At
<1>7. ManifestsFit'
  BY <1>1, <1>2 DEF DownloadInv, DownloadTyped, RunRecord, ManifestsFit
<1>8. OthersUntouched /\ manifest'[s].records = {}
  BY <1>1, <1>2 DEF DownloadInv, DownloadTyped, RunRecord, OthersUntouched
<1>9. torn' \cup {s} = torn \cup {s}
  BY <1>1
<1> QED BY <1>1, <1>4, <1>5, <1>6, <1>7, <1>8, <1>9, FetchingKeeps

LEMMA write_manifestKeeps ==
  ASSUME DownloadInv, NEW s \in Sources, write_manifest(s)
  PROVE  DownloadInv' /\ OthersUntouched
<1>1. /\ At("save") /\ run.source = {s} /\ run.step = "save"
      /\ manifest' = [manifest EXCEPT ![s] = Holding(run.got)]
      /\ run' = [run EXCEPT !.step = "choose", !.records = @ \cup run.got,
                            !.source = {}, !.got = {}]
      /\ UNCHANGED <<file, csv, report, torn, stale, runs, interrupts>>
  BY DEF write_manifest, At, counters
<1>2. run.got \subseteq Images /\ Holding(run.got) \in Manifest /\ Holding(run.got).records = run.got
  BY DEF DownloadInv, DownloadTyped, RunRecord, Holding, Manifest
<1>3. \A i \in run.got : Source[i] = s /\ file[i] # NoFile
  BY <1>1 DEF DownloadInv, RunFits
<1>4. run' \in RunRecord
  BY <1>1, <1>2 DEF DownloadInv, DownloadTyped, RunRecord, Steps
<1>5. DownloadTyped'
  BY <1>1, <1>2, <1>4 DEF DownloadInv, DownloadTyped, RunRecord
<1>6. /\ run'.step = "choose" /\ run'.selected = run.selected /\ run'.todo = run.todo
      /\ run'.source = {} /\ run'.left = run.left /\ run'.got = {} /\ run.left = {}
      /\ run'.records = run.records \cup run.got /\ run'.failed = run.failed
  BY <1>1 DEF DownloadInv, DownloadTyped, RunRecord, RunFits
<1>7. RunFits'
  BY <1>1, <1>6 DEF DownloadInv, RunFits, At
<1>8. ManifestsFit'
  BY <1>1, <1>2, <1>3 DEF DownloadInv, DownloadTyped, RunRecord, ManifestsFit, ImagesOf
<1>9. OthersUntouched
  BY <1>1 DEF DownloadInv, DownloadTyped, RunRecord, OthersUntouched
<1>10. \A t \in Sources \ {s} : complete(t)' = complete(t)
  BY <1>1, <1>9, UntouchedStaysComplete DEF DownloadInv, OthersUntouched
<1>11. complete(s)' = run.got
  <2>1. manifest'[s].records = run.got
    BY <1>1, <1>2 DEF DownloadInv, DownloadTyped, RunRecord
  <2> QED BY <1>1, <1>3, <2>1 DEF complete
<1>12. RecordsAreComplete'
  <2>1. s \notin run.todo
    BY <1>1 DEF DownloadInv, RunFits
  <2>2. ASSUME NEW i \in run'.records
        PROVE  Source[i] \notin run'.todo \cup run'.source /\ i \in complete(Source[i])'
    <3>1. CASE i \in run.records
      BY <1>1, <1>6, <1>10, <3>1, SourceType DEF DownloadInv, DownloadTyped, RunRecord, RecordsAreComplete
    <3>2. CASE i \in run.got
      BY <1>3, <1>6, <1>11, <2>1, <3>2
    <3> QED BY <1>6, <3>1, <3>2
  <2> QED BY <1>5, <2>2 DEF RecordsAreComplete
<1>13. CollectedIsRecorded'
  <2>1. SUFFICES ASSUME NEW t \in Sources, Collected(t)'
                 PROVE  complete(t)' \subseteq run'.records
    BY DEF CollectedIsRecorded
  <2>2. CASE t = s
    BY <1>6, <1>11, <2>2
  <2>3. CASE t # s
    <3>1. Collected(t)
      BY <1>1, <1>6, <2>1, <2>3 DEF Collected
    <3> QED BY <1>1, <1>6, <1>10, <2>3, <3>1 DEF DownloadInv, CollectedIsRecorded, At
  <2> QED BY <2>2, <2>3
<1>14. CsvIsWritten' /\ ReportIsCurrent'
  BY <1>1, <1>6 DEF CsvIsWritten, ReportIsCurrent, At
<1>15. TornFits'
  <2>1. ASSUME NEW t \in Sources \ torn, t # s PROVE Whole(t)'
    <3>1. Whole(t) /\ manifest'[t] = manifest[t]
      BY <1>1, <1>9, <2>1 DEF DownloadInv, TornFits, OthersUntouched
    <3> QED BY <1>1, <3>1 DEF Whole
  <2>2. Whole(s)'
    BY <1>1, <1>2, <1>3 DEF DownloadInv, DownloadTyped, Whole
  <2>3. \A t \in run.failed \ torn : t # s /\ complete(t)' = {}
    BY <1>1, <1>10 DEF DownloadInv, DownloadTyped, RunRecord, RunFits, TornFits
  <2> QED BY <1>1, <1>6, <2>1, <2>2, <2>3 DEF TornFits, At
<1> QED BY <1>5, <1>7, <1>8, <1>9, <1>12, <1>13, <1>14, <1>15 DEF DownloadInv

---------------------------------------------------------------------------
(* The report, the combined CSV and the dataset.                           *)

(* A step of the run that writes the report or the CSV keeps what the run  *)
(* has collected.                                                          *)
LEMMA WritingKeeps ==
  ASSUME DownloadInv, UNCHANGED <<file, manifest, torn, runs, interrupts>>,
         csv' \in SUBSET Images, report' \in 0..Count(Images), stale' \in BOOLEAN,
         run.step \in {"report", "write csv", "check csv"},
         NEW step \in {"write csv", "check csv", "update report"},
         run' = [run EXCEPT !.step = step],
         step = "update report" => csv' = Kept(run.records)
  PROVE  DownloadInv' /\ OthersUntouched
<1>1. run' \in RunRecord
  BY DEF DownloadInv, DownloadTyped, RunRecord, Steps
<1>2. DownloadTyped'
  BY <1>1 DEF DownloadInv, DownloadTyped
<1>3. /\ run'.step = step /\ run'.selected = run.selected /\ run'.todo = run.todo
      /\ run'.source = run.source /\ run'.left = run.left /\ run'.got = run.got
      /\ run'.records = run.records /\ run'.failed = run.failed /\ run'.skipped = run.skipped
  BY DEF DownloadInv, DownloadTyped, RunRecord
<1>4. /\ OthersUntouched /\ ManifestsFit'
      /\ \A t \in Sources : complete(t)' = complete(t) /\ Whole(t)' = Whole(t)
      /\ \A records : Kept(records)' = Kept(records)
  BY SettledFiles DEF DownloadInv
<1>5. RunFits'
  BY <1>3 DEF DownloadInv, RunFits, At
<1>6. TornFits'
  <2>1. \A t \in run.failed \ torn : complete(t) = {} /\ t \in Sources
    BY DEF DownloadInv, DownloadTyped, RunRecord, TornFits
  <2>2. \A t \in Sources \ torn : Whole(t)
    BY DEF DownloadInv, TornFits, At
  <2> QED BY <1>3, <1>4, <2>1, <2>2 DEF TornFits, At
<1>7. RecordsAreComplete'
  <2>1. ASSUME NEW i \in run.records
        PROVE  Source[i] \notin run.todo \cup run.source /\ i \in complete(Source[i])'
    <3>1. Source[i] \in Sources
      BY SourceType DEF DownloadInv, DownloadTyped, RunRecord
    <3> QED BY <1>4, <3>1 DEF DownloadInv, RecordsAreComplete
  <2> QED BY <1>3, <2>1 DEF RecordsAreComplete
<1>8. CollectedIsRecorded'
  BY <1>3, <1>4 DEF DownloadInv, CollectedIsRecorded, Collected, At
<1>9. CsvIsWritten'
  BY <1>3 DEF CsvIsWritten, Kept, At
<1>10. ReportIsCurrent'
  BY <1>3 DEF ReportIsCurrent, At
<1> QED BY <1>2, <1>4, <1>5, <1>6, <1>7, <1>8, <1>9, <1>10 DEF DownloadInv

(* A run ends at its report.                                               *)
LEMMA ReportingEnds ==
  ASSUME DownloadInv, run' = NoRun, UNCHANGED <<file, manifest, csv, torn, runs, interrupts>>,
         run.step \in {"report", "write csv", "check csv", "update report"},
         report' \in 0..Count(Images), stale' \in BOOLEAN, ReportIsCurrent'
  PROVE  DownloadInv' /\ OthersUntouched
<1>1. /\ OthersUntouched /\ ManifestsFit'
      /\ \A t \in Sources : Whole(t)' = Whole(t)
  BY SettledFiles DEF DownloadInv
<1>2. \A t \in Sources \ torn' : Whole(t)'
  BY <1>1 DEF DownloadInv, TornFits, At
<1>3. DownloadTyped'
  BY NoRunType DEF DownloadInv, DownloadTyped
<1> QED BY <1>1, <1>2, <1>3, EndKeeps

LEMMA WriteReportKeeps ==
  ASSUME DownloadInv, WriteReport
  PROVE  DownloadInv' /\ OthersUntouched
<1>1. /\ run.step = "report" /\ report' = 0 /\ stale' = FALSE
      /\ UNCHANGED <<file, manifest, csv, torn, runs, interrupts>>
  BY DEF WriteReport, At, counters
<1>2. report' \in 0..Count(Images)
  BY <1>1, CountOfImages
<1>3. CASE run' = NoRun
  <2>1. ReportIsCurrent'
    BY <1>1 DEF ReportIsCurrent
  <2> QED BY <1>1, <1>2, <1>3, <2>1, ReportingEnds
<1>4. CASE run' = [run EXCEPT !.step = "write csv"]
  <2>1. csv' \in SUBSET Images /\ stale' \in BOOLEAN
    BY <1>1 DEF DownloadInv, DownloadTyped
  <2> QED BY <1>1, <1>2, <1>4, <2>1, WritingKeeps
<1> QED BY <1>3, <1>4 DEF WriteReport, End

LEMMA OpenCsvKeeps ==
  ASSUME DownloadInv, OpenCsv
  PROVE  DownloadInv' /\ OthersUntouched
<1>1. /\ run.step = "write csv" /\ run' = [run EXCEPT !.step = "check csv"]
      /\ UNCHANGED <<file, manifest, report, torn, stale, runs, interrupts>>
  BY DEF OpenCsv, At, counters
<1>2. csv' \subseteq Kept(run.records) /\ Kept(run.records) \subseteq Images
  BY DEF DownloadInv, DownloadTyped, RunRecord, OpenCsv, Kept
<1>3. /\ csv' \in SUBSET Images /\ stale' \in BOOLEAN
      /\ report' \in 0..Count(Images)
  BY <1>1, <1>2 DEF DownloadInv, DownloadTyped
<1> QED BY <1>1, <1>3, WritingKeeps

LEMMA write_source_metadataKeeps ==
  ASSUME DownloadInv, write_source_metadata
  PROVE  DownloadInv' /\ OthersUntouched
<1>1. /\ run.step = "check csv" /\ run' = [run EXCEPT !.step = "update report"]
      /\ csv' = Kept(run.records)
      /\ UNCHANGED <<file, manifest, report, torn, stale, runs, interrupts>>
  BY DEF write_source_metadata, At, counters
<1>2. /\ csv' \in SUBSET Images /\ stale' \in BOOLEAN
      /\ report' \in 0..Count(Images)
  BY <1>1 DEF DownloadInv, DownloadTyped, RunRecord, Kept
<1> QED BY <1>1, <1>2, WritingKeeps

LEMMA UpdateReportKeeps ==
  ASSUME DownloadInv, UpdateReport
  PROVE  DownloadInv' /\ OthersUntouched
<1>1. /\ run.step = "update report" /\ run' = NoRun
      /\ report' = Count(run.records) - Cardinality(csv)
      /\ UNCHANGED <<file, manifest, csv, torn, stale, runs, interrupts>>
  BY DEF UpdateReport, End, At, counters
<1>2. run.records \in SUBSET Images /\ csv = Kept(run.records)
  BY <1>1 DEF DownloadInv, DownloadTyped, RunRecord, CsvIsWritten, At
<1>3. report' \in 0..Count(Images)
  BY <1>1, <1>2, KeptIsCounted
<1>4. /\ \A t \in Sources : complete(t)' = complete(t)
      /\ \A records : Kept(records)' = Kept(records)
  BY <1>1, SettledFiles
<1>5. \A i \in run.records : i \in complete(Source[i])'
  BY <1>2, <1>4, SourceType DEF DownloadInv, RecordsAreComplete
<1>6. ReportIsCurrent'
  BY <1>1, <1>2, <1>4, <1>5 DEF ReportFitsCsv, ReportIsCurrent
<1>7. stale' \in BOOLEAN
  BY <1>1 DEF DownloadInv, DownloadTyped
<1> QED BY <1>1, <1>3, <1>6, <1>7, ReportingEnds

LEMMA RunFailsKeeps ==
  ASSUME DownloadInv, RunFails
  PROVE  DownloadInv' /\ OthersUntouched
<1>1. /\ run' = NoRun /\ stale' = TRUE /\ report' \in {report, 0}
      /\ UNCHANGED <<file, manifest, csv, torn, runs, interrupts>>
      /\ run.step \in {"report", "write csv", "check csv", "update report"}
  BY DEF RunFails, End, counters
<1>2. report' \in 0..Count(Images)
  <2>1. report \in 0..Count(Images) /\ 0 \in 0..Count(Images)
    BY CountOfImages DEF DownloadInv, DownloadTyped
  <2> QED BY <1>1, <2>1
<1>3. ReportIsCurrent'
  BY <1>1 DEF ReportIsCurrent
<1> QED BY <1>1, <1>2, <1>3, ReportingEnds

---------------------------------------------------------------------------
(* The preparation.                                                        *)

(* A download that is under way while images are copied is one that the    *)
(* history knows of.                                                       *)
LEMMA DownloadsKeepBuild ==
  ASSUME BuildInv, UNCHANGED prepVars, UNCHANGED mixed, ~At("idle")
  PROVE  BuildInv'
<1>1. UNCHANGED <<dataset, prep, builds, mixed>>
  BY DEF prepVars
<1>2. BuildTyped' /\ NoLeakage'
  BY <1>1 DEF BuildInv, BuildTyped, NoLeakage
<1>3. BuildFits'
  BY <1>1 DEF BuildInv, BuildFits, PrepAt
<1> QED BY <1>2, <1>3 DEF BuildInv

LEMMA BeginDownloadKeepsBuild ==
  ASSUME BuildInv, NEW selected, NEW refreshed, NEW skipped,
         BeginDownload(selected, refreshed, skipped)
  PROVE  BuildInv'
<1>1. /\ UNCHANGED <<dataset, prep, builds>>
      /\ mixed' = (mixed \/ prep.step = "copy")
  BY DEF BeginDownload, prepVars
<1>2. mixed \in BOOLEAN /\ mixed' \in BOOLEAN
  BY <1>1 DEF BuildInv, BuildTyped
<1>3. BuildTyped'
  BY <1>1, <1>2 DEF BuildInv, BuildTyped
<1>4. NoLeakage'
  BY <1>1, <1>2 DEF BuildInv, NoLeakage
<1>5. BuildFits'
  BY <1>1, <1>2 DEF BuildInv, BuildFits, PrepAt
<1> QED BY <1>3, <1>4, <1>5 DEF BuildInv

(* When the preparation ends without a manifest, the dataset has none.     *)
LEMMA PrepEndsKeeps ==
  ASSUME BuildInv, prep' = NoPrep, UNCHANGED <<dataset, mixed, builds>>
  PROVE  BuildInv'
<1>1. prep'.step = "idle" /\ prep'.rows = {} /\ prep'.left = {}
  BY DEF NoPrep
<1>2. BuildTyped'
  BY DEF BuildInv, BuildTyped, NoPrep
<1>3. BuildFits' /\ NoLeakage'
  BY <1>1 DEF BuildInv, BuildFits, NoLeakage, PrepAt
<1> QED BY <1>2, <1>3 DEF BuildInv

LEMMA InterruptKeepsBuild ==
  ASSUME DownloadInv, BuildInv, Interrupt
  PROVE  BuildInv'
<1>1. UNCHANGED <<dataset, mixed, builds>> /\ UNCHANGED file
  BY DEF Interrupt, disk
<1>2. CASE prep' = NoPrep
  BY <1>1, <1>2, PrepEndsKeeps
<1>3. CASE prep' = prep /\ run' = NoRun
  <2>1. run'.step = "idle"
    BY <1>3 DEF NoRun
  <2>2. BuildTyped' /\ NoLeakage'
    BY <1>1, <1>3 DEF BuildInv, BuildTyped, NoLeakage
  <2>3. BuildFits'
    BY <1>1, <1>3, <2>1 DEF BuildInv, BuildFits, PrepAt, At, RecordsValid
  <2> QED BY <2>2, <2>3 DEF BuildInv
<1> QED BY <1>2, <1>3 DEF Interrupt, End

LEMMA BeginPrepareKeeps ==
  ASSUME BuildInv, BeginPrepare
  PROVE  BuildInv'
<1>1. /\ builds' \in 0..MaxBuilds /\ UNCHANGED <<dataset, mixed>>
      /\ prep' = [NoPrep EXCEPT !.step = "validate"]
  BY PipelineAssumption DEF BeginPrepare, BuildInv, BuildTyped
<1>2. prep'.step = "validate"
  BY <1>1 DEF NoPrep
<1>3. BuildTyped'
  BY <1>1 DEF BuildInv, BuildTyped, NoPrep
<1>4. BuildFits' /\ NoLeakage'
  BY <1>1, <1>2 DEF BuildInv, BuildFits, NoLeakage, PrepAt
<1> QED BY <1>3, <1>4 DEF BuildInv

LEMMA BeginBuildKeeps ==
  ASSUME DownloadInv, BuildInv, BeginBuild
  PROVE  BuildInv'
<1>1. UNCHANGED <<file, run, builds>>
  BY DEF BeginBuild, disk
<1>2. CASE /\ RecordsValid(csv) /\ dataset' = Partial /\ mixed' = ~At("idle")
           /\ prep' = [step |-> "copy", rows |-> csv, left |-> csv]
  <2>1. csv \in SUBSET Images
    BY DEF DownloadInv, DownloadTyped
  <2>2. /\ dataset' = [state |-> "partial", digest |-> <<>>]
        /\ dataset'.state = "partial" /\ dataset'.digest = <<>>
    BY <1>2 DEF Partial
  <2>3. DOMAIN dataset'.digest = {} /\ dataset'.digest \in [{} -> Digests]
    BY <2>2
  <2>4. BuildTyped'
    BY <1>1, <1>2, <2>1, <2>2, <2>3 DEF BuildInv, BuildTyped
  <2>5. BuildFits'
    BY <1>1, <1>2, <2>2, <2>3 DEF BuildFits, RecordsValid, PrepAt, At
  <2>6. NoLeakage'
    BY <2>2 DEF NoLeakage
  <2> QED BY <2>4, <2>5, <2>6 DEF BuildInv
<1>3. CASE prep' = NoPrep /\ UNCHANGED <<dataset, mixed>>
  BY <1>1, <1>3, PrepEndsKeeps
<1> QED BY <1>2, <1>3 DEF BeginBuild

LEMMA CopyImageKeeps ==
  ASSUME DownloadInv, BuildInv, NEW i \in Images, CopyImage(i)
  PROVE  BuildInv'
<1>1. /\ UNCHANGED <<file, run, mixed, builds>>
      /\ PrepAt("copy") /\ prep.step = "copy" /\ i \in prep.left
  BY DEF CopyImage, disk, PrepAt
<1>2. CASE prep' = NoPrep /\ UNCHANGED dataset
  BY <1>1, <1>2, PrepEndsKeeps
<1>3. CASE /\ file[i] # NoFile
           /\ prep' = [prep EXCEPT !.left = @ \ {i}]
           /\ dataset' = [dataset EXCEPT !.digest =
                 [j \in DOMAIN @ \cup {i} |-> IF j = i THEN file[i] ELSE @[j]]]
  <2> DEFINE digest == [j \in DOMAIN dataset.digest \cup {i} |->
                          IF j = i THEN file[i] ELSE dataset.digest[j]]
  <2>1. file[i] \in Digests
    BY <1>3 DEF DownloadInv, DownloadTyped
  <2>2. /\ dataset' = [state |-> dataset.state, digest |-> digest]
        /\ dataset'.state = dataset.state /\ dataset'.digest = digest
    BY <1>3 DEF BuildInv, BuildFits
  <2>3. /\ prep'.step = "copy" /\ prep'.rows = prep.rows /\ prep'.left = prep.left \ {i}
        /\ prep' \in [step : {"idle", "validate", "copy"}, rows : SUBSET Images,
                      left : SUBSET Images]
    BY <1>1, <1>3 DEF BuildInv, BuildTyped
  <2>4. /\ DOMAIN dataset'.digest = prep.rows \ (prep.left \ {i})
        /\ dataset.state = "partial" /\ prep.left \subseteq prep.rows
    BY <1>1, <2>2 DEF BuildInv, BuildFits
  <2>5. BuildTyped'
    <3>1. PICK built \in SUBSET Images : dataset.digest \in [built -> Digests]
      BY DEF BuildInv, BuildTyped
    <3>2. digest \in [built \cup {i} -> Digests]
      BY <2>1, <3>1
    <3>3. \E b \in SUBSET Images : dataset'.digest \in [b -> Digests]
      <4>1. built \cup {i} \in SUBSET Images
        OBVIOUS
      <4> HIDE DEF digest
      <4> QED BY <2>2, <3>2, <4>1
    <3> QED BY <1>1, <2>2, <2>3, <3>3 DEF BuildInv, BuildTyped
  <2>6. ASSUME ~mixed
        PROVE  /\ At("idle") /\ RecordsValid(prep.rows)
               /\ \A j \in DOMAIN digest : digest[j] = file[j]
    BY <1>1, <2>6 DEF BuildInv, BuildFits
  <2>7. BuildFits'
    <3>1. \A k, j \in prep.rows : Group[k] = Group[j] => Split[k] = Split[j]
      BY <1>1 DEF BuildInv, BuildFits
    <3>2. ~mixed => RecordsValid(prep.rows)'
      BY <1>1, <2>3, <2>6 DEF RecordsValid
    <3> HIDE DEF digest
    <3> QED BY <1>1, <2>2, <2>3, <2>4, <2>6, <3>1, <3>2 DEF BuildFits, PrepAt, At
  <2>8. NoLeakage'
    BY <2>2, <2>4 DEF NoLeakage
  <2> QED BY <2>5, <2>7, <2>8 DEF BuildInv
<1> QED BY <1>2, <1>3 DEF CopyImage

LEMMA FinishBuildKeeps ==
  ASSUME DownloadInv, BuildInv, FinishBuild
  PROVE  BuildInv'
<1>1. /\ UNCHANGED <<file, run, mixed, builds>> /\ prep' = NoPrep
      /\ PrepAt("copy") /\ prep.left = {}
      /\ dataset' = [dataset EXCEPT !.state = "whole"]
  BY DEF FinishBuild, disk
<1>2. /\ dataset' = [state |-> "whole", digest |-> dataset.digest]
      /\ dataset'.state = "whole" /\ dataset'.digest = dataset.digest
  BY <1>1 DEF BuildInv, BuildFits
<1>3. BuildTyped'
  BY <1>1, <1>2 DEF BuildInv, BuildTyped, NoPrep
<1>4. BuildFits'
  BY <1>1, <1>2 DEF BuildFits, PrepAt, NoPrep
<1>5. /\ DOMAIN dataset.digest = prep.rows
      /\ \A i, j \in prep.rows : Group[i] = Group[j] => Split[i] = Split[j]
  BY <1>1 DEF BuildInv, BuildFits
<1>6. ~mixed => \A i, j \in prep.rows :
        /\ dataset.digest[i] \notin Broken
        /\ dataset.digest[i] = dataset.digest[j] => Split[i] = Split[j]
  BY <1>1, <1>5 DEF BuildInv, BuildFits, RecordsValid
<1>7. NoLeakage'
  <2>1. mixed' = mixed /\ mixed \in BOOLEAN
    BY <1>1 DEF BuildInv, BuildTyped
  <2>2. SUFFICES /\ \A i, j \in prep.rows : Group[i] = Group[j] => Split[i] = Split[j]
                 /\ ~mixed => \A i, j \in prep.rows :
                      /\ dataset.digest[i] \notin Broken
                      /\ dataset.digest[i] = dataset.digest[j] => Split[i] = Split[j]
    BY <1>2, <1>5, <2>1 DEF NoLeakage
  <2> QED BY <1>5, <1>6
<1> QED BY <1>3, <1>4, <1>7 DEF BuildInv

---------------------------------------------------------------------------
(* The invariant and what follows from it.                                 *)

LEMMA PipelineInit == Init => PipelineInv
<1> SUFFICES ASSUME Init PROVE PipelineInv
  OBVIOUS
<1> USE DEF Init
<1>1. DownloadTyped
  <2>1. report \in 0..Count(Images)
    BY CountOfImages
  <2>2. NoManifest \in Manifest
    BY DEF NoManifest, Manifest
  <2>3. /\ file \in [Images -> Digests \cup {NoFile}] /\ manifest \in [Sources -> Manifest]
        /\ csv \in SUBSET Images
    BY <2>2
  <2>4. runs \in 0..MaxRuns /\ interrupts \in 0..MaxInterrupts
    BY PipelineAssumption
  <2> QED BY <2>1, <2>3, <2>4, NoRunType DEF DownloadTyped
<1>2. RunFits
  BY DEF RunFits, NoRun, At
<1>3. ManifestsFit /\ TornFits
  BY DEF ManifestsFit, TornFits, Whole, NoManifest, NoRun
<1>4. RecordsAreComplete /\ CollectedIsRecorded /\ CsvIsWritten /\ ReportIsCurrent
  BY DEF RecordsAreComplete, CollectedIsRecorded, CsvIsWritten, ReportIsCurrent, NoRun, At
<1>5. dataset = [state |-> "none", digest |-> <<>>] /\ dataset.digest \in [{} -> Digests]
  BY DEF NoDataset
<1>6. BuildTyped
  <2>1. {} \in SUBSET Images /\ 0 \in 0..MaxBuilds /\ NoPrep.step = "idle"
    BY PipelineAssumption DEF NoPrep
  <2>2. \E built \in SUBSET Images : dataset.digest \in [built -> Digests]
    BY <1>5, <2>1
  <2>3. dataset.state = "none"
    BY <1>5
  <2> QED BY <2>1, <2>2, <2>3 DEF BuildTyped, NoPrep
<1>7. BuildFits /\ NoLeakage
  BY <1>5 DEF BuildFits, NoLeakage, PrepAt, NoPrep
<1> QED BY <1>1, <1>2, <1>3, <1>4, <1>6, <1>7 DEF PipelineInv, DownloadInv, BuildInv

LEMMA DownloadsKeep ==
  ASSUME PipelineInv, download_datasets
  PROVE  PipelineInv' /\ OthersUntouched
<1> USE DEF PipelineInv
<1>1. CASE \E selected \in (SUBSET Sources) \ {{}} :
             \E refreshed \in SUBSET selected, skipped \in SUBSET (Sources \ selected) :
               BeginDownload(selected, refreshed, skipped)
  BY <1>1, BeginDownloadKeeps, BeginDownloadKeepsBuild
<1>2. CASE \E s \in Sources : \/ Reuse(s) \/ Unreadable(s) \/ BeginSource(s)
                              \/ Refresh(s) \/ SourceFails(s) \/ OpenManifest(s)
                              \/ write_manifest(s) \/ ManifestFails(s)
  <2>1. PICK s \in Sources : \/ Reuse(s) \/ Unreadable(s) \/ BeginSource(s)
                             \/ Refresh(s) \/ SourceFails(s) \/ OpenManifest(s)
                             \/ write_manifest(s) \/ ManifestFails(s)
    BY <1>2
  <2>2. DownloadInv' /\ OthersUntouched
    BY <2>1, ReuseKeeps, UnreadableKeeps, BeginSourceKeeps, RefreshKeeps, SourceFailsKeeps,
       OpenManifestKeeps, write_manifestKeeps
  <2>3. UNCHANGED prepVars /\ UNCHANGED mixed /\ ~At("idle")
    BY <2>1 DEF Reuse, Unreadable, BeginSource, Refresh, SourceFails, OpenManifest,
                write_manifest, ManifestFails, Turn, At
  <2> QED BY <2>2, <2>3, DownloadsKeepBuild
<1>3. CASE \E i \in Images : Fetch(i)
  <2>1. UNCHANGED prepVars /\ UNCHANGED mixed /\ ~At("idle")
    BY <1>3 DEF Fetch, At
  <2> QED BY <1>3, <2>1, FetchKeeps, DownloadsKeepBuild
<1>4. CASE \/ Retain \/ WriteReport \/ OpenCsv \/ write_source_metadata
           \/ UpdateReport \/ RunFails
  <2>1. UNCHANGED prepVars /\ UNCHANGED mixed /\ ~At("idle")
    BY <1>4 DEF Retain, WriteReport, OpenCsv, write_source_metadata, UpdateReport, RunFails, At
  <2> QED BY <1>4, <2>1, RetainKeeps, WriteReportKeeps, OpenCsvKeeps,
             write_source_metadataKeeps, UpdateReportKeeps, RunFailsKeeps, DownloadsKeepBuild
<1> QED BY <1>1, <1>2, <1>3, <1>4 DEF download_datasets

LEMMA PreparationKeeps ==
  ASSUME PipelineInv, prepare_local_dataset_main
  PROVE  PipelineInv' /\ OthersUntouched
<1>1. BuildInv'
  BY BeginPrepareKeeps, BeginBuildKeeps, CopyImageKeeps, FinishBuildKeeps
  DEF PipelineInv, prepare_local_dataset_main
<1>2. UNCHANGED <<disk, run, torn, stale, runs, interrupts>>
  BY DEF prepare_local_dataset_main, BeginPrepare, BeginBuild, CopyImage, FinishBuild, counters
<1>3. runs' \in 0..MaxRuns /\ interrupts' \in 0..MaxInterrupts
  BY <1>2 DEF PipelineInv, DownloadInv, DownloadTyped
<1> QED BY <1>1, <1>2, <1>3, NothingDownloaded DEF PipelineInv

LEMMA StutterKeeps ==
  ASSUME PipelineInv, UNCHANGED vars PROVE PipelineInv' /\ OthersUntouched
<1>1. UNCHANGED <<disk, file, run, torn, stale, runs, interrupts, dataset, prep, builds, mixed>>
  BY DEF vars, disk, prepVars, counters
<1>2. DownloadInv' /\ OthersUntouched
  <2>1. runs' \in 0..MaxRuns /\ interrupts' \in 0..MaxInterrupts
    BY <1>1 DEF PipelineInv, DownloadInv, DownloadTyped
  <2> QED BY <1>1, <2>1, NothingDownloaded DEF PipelineInv
<1>3. BuildTyped' /\ NoLeakage'
  BY <1>1 DEF PipelineInv, BuildInv, BuildTyped, NoLeakage
<1>4. BuildFits'
  BY <1>1 DEF PipelineInv, BuildInv, BuildFits, PrepAt, At, RecordsValid
<1> QED BY <1>2, <1>3, <1>4 DEF PipelineInv, BuildInv

LEMMA PipelineNext == PipelineInv /\ [Next]_vars => PipelineInv' /\ OthersUntouched
<1> SUFFICES ASSUME PipelineInv, [Next]_vars PROVE PipelineInv' /\ OthersUntouched
  OBVIOUS
<1>1. CASE download_datasets
  BY <1>1, DownloadsKeep
<1>2. CASE prepare_local_dataset_main
  BY <1>2, PreparationKeeps
<1>3. CASE Interrupt
  BY <1>3, InterruptKeeps, InterruptKeepsBuild DEF PipelineInv
<1>4. CASE UNCHANGED vars
  BY <1>4, StutterKeeps
<1> QED BY <1>1, <1>2, <1>3, <1>4 DEF Next

LEMMA PipelineInvariant == Spec => []PipelineInv
BY PipelineInit, PipelineNext, PTL DEF Spec

LEMMA MissingRows ==
  \A x : x \in Missing <=> x \notin csv /\ \E s \in Sources : x \in complete(s)
BY DEF Missing

(* The files, the run and the report stay what the downloader and the      *)
(* preparation command take them for; the count of skipped duplicates is   *)
(* never negative, whatever paths collide (download_datasets).             *)
THEOREM WorkspaceIsTyped == Spec => []TypeOK
<1>1. PipelineInv => TypeOK
  BY DEF PipelineInv, DownloadInv, BuildInv, DownloadTyped, BuildTyped, TypeOK, RunRecord
<1> QED BY <1>1, PipelineInvariant, PTL

(* Whatever downloads, refreshes and power cuts came before or come in     *)
(* between, no capture group that the dataset tests on is one that it      *)
(* trains on; and no content is, when no download ran during the build:    *)
(* from the validation of the rows to the copy of the last one, one step   *)
(* each, the files are the validated ones (build_dataset).                 *)
THEOREM NothingLeaks == Spec => []NoLeakage
<1>1. PipelineInv => NoLeakage
  BY DEF PipelineInv, BuildInv
<1> QED BY <1>1, PipelineInvariant, PTL

(* A run that reaches its last report leaves a CSV that has every content  *)
(* of every complete manifest of an enabled source, each once, whether the *)
(* source was fetched, reused or not selected, and although others failed; *)
(* a source that failed itself has nothing complete to omit, unless an     *)
(* earlier refresh of it was left half way (write_source_metadata).        *)
THEOREM SuccessesAreComplete == Spec => []SuccessIsComplete
<1>1. PipelineInv => SuccessIsComplete
  <2>1. SUFFICES ASSUME PipelineInv, run.step = "update report"
                 PROVE  /\ \A s \in Sources \ (run.skipped \cup (run.failed \cap torn)) :
                             \A i \in complete(s) : \E j \in csv : file[j] = file[i]
                        /\ \A i, j \in csv : file[i] = file[j] => i = j
    BY DEF SuccessIsComplete, At
  <2>2. csv = Kept(run.records) /\ run.records \in SUBSET Images
    BY <2>1 DEF PipelineInv, DownloadInv, DownloadTyped, RunRecord, CsvIsWritten, At
  <2>3. \A s \in Sources \ (run.skipped \cup run.failed) : complete(s) \subseteq run.records
    BY <2>1 DEF PipelineInv, DownloadInv, CollectedIsRecorded, Collected, At
  <2>4. \A s \in run.failed \ torn : complete(s) = {}
    BY <2>1 DEF PipelineInv, DownloadInv, TornFits
  <2> QED BY <2>2, <2>3, <2>4, KeptRepresents, KeptOnce
<1> QED BY <1>1, PipelineInvariant, PTL

(* What the coverage check lets pass omits nothing: counting the missing   *)
(* rows is as good as comparing contents while the report is of the last   *)
(* run, for the rows that the CSV left out already use up the whole count  *)
(* (validate_metadata_manifest_coverage).  A record that shares its path   *)
(* with a row of the CSV is counted and not missing: such a CSV is left    *)
(* out, and so is what follows a run that was cut off.                     *)
THEOREM AcceptedCsvIsComplete == Spec => []AcceptedIsComplete
<1>1. ASSUME PipelineInv, ~stale, csv \cap Twins = {}, At("idle"), CoverageAccepts,
             NEW s \in Sources, NEW i \in complete(s)
      PROVE  \E j \in csv : file[j] = file[i]
  <2>1. (\A t \in Sources : ~Raises(t)) /\ Count(Missing) <= report
    BY <1>1 DEF CoverageAccepts
  <2>2. \A x : x \in Missing <=> x \notin csv /\ \E t \in Sources : x \in complete(t)
    BY MissingRows
  <2>3. Missing \in SUBSET Images
    BY <1>1, <2>2, CompleteType DEF PipelineInv, DownloadInv
  <2>4. CASE report = 0
    <3>1. Cardinality(Missing) = 0 /\ IsFiniteSet(Missing)
      <4>1. /\ Cardinality(Missing) \in Nat /\ Cardinality(Missing) <= Count(Missing)
            /\ Count(Missing) \in Nat /\ IsFiniteSet(Missing)
        BY <2>3, CountType
      <4> QED BY <2>1, <2>4, <4>1
    <3>2. i \in csv
      BY <1>1, <2>2, <3>1, FS_EmptySet
    <3> QED BY <3>2
  <2>5. CASE ReportFitsCsv
    <3>1. PICK records \in SUBSET Images :
            /\ csv = Kept(records)
            /\ report = Count(records) - Cardinality(csv)
            /\ \A k \in records : k \in complete(Source[k])
      BY <2>5 DEF ReportFitsCsv
    <3> DEFINE left == records \ csv
    <3>2. left \in SUBSET Missing
      <4>1. \A k \in records : Source[k] \in Sources
        BY SourceType
      <4> QED BY <2>2, <3>1, <4>1
    <3>3. Count(left) = report
      <4>1. csv \in SUBSET records
        BY <3>1 DEF Kept
      <4> QED BY <1>1, <3>1, <4>1, CountOfTheRest
    <3>4. left = Missing
      <4> HIDE DEF left
      <4> QED BY <2>1, <2>3, <3>2, <3>3, CountGrows
    <3>5. i \in records
      <4>1. i \in Missing \/ i \in csv
        BY <1>1, <2>2
      <4>2. csv \subseteq records
        BY <3>1 DEF Kept
      <4> QED BY <3>4, <4>1, <4>2
    <3> QED BY <3>1, <3>5, KeptRepresents
  <2> QED BY <1>1, <2>1, <2>4, <2>5 DEF PipelineInv, DownloadInv, ReportIsCurrent
<1>2. PipelineInv => AcceptedIsComplete
  BY <1>1 DEF AcceptedIsComplete
<1> QED BY <1>2, PipelineInvariant, PTL

(* No run, failed or cut off at any step, loses what another source has    *)
(* downloaded: only the source being fetched changes (_download_dataset).  *)
THEOREM FinishedWorkStays == Spec => FinishedWorkIsKept
<1> DEFINE Keeps == \A s \in Sources :
                      complete(s) # {} /\ complete(s)' # complete(s) => run.source = {s}
<1>1. PipelineInv /\ [Next]_vars => [Keeps]_vars
  <2> SUFFICES ASSUME PipelineInv, [Next]_vars, NEW s \in Sources, run.source # {s}
               PROVE  complete(s)' = complete(s)
    OBVIOUS
  <2> QED BY PipelineNext, UntouchedStaysComplete DEF PipelineInv, DownloadInv, OthersUntouched
<1> QED BY <1>1, PipelineInvariant, PTL DEF Spec, FinishedWorkIsKept

===========================================================================
