-------------------------- MODULE DatasetPipeline --------------------------
(***************************************************************************)
(* The dataset workspace of the training pipeline: the downloader, which   *)
(* fetches the selected sources one after the other, keeps a manifest per  *)
(* source and combines them in source_metadata.csv, and the preparation    *)
(* command, which checks the CSV against the manifests, validates its rows *)
(* and copies what they name into the dataset.  Everything lives in files  *)
(* that are written in place and no lock keeps the two apart, so an        *)
(* interrupt (Ctrl-C, a power cut) leaves what was written so far, and a   *)
(* download may change images that are being copied.                       *)
(***************************************************************************)
EXTENDS Naturals, FiniteSets, FiniteSetsExt, Functions

CONSTANTS
    Sources,       \* the enabled sources of the configuration
    Required,      \* those whose failure fails the run
    Resuming,      \* those that keep an image that is there (LILA)
    Images,        \* image paths below raw/
    Source, Split, Group,  \* the source, split and capture group of an image
    Twins,         \* those that two images of the source are written to
    Order,         \* the place of an image when sorted by split, source, path
    Digests,       \* what the content of an image can be
    Broken,        \* those that are no image, or have no valid label
    NoFile,        \* no image or no label
    MaxRuns, MaxBuilds, MaxInterrupts  \* bounds

ASSUME PipelineAssumption ==
    /\ Required \subseteq Sources /\ Resuming \subseteq Sources
    /\ Source \in [Images -> Sources] /\ IsFiniteSet(Images)
    /\ Order \in [Images -> Nat] /\ IsInjective(Order)
    /\ NoFile \notin Digests
    /\ MaxRuns \in Nat /\ MaxBuilds \in Nat /\ MaxInterrupts \in Nat

VARIABLES
    file,       \* file[i]: digest of the image and its label on disk
    manifest,   \* manifest[s]: what manifests/<s>.json holds
    csv,        \* source_metadata.csv: its rows
    report,     \* download_report.json: duplicate_images_skipped, 0 if absent
    dataset,    \* the built dataset
    run,        \* the downloader
    prep,       \* the preparation command
    torn,       \* history: sources left in a refresh that began to remove files
    stale,      \* history: was a run cut off since the last report?
    mixed,      \* history: did a download run while the dataset was built?
    runs, builds, interrupts  \* counters for the bounds

disk == <<file, manifest, csv, report>>
prepVars == <<dataset, prep, builds>>
counters == <<runs, interrupts>>
vars == <<disk, prepVars, run, torn, stale, mixed, counters>>

Splits == {Split[i] : i \in Images}
ImagesOf(s) == {i \in Images : Source[i] = s}

NoManifest == [state |-> "none", records |-> {}]
Truncated  == [state |-> "truncated", records |-> {}]
Holding(records) == [state |-> "whole", records |-> records]
Manifest == [state : {"none", "truncated", "whole"}, records : SUBSET Images]

\* The dataset directory: absent, without its manifest, or whole.
NoDataset == [state |-> "none", digest |-> <<>>]
Partial   == [state |-> "partial", digest |-> <<>>]

NoPrep == [step |-> "idle", rows |-> {}, left |-> {}]

Steps == {"idle", "choose", "refresh", "fetch", "save", "retain", "report",
          "check csv", "write csv", "update report"}

NoRun == [step |-> "idle", selected |-> {}, skipped |-> {}, refreshed |-> {}, todo |-> {},
          source |-> {}, left |-> {}, got |-> {}, records |-> {},
          failed |-> {}]

\* The length of a list of records: two that share their path are both in it.
Count(records) == Cardinality(records) + Cardinality(records \cap Twins)

TypeOK ==
    /\ file \in [Images -> Digests \cup {NoFile}]
    /\ manifest \in [Sources -> Manifest]
    /\ csv \in SUBSET Images
    /\ report \in 0..Count(Images)
    /\ dataset.state \in {"none", "partial", "whole"}
    /\ \E built \in SUBSET Images : dataset.digest \in [built -> Digests]
    /\ run \in [step : Steps, selected : SUBSET Sources, skipped : SUBSET Sources,
                refreshed : SUBSET Sources, todo : SUBSET Sources,
                source : SUBSET Sources, left : SUBSET Images,
                got : SUBSET Images, records : SUBSET Images,
                failed : SUBSET Sources]
    /\ prep \in [step : {"idle", "validate", "copy"}, rows : SUBSET Images, left : SUBSET Images]
    /\ torn \in SUBSET Sources
    /\ stale \in BOOLEAN /\ mixed \in BOOLEAN
    /\ runs \in 0..MaxRuns /\ builds \in 0..MaxBuilds /\ interrupts \in 0..MaxInterrupts

\* An empty workspace.
Init ==
    /\ file = [i \in Images |-> NoFile]
    /\ manifest = [s \in Sources |-> NoManifest]
    /\ csv = {} /\ report = 0
    /\ dataset = NoDataset
    /\ run = NoRun /\ prep = NoPrep
    /\ torn = {} /\ stale = FALSE /\ mixed = FALSE
    /\ runs = 0 /\ builds = 0 /\ interrupts = 0

-----------------------------------------------------------------------------
(* Helpers.                                                                *)

At(step) == run.step = step

\* _load_complete_manifest: the records, or {} when there are none or one of
\* them misses a file.  A truncated manifest raises instead.
complete(s) ==
    LET records == manifest[s].records
    IN IF \A i \in records : file[i] # NoFile THEN records ELSE {}

Raises(s) == manifest[s] = Truncated

\* The rows that write_source_metadata keeps: of the images of one content
\* the first by split (test, train, valid), source and path.
Kept(records) ==
    {i \in records :
        ~ \E j \in records : file[j] = file[i] /\ Order[j] < Order[i]}

\* The run is over; nothing of it stays but the files.
End == run' = NoRun

\* The source being fetched raised: the next one gets its turn.
Failing(s) ==
    run' = [run EXCEPT !.step = "choose", !.failed = @ \cup {s},
                       !.source = {}, !.left = {}, !.got = {}]

-----------------------------------------------------------------------------
(* download_datasets                                                       *)

\* All sources or some of them (--source), some of those again (--refresh).
\* Of the others, the configuration may have disabled some.
BeginDownload(selected, refreshed, skipped) ==
    /\ At("idle")
    /\ runs < MaxRuns /\ runs' = runs + 1
    /\ run' = [NoRun EXCEPT !.step = "choose", !.selected = selected, !.skipped = skipped,
                            !.refreshed = refreshed, !.todo = selected]
    /\ mixed' = (mixed \/ prep.step = "copy")
    /\ UNCHANGED <<disk, prepVars, torn, stale, interrupts>>

Turn(s) == At("choose") /\ s \in run.todo

\* A complete manifest is reused.
Reuse(s) ==
    /\ Turn(s) /\ s \notin run.refreshed /\ complete(s) # {}
    /\ run' = [run EXCEPT !.todo = @ \ {s}, !.records = @ \cup complete(s)]
    /\ UNCHANGED <<disk, prepVars, torn, stale, mixed, counters>>

\* One that cannot be read fails its source.
Unreadable(s) ==
    /\ Turn(s) /\ s \notin run.refreshed /\ Raises(s)
    /\ run' = [run EXCEPT !.todo = @ \ {s}, !.failed = @ \cup {s}]
    /\ UNCHANGED <<disk, prepVars, torn, stale, mixed, counters>>

\* Anything else is fetched.
BeginSource(s) ==
    /\ Turn(s)
    /\ s \in run.refreshed \/ (~Raises(s) /\ complete(s) = {})
    /\ run' = [run EXCEPT !.todo = @ \ {s}, !.source = {s}, !.left = ImagesOf(s),
                          !.step = IF s \in run.refreshed THEN "refresh" ELSE "fetch"]
    /\ UNCHANGED <<disk, prepVars, torn, stale, mixed, counters>>

\* Mutant: the whole of raw/ is removed.
Refresh_AllOfRaw(s) ==
    /\ At("refresh") /\ run.source = {s}
    /\ file' = [i \in Images |-> NoFile]
    /\ manifest' = [manifest EXCEPT ![s] = NoManifest]
    /\ run' = [run EXCEPT !.step = "fetch"]
    /\ UNCHANGED <<csv, report, prepVars, torn, stale, mixed, counters>>

\* rmtree of the images, in some order and whatever it cannot remove, then
\* unlink of the manifest.
Refresh(s) ==
    /\ At("refresh") /\ run.source = {s}
    /\ \/ \E i \in ImagesOf(s) :
            /\ file[i] # NoFile
            /\ file' = [file EXCEPT ![i] = NoFile]
            /\ UNCHANGED <<manifest, run, torn>>
       \/ /\ manifest' = [manifest EXCEPT ![s] = NoManifest]
          /\ run' = [run EXCEPT !.step = "fetch"]
          /\ torn' = torn \ {s}
          /\ UNCHANGED file
    /\ UNCHANGED <<csv, report, prepVars, stale, mixed, counters>>

\* One image: fetched, kept as it is, or not usable (no boxes, not offered).
Fetch(i) ==
    /\ At("fetch") /\ i \in run.left
    /\ \/ /\ run' = [run EXCEPT !.left = @ \ {i}, !.got = @ \cup {i}]
          /\ IF Source[i] \in Resuming /\ file[i] # NoFile
             THEN UNCHANGED file
             ELSE \E d \in Digests : file' = [file EXCEPT ![i] = d]
       \/ /\ run' = [run EXCEPT !.left = @ \ {i}]
          /\ file' = IF Source[i] \in Resuming
                     THEN [file EXCEPT ![i] = NoFile] ELSE file
    /\ UNCHANGED <<manifest, csv, report, prepVars, torn, stale, mixed, counters>>

SourceFails(s) ==
    /\ At("refresh") \/ At("fetch")
    /\ run.source = {s}
    /\ Failing(s)
    /\ torn' = IF At("refresh") THEN torn \cup {s} ELSE torn
    /\ UNCHANGED <<disk, prepVars, stale, mixed, counters>>

\* _write_manifest: the file is opened, and so emptied, then written.
OpenManifest(s) ==
    /\ At("fetch") /\ run.source = {s} /\ run.left = {}
    /\ manifest' = [manifest EXCEPT ![s] = Truncated]
    /\ run' = [run EXCEPT !.step = "save"]
    /\ torn' = torn \ {s}
    /\ UNCHANGED <<file, csv, report, prepVars, stale, mixed, counters>>

write_manifest(s) ==
    /\ At("save") /\ run.source = {s}
    /\ manifest' = [manifest EXCEPT ![s] = Holding(run.got)]
    /\ run' = [run EXCEPT !.step = "choose", !.records = @ \cup run.got,
                          !.source = {}, !.got = {}]
    /\ UNCHANGED <<file, csv, report, prepVars, torn, stale, mixed, counters>>

\* The write fails: what is there of the file stays, and the run goes on.
ManifestFails(s) ==
    /\ At("save") /\ run.source = {s}
    /\ Failing(s)
    /\ UNCHANGED <<disk, prepVars, torn, stale, mixed, counters>>

\* Mutant: the sources that were not selected are left out.
Retain_SelectedOnly ==
    /\ At("choose") /\ run.todo = {}
    /\ run' = [run EXCEPT !.step = "report"]
    /\ UNCHANGED <<disk, prepVars, torn, stale, mixed, counters>>

\* The manifests of the enabled sources that were not selected; one that
\* cannot be read ends the run on the spot.
Retain ==
    /\ At("choose") /\ run.todo = {}
    /\ LET retained == Sources \ (run.selected \cup run.skipped)
       IN IF \E s \in retained : Raises(s)
          THEN End
          ELSE run' = [run EXCEPT !.step = "report",
                                  !.records = @ \cup UNION {complete(s) : s \in retained}]
    /\ UNCHANGED <<disk, prepVars, torn, stale, mixed, counters>>

\* Mutant: the report is updated, so that an older count of duplicates stays.
WriteReport_CountStays ==
    /\ At("report")
    /\ stale' = FALSE
    /\ IF run.failed \cap Required # {} \/ run.records = {}
       THEN End
       ELSE run' = [run EXCEPT !.step = "write csv"]
    /\ UNCHANGED <<file, manifest, csv, report, prepVars, torn, mixed, counters>>

WriteReport ==
    /\ At("report")
    /\ report' = 0
    /\ stale' = FALSE
    /\ IF run.failed \cap Required # {} \/ run.records = {}
       THEN End
       ELSE run' = [run EXCEPT !.step = "write csv"]
    /\ UNCHANGED <<file, manifest, csv, prepVars, torn, mixed, counters>>

\* The rows are written one after the other in place of the old ones.
OpenCsv ==
    /\ At("write csv")
    /\ \E n \in 0..Cardinality(Kept(run.records)) :
          csv' = {i \in Kept(run.records) :
                    Cardinality({j \in Kept(run.records) : Order[j] < Order[i]}) < n}
    /\ run' = [run EXCEPT !.step = "check csv"]
    /\ UNCHANGED <<file, manifest, report, prepVars, torn, stale, mixed, counters>>

write_source_metadata ==
    /\ At("check csv")
    /\ csv' = Kept(run.records)
    /\ run' = [run EXCEPT !.step = "update report"]
    /\ UNCHANGED <<file, manifest, report, prepVars, torn, stale, mixed, counters>>

\* Mutant: the difference is taken the wrong way round.
UpdateReport_Swapped ==
    /\ At("update report")
    /\ report' = Cardinality(csv) - Count(run.records)
    /\ End
    /\ UNCHANGED <<file, manifest, csv, prepVars, torn, stale, mixed, counters>>

UpdateReport ==
    /\ At("update report")
    /\ report' = Count(run.records) - Cardinality(csv)
    /\ End
    /\ UNCHANGED <<file, manifest, csv, prepVars, torn, stale, mixed, counters>>

\* Writing the CSV or the report fails, which ends the run; a report that is
\* no JSON counts no duplicates.
RunFails ==
    /\ run.step \in {"report", "write csv", "check csv", "update report"}
    /\ report' \in {report, 0}
    /\ End
    /\ stale' = TRUE
    /\ UNCHANGED <<file, manifest, csv, prepVars, torn, mixed, counters>>

-----------------------------------------------------------------------------
(* prepare_local_dataset_main                                              *)

PrepAt(step) == prep.step = step

Missing == (UNION {complete(s) : s \in Sources}) \ csv

\* validate_metadata_manifest_coverage returns.
CoverageAccepts ==
    /\ \A s \in Sources : ~Raises(s)
    /\ Count(Missing) <= report

\* Mutant: no image is compared with the others.
RecordsValid_NoDigests(records) ==
    /\ \A i \in records : file[i] \notin Broken \cup {NoFile}
    /\ \A i, j \in records : Group[i] = Group[j] => Split[i] = Split[j]
    /\ {Split[i] : i \in records} = Splits

\* validate_source_records finds no error.
RecordsValid(records) ==
    /\ \A i \in records : file[i] \notin Broken \cup {NoFile}
    /\ \A i, j \in records : file[i] = file[j] \/ Group[i] = Group[j] => Split[i] = Split[j]
    /\ {Split[i] : i \in records} = Splits

\* validate_metadata_manifest_coverage returns.
BeginPrepare ==
    /\ PrepAt("idle")
    /\ builds < MaxBuilds /\ builds' = builds + 1
    /\ csv # {} /\ CoverageAccepts
    /\ prep' = [NoPrep EXCEPT !.step = "validate"]
    /\ UNCHANGED <<disk, dataset, run, torn, stale, mixed, counters>>

\* build_dataset reads the CSV again and validates it; the last dataset makes
\* room for the next one.
BeginBuild ==
    /\ PrepAt("validate")
    /\ IF csv # {} /\ RecordsValid(csv)
       THEN /\ dataset' = Partial
            /\ prep' = [step |-> "copy", rows |-> csv, left |-> csv]
            /\ mixed' = ~At("idle")
       ELSE prep' = NoPrep /\ UNCHANGED <<dataset, mixed>>
    /\ UNCHANGED <<disk, run, torn, stale, builds, counters>>

\* The next row: its image is hashed and copied as it is now; one that is gone
\* ends the command.
CopyImage(i) ==
    /\ PrepAt("copy") /\ i \in prep.left
    /\ \A j \in prep.left : Order[i] <= Order[j]
    /\ IF file[i] = NoFile
       THEN prep' = NoPrep /\ UNCHANGED dataset
       ELSE /\ prep' = [prep EXCEPT !.left = @ \ {i}]
            /\ dataset' = [dataset EXCEPT !.digest =
                  [j \in DOMAIN @ \cup {i} |-> IF j = i THEN file[i] ELSE @[j]]]
    /\ UNCHANGED <<disk, run, torn, stale, mixed, builds, counters>>

\* The manifest of the dataset is written last.
FinishBuild ==
    /\ PrepAt("copy") /\ prep.left = {}
    /\ dataset' = [dataset EXCEPT !.state = "whole"]
    /\ prep' = NoPrep
    /\ UNCHANGED <<disk, run, torn, stale, mixed, builds, counters>>

\* Ctrl-C ends one of the two, a power cut both.
Interrupt ==
    /\ interrupts < MaxInterrupts /\ interrupts' = interrupts + 1
    /\ \/ ~At("idle") /\ End /\ prep' \in {prep, NoPrep}
       \/ UNCHANGED run /\ ~PrepAt("idle") /\ prep' = NoPrep
    /\ stale' = (stale \/ run' # run)
    /\ torn' = IF At("refresh") /\ run' # run THEN torn \cup run.source ELSE torn
    /\ UNCHANGED <<disk, dataset, mixed, runs, builds>>

download_datasets ==
    \/ \E selected \in (SUBSET Sources) \ {{}} :
         \E refreshed \in SUBSET selected, skipped \in SUBSET (Sources \ selected) :
            BeginDownload(selected, refreshed, skipped)
    \/ \E s \in Sources : \/ Reuse(s) \/ Unreadable(s) \/ BeginSource(s) \/ Refresh(s)
                          \/ SourceFails(s) \/ OpenManifest(s) \/ write_manifest(s)
                          \/ ManifestFails(s)
    \/ \E i \in Images : Fetch(i)
    \/ Retain \/ WriteReport \/ OpenCsv \/ write_source_metadata \/ UpdateReport \/ RunFails

prepare_local_dataset_main ==
    BeginPrepare \/ BeginBuild \/ (\E i \in Images : CopyImage(i)) \/ FinishBuild

Next == download_datasets \/ prepare_local_dataset_main \/ Interrupt

Spec == Init /\ [][Next]_vars

-----------------------------------------------------------------------------
(* Properties.                                                             *)

\* What is tested on was not trained on: a dataset with its manifest has no
\* capture group in two splits, even when a download ran while its images were
\* copied; and no content in two splits and none broken, unless one did.
NoLeakage ==
    dataset.state = "whole" =>
        /\ \A i, j \in DOMAIN dataset.digest : Group[i] = Group[j] => Split[i] = Split[j]
        /\ ~mixed => \A i, j \in DOMAIN dataset.digest :
             /\ dataset.digest[i] \notin Broken
             /\ dataset.digest[i] = dataset.digest[j] => Split[i] = Split[j]

\* The combined CSV that a successful run leaves represents every complete
\* manifest of an enabled source, selected or not, and each content once;
\* optional sources may have failed, but one that failed in this run, after an
\* earlier refresh of it was left half way, may be complete and not in it.
SuccessIsComplete ==
    At("update report") =>
        /\ \A s \in Sources \ (run.skipped \cup (run.failed \cap torn)) :
              \A i \in complete(s) : \E j \in csv : file[j] = file[i]
        /\ \A i, j \in csv : file[i] = file[j] => i = j

\* The coverage check accepts no CSV that omits a record of a complete
\* manifest, unless a run was cut off since the last report was written, or
\* the CSV has an image that two records share.
AcceptedIsComplete ==
    ~stale /\ csv \cap Twins = {} /\ At("idle") /\ csv # {} /\ CoverageAccepts =>
        \A s \in Sources : \A i \in complete(s) :
            \E j \in csv : file[j] = file[i]

\* Only fetching a source again changes what is complete of it: no run, failed
\* or cut off anywhere, loses what the other sources have downloaded.
FinishedWorkIsKept ==
    [][\A s \in Sources :
        complete(s) # {} /\ complete(s)' # complete(s) => run.source = {s}]_vars

\* The docstring of validate_metadata_manifest_coverage: "Reject metadata that
\* silently omits records from completed source manifests."
CoverageRejectsOmissions ==
    At("idle") /\ csv # {} /\ CoverageAccepts /\ RecordsValid(csv) =>
        \A s \in Sources : \A i \in complete(s) :
            \E j \in csv : file[j] = file[i]
=============================================================================
