------------------------------ MODULE Metadata ------------------------------
(***************************************************************************)
(* The metadata of a photo: one row of common_file_metadata, and for each  *)
(* field the latest row of common_metadata_history with its source.        *)
(* Upload workers write what they extract, sources of higher priority over *)
(* lower ones, and nothing into a row the user has locked by an edit.      *)
(* Deleting a photo removes the row but keeps the history, from which a    *)
(* second upload of the same content replays the user's edits.  The        *)
(* backfill scripts write blank fields only.                               *)
(*                                                                         *)
(* Position and original date are in Places and CaptureDates.              *)
(***************************************************************************)
EXTENDS CaptureDates

CONSTANTS
    Field,      \* columns of common_file_metadata
    Patchable,  \* those of them a request may change: the geography
    Value,      \* their values
    NoValue,    \* NULL
    Says        \* what each source extracts from a photo

Source == {"SYSTEM", "EXIF", "GPS"}

ASSUME MetadataAssumption ==
    /\ Patchable \subseteq Field /\ NoValue \notin Value
    /\ Says \in [Source -> [Field -> Value \cup {NoValue}]]

VARIABLES
    meta,      \* rows of common_file_metadata
    latest,    \* the latest history row of each field
    tomb,      \* deleted photos, whose common_files rows are kept
    due,       \* stages of the pipeline that a registered upload has before it
    metawork,  \* workers inside a stage
    filler,    \* the backfill script between its read and its write
    said,      \* history: the user's last change of a field
    unsure     \* history: <<file, field>> where that change may be lost

metaVars == <<meta, latest, tomb, due, metawork, filler, said, unsure>>

Unsaid == "unsaid"
NoMeta == [id |-> 0, locked |-> FALSE, value |-> [a \in Field |-> NoValue]]
NoHistory == [src |-> "none", val |-> NoValue]
NoMetaWork == [stage |-> "none", file |-> None, srcs |-> {}, row |-> NoMeta,
               hist |-> [a \in Field |-> NoHistory]]
NoFiller == [file |-> None, src |-> "none", fields |-> {}]

----------------------------------------------------------------------------
(* MetadataPriority *)
Priority == [USER |-> 100, GPS |-> 80, EXIF |-> 60, SYSTEM |-> 50, none |-> 0]

(* _restore_latest_user_values: the user's last values, explicit nulls     *)
(* too, and with them the lock.                                            *)
Replayed(row, hist) ==
    LET users == {a \in Field : hist[a].src = "USER"}
    IN [row EXCEPT !.locked = @ \/ users # {},
                   !.value = [a \in Field |-> IF a \in users THEN hist[a].val ELSE @[a]]]

(* _is_update_blocked *)
IsUpdateBlocked(row, restore) == row.locked /\ ~restore

(* Mutant of Upsert: restoring, every missing value is rebuilt. *)
UpsertRebuilding(s, src, restore) ==
    LET row == IF restore THEN Replayed(s.row, s.hist) ELSE s.row
        writes == {a \in Field :
                     /\ Says[src][a] # NoValue /\ ~IsUpdateBlocked(row, restore)
                     /\ \/ restore /\ row.value[a] = NoValue
                        \/ Priority[src] > Priority[s.hist[a].src]
                     /\ row.value[a] # Says[src][a]}
    IN [s EXCEPT !.row = [row EXCEPT !.value = [a \in Field |-> IF a \in writes THEN Says[src][a] ELSE @[a]]],
                 !.hist = [a \in Field |-> IF a \in writes THEN [src |-> src, val |-> Says[src][a]] ELSE @[a]]]

(* upsert_fields of what a source extracts, on a row and its history.      *)
Upsert(s, src, restore) ==
    LET row == IF restore THEN Replayed(s.row, s.hist) ELSE s.row
        writes == {a \in Field :
                     /\ Says[src][a] # NoValue /\ ~IsUpdateBlocked(row, restore)
                     /\ ~(restore /\ s.hist[a].src = "USER")
                     /\ \/ restore /\ row.value[a] = NoValue
                        \/ Priority[src] > Priority[s.hist[a].src]
                     /\ row.value[a] # Says[src][a]}
    IN [s EXCEPT !.row = [row EXCEPT !.value = [a \in Field |-> IF a \in writes THEN Says[src][a] ELSE @[a]]],
                 !.hist = [a \in Field |-> IF a \in writes THEN [src |-> src, val |-> Says[src][a]] ELSE @[a]]]

(* The row a stage inserts locks its photo until the stage commits. *)
Held(f) == \E w \in Workers : metawork[w].stage # "none" /\ metawork[w].file = f /\ metawork[w].row = NoMeta

Restoring(f) ==
    "restored" \in due[f] \/ \E w \in Workers : metawork[w].stage = "restored" /\ metawork[w].file = f

----------------------------------------------------------------------------
(* Stages.  New content: MetadataPlugin and ExifPlugin share a             *)
(* transaction, GpsPlugin has its own.  Restored content, when it has a    *)
(* position: one transaction for all three.                                *)
StagesAfter == [new |-> {"gps"}, restored |-> {}, gps |-> {}]

SourcesOf(stage) ==
    CASE stage = "new" -> {{"SYSTEM", "EXIF"}}
      [] stage = "restored" -> {{"SYSTEM", "EXIF"}, Source}
      [] stage = "gps" -> {{"GPS"}}

StageRead(w, f, stage) ==
    /\ stage \in due[f] /\ metawork[w] = NoMetaWork /\ ~Held(f)
    /\ \E srcs \in SourcesOf(stage) :
         metawork' = [metawork EXCEPT ![w] = [stage |-> stage, file |-> f, srcs |-> srcs,
                                              row |-> meta[f], hist |-> latest[f]]]
    /\ due' = [due EXCEPT ![f] = @ \ {stage}]
    /\ UNCHANGED <<meta, latest, tomb, filler, said, unsure, changes>> /\ UNCHANGED dateVars

(* The sources of a stage in the order of the pipeline. *)
Extracted(k) ==
    LET upsert(s, src) == IF src \in k.srcs THEN Upsert(s, src, k.stage = "restored") ELSE s
    IN upsert(upsert(upsert(k, "SYSTEM"), "EXIF"), "GPS")

(* The changed columns and the new history rows.  The update of a row that *)
(* is gone fails.                                                          *)
StageCommit(w) ==
    LET k == metawork[w]
        f == k.file
        new == Extracted(k)
        written == {a \in Field : new.hist[a] # k.hist[a]}
        row == [id |-> IF k.row = NoMeta THEN changes + 1 ELSE k.row.id,
                locked |-> IF new.row.locked # k.row.locked THEN new.row.locked ELSE meta[f].locked,
                value |-> WriteColumns(meta[f].value, k.row.value, new.row.value)]
    IN /\ Count /\ k.stage # "none" /\ meta[f].id = k.row.id
       /\ meta' = [meta EXCEPT ![f] = row]
       /\ latest' = [latest EXCEPT ![f] = [a \in Field |-> IF a \in written THEN new.hist[a] ELSE @[a]]]
       /\ due' = [due EXCEPT ![f] = @ \cup StagesAfter[k.stage]]
       /\ metawork' = [metawork EXCEPT ![w] = NoMetaWork]
       /\ UNCHANGED <<tomb, filler, said, unsure>> /\ UNCHANGED dateVars

(* A worker that dies, or whose stage fails: the job's retry finds the     *)
(* content registered and does not come back to these stages.              *)
Forgone(f, stage) == IF stage = "restored" THEN unsure \cup ({f} \X Field) ELSE unsure

StageAbort(w) ==
    /\ metawork[w].stage # "none"
    /\ unsure' = Forgone(metawork[w].file, metawork[w].stage)
    /\ metawork' = [metawork EXCEPT ![w] = NoMetaWork]
    /\ UNCHANGED <<meta, latest, tomb, due, filler, said, changes>> /\ UNCHANGED dateVars

StageSkip(f, stage) ==
    /\ stage \in due[f]
    /\ unsure' = Forgone(f, stage)
    /\ due' = [due EXCEPT ![f] = @ \ {stage}]
    /\ UNCHANGED <<meta, latest, tomb, metawork, filler, said, changes>> /\ UNCHANGED dateVars

----------------------------------------------------------------------------
(* The fields of values in place of what a row has there. *)
Over(values, row) ==
    [a \in DOMAIN values \cup DOMAIN row |-> IF a \in DOMAIN values THEN values[a] ELSE row[a]]

(* patch_metadata: the fields of the request, nulls too, and the lock; a   *)
(* history row for each one that changes.  A stage that has read the row   *)
(* may still write what it has computed from it.                           *)
PatchFields(f, values) ==
    LET row == meta[f]
        changed == {a \in DOMAIN values : values[a] # row.value[a]}
        open == \E w \in Workers : metawork[w].stage # "none" /\ metawork[w].file = f
    IN /\ ~Held(f) /\ PatchMetadata(f)
       /\ meta' = [meta EXCEPT ![f] = [id |-> IF row = NoMeta THEN changes + 1 ELSE row.id, locked |-> TRUE,
                                       value |-> Over(values, row.value)]]
       /\ latest' = [latest EXCEPT ![f] = Over([a \in changed |-> [src |-> "USER", val |-> values[a]]], @)]
       /\ said' = [said EXCEPT ![f] = Over([a \in changed |-> values[a]], @)]
       /\ unsure' = IF open THEN unsure \cup ({f} \X changed) ELSE unsure \ ({f} \X changed)
       /\ UNCHANGED <<tomb, due, metawork, filler>>

----------------------------------------------------------------------------
(* backfill_exif_metadata and backfill_photo_metadata: what a source says  *)
(* of the fields that are blank; they are blank still when it is written.  *)
Blanks(f) == {a \in Field : meta[f].value[a] = NoValue}

(* _missing_exif_values, _select_blank_values *)
Missing(f, src) == {a \in Blanks(f) : Says[src][a] # NoValue}

Fill(f, src) ==
    /\ filler = NoFiller /\ Missing(f, src) # {}
    /\ filler' = [file |-> f, src |-> src, fields |-> Missing(f, src)]
    /\ UNCHANGED <<meta, latest, tomb, due, metawork, said, unsure, changes>> /\ UNCHANGED dateVars

ExifFillRead(f) == f \in live /\ Fill(f, "EXIF")

(* EXIF, and the geography of the position; each has its own commit. *)
PhotoFillRead(f) == f \in live /\ \E src \in {"EXIF", "GPS"} : Fill(f, src)

(* _apply_missing_values, which makes the row of a photo that has none. *)
FillWrite ==
    LET f == filler.file
        fills == filler.fields \cap Blanks(f)
        values == [a \in fills |-> Says[filler.src][a]]
    IN /\ Count /\ filler # NoFiller /\ fills # {} /\ ~Held(f)
       /\ meta' = [meta EXCEPT ![f].id = IF @ = 0 THEN changes + 1 ELSE @, ![f].value = Over(values, @)]
       /\ latest' = [latest EXCEPT ![f] = Over([a \in fills |-> [src |-> filler.src, val |-> values[a]]], @)]
       /\ unsure' = unsure \cup ({f} \X {a \in fills : said[f][a] # Unsaid})
       /\ filler' = NoFiller
       /\ UNCHANGED <<tomb, due, metawork, said>> /\ UNCHANGED dateVars

FillEnd ==
    /\ filler # NoFiller
    /\ filler' = NoFiller
    /\ UNCHANGED <<meta, latest, tomb, due, metawork, said, unsure, changes>> /\ UNCHANGED dateVars

----------------------------------------------------------------------------
(* HashPlugin finds the tombstone of deleted content. *)
MetaOfNew(f) ==
    /\ due' = [due EXCEPT ![f] = @ \cup {IF f \in tomb THEN "restored" ELSE "new"}]
    /\ tomb' = tomb \ {f}
    /\ UNCHANGED <<meta, latest, metawork, filler, said, unsure>>

(* cleanup: the row goes, the history stays. *)
MetaOfDeleted(f) ==
    /\ ~Held(f)
    /\ meta' = [meta EXCEPT ![f] = NoMeta]
    /\ tomb' = tomb \cup {f}
    /\ UNCHANGED <<latest, due, metawork, filler, said, unsure>>

MetaTypeOK ==
    /\ \A f \in File : meta[f].id \in Nat /\ meta[f].value \in [Field -> Value \cup {NoValue}]
    /\ \A f \in File, a \in Field : latest[f][a].src \in Source \cup {"USER", "none"}
    /\ tomb \subseteq File \ live /\ due \in [File -> SUBSET {"new", "restored", "gps"}]
    /\ unsure \subseteq File \X Field

(* The photos that are there at the start have no metadata yet: their      *)
(* stages were cut short.                                                  *)
MetaInit ==
    /\ meta = [f \in File |-> NoMeta]
    /\ latest = [f \in File |-> [a \in Field |-> NoHistory]]
    /\ tomb = {} /\ metawork = [w \in Workers |-> NoMetaWork] /\ filler = NoFiller
    /\ due = [f \in File |-> {}]
    /\ said = [f \in File |-> [a \in Field |-> Unsaid]] /\ unsure = {}

MetaNext ==
    \/ \E w \in Workers : StageCommit(w) \/ StageAbort(w)
    \/ \E f \in File, stage \in {"new", "restored", "gps"} :
          StageSkip(f, stage) \/ \E w \in Workers : StageRead(w, f, stage)
    \/ \E f \in live, A \in SUBSET Patchable \ {{}} : \E values \in [A -> Value \cup {NoValue}] :
          PatchFields(f, values)
    \/ \E f \in File : ExifFillRead(f) \/ PhotoFillRead(f)
    \/ FillWrite \/ FillEnd

----------------------------------------------------------------------------
(* What the user last made of a field stands, a cleared field included:    *)
(* no later stage of an upload changes it, deleting and uploading the      *)
(* photo again brings it back, and the history keeps it in between.        *)
(* Excepted are an edit that a stage already under way did not see, a      *)
(* restoration that was cut short, and a blank that a backfill filled.     *)
UserValueStands ==
    \A f \in File, a \in Patchable :
       said[f][a] # Unsaid /\ <<f, a>> \notin unsure =>
          /\ latest[f][a] = [src |-> "USER", val |-> said[f][a]]
          /\ f \in live /\ ~Restoring(f) => meta[f].value[a] = said[f][a]

=============================================================================
