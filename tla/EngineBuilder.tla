----------------------------- MODULE EngineBuilder -----------------------------
(***************************************************************************)
(* build_engine (edge-ai-detector-tensorrt-ros2/tools/build_engine.cpp)    *)
(* with Int8EntropyCalibrator (src/int8_calibrator.cpp), run again and     *)
(* again on one disk: a calibration reads the images of a directory in     *)
(* batches and leaves a table in a cache file, which a later build reads   *)
(* instead.  TensorRT, which calls the calibrator, is external.  A build   *)
(* may be killed at any point, and the directory may change between two.   *)
(*                                                                         *)
(* An image is <<generation of the directory, position>>; a table is the   *)
(* sequence of images it was computed from.                                *)
(***************************************************************************)
EXTENDS Naturals, Sequences, SequencesExt

CONSTANTS Directories,  \* contents of the directory: sequences that say which files can be read
          Batch,        \* --calib-batch
          MaxBuilds     \* bound: builds

ASSUME BatchAssumption == Batch \in Nat \ {0}
ASSUME DirectoriesAssumption == Directories \subseteq Seq(BOOLEAN)

VARIABLES build,     \* program counter of main()
          options,   \* int8, and whether --calib-dir is given
          dirs,      \* the contents of the directory so far, the present one last
          cursor_,   \* of the calibrator, which sees the present directory
          batches,   \* external: the batches TensorRT was given
          table,     \* external: the table this build quantises with, or NoTable
          cache,     \* the cache file: absent, or its contents
          torn,      \* history: the last write of the cache was cut short
          engine     \* the engine file

builderVars == <<build, options, dirs, cursor_, batches, table, cache, torn, engine>>

\* No generation of the directory has the number 0.
NoTable == << <<0, 0>> >>
Absent == << <<0, 1>> >>

Present == Last(dirs)

\* The images of generation g at the positions S, in the order of the sorted names.
Images(g, S) ==
  [k \in 1 .. Cardinality(S) |-> <<g, CHOOSE n \in S : Cardinality({m \in S : m <= n}) = k>>]

\* The images of generation g that can be read.
Readable(g) == Images(g, {n \in DOMAIN dirs[g] : dirs[g][n]})

BuilderInit ==
  /\ build = "idle"
  /\ options = [int8 |-> FALSE, calib_dir |-> FALSE]
  /\ \E d \in Directories : dirs = <<d>>
  /\ cursor_ = 1 /\ batches = <<>> /\ table = NoTable
  /\ cache = Absent /\ torn = FALSE /\ engine = "absent"

Stage(from, to) == build = from /\ build' = to

-------------------------------------------------------------------------------
(* main() up to the build *)

\* The model file is parsed, the options are set, and with --int8 and --calib-dir
\* a calibrator is made.  (When one of these fails, the program ends and the disk
\* is as it was.)
Configure ==
  /\ build = "idle" /\ Len(dirs) <= MaxBuilds
  /\ \E o \in [int8 : BOOLEAN, calib_dir : BOOLEAN] :
       /\ options' = o
       /\ build' = IF o.int8 /\ o.calib_dir THEN "read_cache" ELSE "serialize"
  /\ cursor_' = 1 /\ batches' = <<>> /\ table' = NoTable
  /\ UNCHANGED <<dirs, cache, torn, engine>>

-------------------------------------------------------------------------------
(* The calibrator, called by buildSerializedNetwork() *)

\* readCalibrationCache(): a file is returned as it is; an empty one has no data.
ReadCache ==
  /\ Stage("read_cache", IF cache \in {Absent, <<>>} THEN "calibrate" ELSE "serialize")
  /\ table' = IF cache \in {Absent, <<>>} THEN NoTable ELSE cache
  /\ UNCHANGED <<options, dirs, cursor_, batches, cache, torn, engine>>

\* load_next_batch(): from the cursor on, the files that can be read, up to Batch;
\* the cursor stops behind the last one that was looked at.  The variant looks at one
\* file more than it takes.
LastOfBatchLate ==
  LET full == {n \in cursor_ .. Len(Present) :
                 Cardinality({m \in cursor_ .. n - 1 : Present[m]}) = Batch}
  IN  IF full = {} THEN Len(Present) ELSE Min(full)
LastOfBatch ==
  LET full == {n \in cursor_ .. Len(Present) :
                 Cardinality({m \in cursor_ .. n : Present[m]}) = Batch}
  IN  IF full = {} THEN Len(Present) ELSE Min(full)

Loaded ==
  Images(Len(dirs), {n \in cursor_ .. Len(Present) :
                       Present[n] /\ Cardinality({m \in cursor_ .. n : Present[m]}) <= Batch})

\* getBatch(): true with a batch whose missing images are grey; a batch in which no
\* file could be read ends the calibration, like the end of the files.
GetBatch ==
  /\ build = "calibrate"
  /\ cursor_ <= Len(Present) /\ Loaded # <<>>
  /\ batches' = Append(batches, Loaded)
  /\ cursor_' = LastOfBatch + 1
  /\ UNCHANGED <<build, options, dirs, table, cache, torn, engine>>

\* getBatch() returns false: TensorRT computes the table, if it was given a batch.
BatchesEnd ==
  /\ build = "calibrate"
  /\ cursor_ > Len(Present) \/ Loaded = <<>>
  /\ build' = IF batches = <<>> THEN "serialize" ELSE "write_cache"
  /\ table' = IF batches = <<>> THEN NoTable ELSE FlattenSeq(batches)
  /\ UNCHANGED <<options, dirs, cursor_, batches, cache, torn, engine>>

\* writeCalibrationCache() truncates the file, or cannot open it and says nothing.
TruncateCache ==
  /\ \/ Stage("write_cache", "fill_cache") /\ cache' = <<>>
     \/ Stage("write_cache", "serialize") /\ UNCHANGED cache
  /\ UNCHANGED <<options, dirs, cursor_, batches, table, torn, engine>>

\* A write that ends early leaves a part of the table.
FillPart == \E k \in 0 .. Len(table) - 1 : cache' = SubSeq(table, 1, k) /\ torn' = TRUE

\* Nobody looks at the stream after the write: when the disk is full the build goes on
\* as if the whole table were there.
FillCache ==
  /\ Stage("fill_cache", "serialize")
  /\ (cache' = table /\ torn' = FALSE) \/ FillPart
  /\ UNCHANGED <<options, dirs, cursor_, batches, table, engine>>

-------------------------------------------------------------------------------
(* The end of a build; the user may change the directory before the next *)

NextBuild == \E d \in Directories \cup {Present} : dirs' = Append(dirs, d)

\* The engine file is written without a look at the stream's state.
Serialize ==
  /\ Stage("serialize", "idle")
  /\ engine' \in {"complete", "partial", engine}   \* written, disk full, failed or not opened
  /\ NextBuild
  /\ UNCHANGED <<options, cursor_, batches, table, cache, torn>>

\* The process is killed: in the middle of a write a part of the file is there.
Killed ==
  /\ build # "idle" /\ build' = "idle"
  /\ \/ build = "fill_cache" /\ FillPart
     \/ build # "fill_cache" /\ UNCHANGED <<cache, torn>>
  /\ engine' \in IF build = "serialize" THEN {engine, "partial"} ELSE {engine}
  /\ NextBuild
  /\ UNCHANGED <<options, cursor_, batches, table>>

BuilderNext ==
  \/ Configure \/ ReadCache \/ GetBatch \/ BatchesEnd \/ TruncateCache \/ FillCache
  \/ Serialize \/ Killed

BuilderSpec == BuilderInit /\ [][BuilderNext]_builderVars

-------------------------------------------------------------------------------
(* Properties *)

\* A build that calibrates quantises with a table of every readable image of one
\* generation of the directory, each once and in order, however the files fall into
\* batches and whatever happens to its cache; so does one that reads the cache, unless
\* the write of it was cut short.  Then it has the beginning of such a table, never a
\* mixture of two.  No batch but the last has grey slots, none has only those.  The
\* generation may be an old one: nothing ties the cache to the directory.
TableExact ==
  /\ table # NoTable => \E g \in DOMAIN dirs : IsPrefix(table, Readable(g))
  /\ table # NoTable /\ (batches # <<>> \/ ~torn) => \E g \in DOMAIN dirs : table = Readable(g)
  /\ \A b \in DOMAIN batches : /\ batches[b] # <<>>
                               /\ b < Len(batches) => Len(batches[b]) = Batch

\* What build_engine says of --int8 without --calib-dir: it relies on the existing cache.
ReliesOnCache ==
  build = "serialize" /\ options.int8 /\ ~options.calib_dir /\ cache \notin {Absent, <<>>}
    => table = cache
===============================================================================
