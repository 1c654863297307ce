---------------------------- MODULE SchemaCache -----------------------------
(***************************************************************************)
(* The three lazily compiled sets of JSON Schemas and the goroutines that  *)
(* use them first: loadUpdaterDesiredCanonicalSchema,                      *)
(* loadEncoderVideoCoverCanonicalSchemas and preparationSchema.  All three *)
(* read files of one embedded file system, whose contents are fixed when   *)
(* the program is built: a file may be no JSON, carry an "$id", or be no   *)
(* schema that compiles.  A compiler takes every resource name once.       *)
(***************************************************************************)
EXTENDS Sequences, SequencesExt

CONSTANTS
  Callers,        \* goroutines
  Catalog,        \* the schema the cover schemas refer to by a fixed name
  UpdaterFiles, CoverFiles, EmbeddedFiles, \* files in the order they are read
  UpdaterKinds, CoverKinds, PreparationKinds, \* schemas in the order they are compiled
  Builds,         \* the contents the file system may be built with
  NoId, Nobody

VARIABLES
  content,        \* for each file: is it JSON, its "$id", does it compile
  cache,          \* for each loader: its sync.Once, compiler, schemas and error
  calls           \* for each goroutine: its call, and the answer to its last one

vars == <<content, cache, calls>>

Loaders == {"updater", "cover", "preparation"}

\* The preparation loader reads everything that is embedded.
Files(loader) ==
  CASE loader = "updater"     -> UpdaterFiles
    [] loader = "cover"       -> CoverFiles
    [] loader = "preparation" -> EmbeddedFiles

Kinds(loader) ==
  CASE loader = "updater"     -> UpdaterKinds
    [] loader = "cover"       -> CoverKinds
    [] loader = "preparation" -> PreparationKinds

\* No loader reads or compiles anything twice, and none compiles nothing.
ASSUME LoadersAssumption ==
  \A l \in Loaders :
    /\ Files(l) \in Seq(ToSet(Files(l))) /\ IsInjective(Files(l))
    /\ Kinds(l) \in Seq(ToSet(Kinds(l))) /\ IsInjective(Kinds(l))
    /\ Kinds(l) # <<>>

ASSUME BuildsAssumption ==
  \A build \in Builds :
    /\ \A f \in DOMAIN build : build[f].compiles \in BOOLEAN
    /\ \A l \in Loaders : ToSet(Kinds(l)) \subseteq DOMAIN build

ASSUME NobodyAssumption == Nobody \notin Callers

Named(file) == <<"name", file>>
Canonical(file) == <<"id", file>>

CatalogName(file) == IF file = Catalog THEN <<Canonical(Catalog)>> ELSE <<>>

OwnId(file) == IF content[file].id = NoId THEN <<>> ELSE <<content[file].id>>

\* The names a loader adds a file under, one after the other.
Names(loader, file) ==
  CASE loader = "updater"     -> <<Named(file), Canonical(file)>>
    [] loader = "cover"       ->
         <<Named(file)>>
           \o (IF OwnId(file) = <<Named(file)>> THEN <<>> ELSE OwnId(file))
           \o CatalogName(file)
    [] loader = "preparation" -> <<Named(file)>> \o CatalogName(file) \o OwnId(file)

-----------------------------------------------------------------------------
Unloaded(loader) ==
  [by |-> Nobody, done |-> FALSE, step |-> 1, names |-> {}, failed |-> FALSE,
   compiled |-> [k \in ToSet(Kinds(loader)) |-> FALSE]]

IsIdle(c) == calls[c].place \in {"start", "answered"}

Init ==
  /\ content \in Builds
  /\ cache = [l \in Loaders |-> Unloaded(l)]
  /\ calls = [c \in Callers |-> [place |-> "start"]]

Call(c, loader, kind) ==
  /\ IsIdle(c)
  /\ calls' = [calls EXCEPT ![c] = [place |-> "once", loader |-> loader, kind |-> kind]]
  /\ UNCHANGED <<content, cache>>

\* sync.Once: the first caller runs the function, ...
Enter(c) ==
  /\ calls[c].place = "once"
  /\ LET l == calls[c].loader
     IN /\ cache[l].by = Nobody /\ ~cache[l].done
        /\ cache' = [cache EXCEPT ![l].by = c]
  /\ calls' = [calls EXCEPT ![c].place = "loading"]
  /\ UNCHANGED content

\* Mutant of MayPass: a caller does not wait for the one that loads.
MayPassLoading(loader) == cache[loader].by # Nobody \/ cache[loader].done

\* ... and every other one waits until it has returned.
MayPass(loader) == cache[loader].done

Pass(c) ==
  /\ calls[c].place = "once"
  /\ MayPass(calls[c].loader)
  /\ calls' = [calls EXCEPT ![c].place = "return"]
  /\ UNCHANGED <<content, cache>>

-----------------------------------------------------------------------------
(* The function: read and add every file, then compile; the first error    *)
(* ends it.                                                                *)

Reading(loader) == cache[loader].step <= Len(Files(loader))

\* What a loader does next: a file to read, or a schema to compile.
Item(loader) ==
  IF Reading(loader) THEN Files(loader)[cache[loader].step]
  ELSE Kinds(loader)[cache[loader].step - Len(Files(loader))]

IsLast(loader) ==
  cache[loader].step = Len(Files(loader)) + Len(Kinds(loader))

\* AddResource refuses a name it has.
AddsAll(loader, file) ==
  LET names == Names(loader, file)
  IN /\ content[file].json
     /\ IsInjective(names)
     /\ ToSet(names) \cap cache[loader].names = {}

Succeeds(loader) ==
  IF Reading(loader) THEN AddsAll(loader, Item(loader))
  ELSE content[Item(loader)].compiles

\* Mutant of Ends: a schema that does not compile does not end the function.
EndsLast(loader) == IsLast(loader) \/ (Reading(loader) /\ ~Succeeds(loader))

Ends(loader) == IsLast(loader) \/ ~Succeeds(loader)

Stepped(loader) ==
  LET file  == Item(loader)
      entry == cache[loader]
  IN [by       |-> entry.by,
      done     |-> entry.done,
      step     |-> entry.step + 1,
      names    |-> IF Reading(loader) THEN entry.names \cup ToSet(Names(loader, file))
                   ELSE entry.names,
      failed   |-> ~Succeeds(loader),
      compiled |-> IF Reading(loader) THEN entry.compiled
                   ELSE [entry.compiled EXCEPT ![file] = Succeeds(loader)]]

\* Mutant of Released: a function that failed leaves its sync.Once held.
ReleasedOnSuccess(loaded, ends) ==
  [loaded EXCEPT !.done = ends /\ ~loaded.failed]

\* The sync.Once is done when the function returns, with or without an error.
Released(loaded, ends) == [loaded EXCEPT !.done = ends]

Load(c) ==
  /\ calls[c].place = "loading"
  /\ LET l == calls[c].loader
     IN /\ cache' = [cache EXCEPT ![l] = Released(Stepped(l), Ends(l))]
        /\ calls' = [calls EXCEPT ![c].place = IF Ends(l) THEN "return" ELSE @]
  /\ UNCHANGED content

\* The schema and the error, read after the sync.Once.
Return(c) ==
  /\ calls[c].place = "return"
  /\ LET l == calls[c].loader
     IN calls' = [calls EXCEPT ![c] = [place |-> "answered", loader |-> l,
                    schema |-> cache[l].compiled[calls[c].kind], failed |-> cache[l].failed]]
  /\ UNCHANGED <<content, cache>>

Progress(c) == Enter(c) \/ Pass(c) \/ Load(c) \/ Return(c)

Next ==
  \E c \in Callers :
    \/ \E l \in Loaders : \E k \in ToSet(Kinds(l)) : Call(c, l, k)
    \/ Progress(c)

Spec == Init /\ [][Next]_vars

\* A goroutine that can run goes on running.
FairSpec == Spec /\ \A c \in Callers : WF_vars(Progress(c))

-----------------------------------------------------------------------------
(* Properties.                                                             *)

\* What is wrong with a build for a loader, whoever loads it and when.
Broken(loader) ==
  LET files == ToSet(Files(loader))
  IN \/ \E f \in files : ~content[f].json \/ ~IsInjective(Names(loader, f))
     \/ \E f, g \in files : /\ f # g
                            /\ ToSet(Names(loader, f)) \cap ToSet(Names(loader, g)) # {}
     \/ \E k \in ToSet(Kinds(loader)) : ~content[k].compiles

\* Whoever asks and whenever, in the middle of another's first use too, the
\* answer is the schema or an error, never neither and never half a cache, and
\* an error exactly if one of the loader's own files is at fault.
AnswersAreRight ==
  \A c \in Callers :
    calls[c].place = "answered" =>
      /\ calls[c].failed <=> Broken(calls[c].loader)
      /\ ~calls[c].failed => calls[c].schema

\* Every call returns, also one that waits for a first use that fails.
EveryCallReturns ==
  \A c \in Callers : calls[c].place = "once" ~> calls[c].place = "answered"

-----------------------------------------------------------------------------
(* Why the answers are right: the invariant the proof rests on.            *)

Waiting ==
  UNION {[place: {"once", "loading", "return"}, loader: {l}, kind: ToSet(Kinds(l))] :
           l \in Loaders}

Answered == [place: {"answered"}, loader: Loaders, schema: BOOLEAN, failed: BOOLEAN]

\* The types of the state.
TypeOK ==
  /\ content \in Builds
  /\ \A l \in Loaders : ToSet(Kinds(l)) \subseteq DOMAIN content
  /\ calls \in [Callers -> {[place |-> "start"]} \cup Waiting \cup Answered]
  /\ DOMAIN cache = Loaders
  /\ \A l \in Loaders :
       LET entry == cache[l]
       IN /\ entry = [by |-> entry.by, done |-> entry.done, step |-> entry.step,
                      names |-> entry.names, failed |-> entry.failed,
                      compiled |-> entry.compiled]
          /\ entry.by \in Callers \cup {Nobody}
          /\ entry.done \in BOOLEAN /\ entry.failed \in BOOLEAN
          /\ entry.step \in 1 .. Len(Files(l)) + Len(Kinds(l)) + 1
          /\ entry.compiled \in [ToSet(Kinds(l)) -> BOOLEAN]

\* A loader runs while one goroutine is in its function, and ends at its last
\* step or by its first error.
OneRuns ==
  \A l \in Loaders :
    LET entry == cache[l]
    IN /\ entry.done <=> entry.failed \/ entry.step > Len(Files(l)) + Len(Kinds(l))
       /\ entry.by = Nobody => entry.step = 1 /\ ~entry.done
       /\ \A c \in Callers :
            calls[c].place = "loading" /\ calls[c].loader = l => entry.by = c /\ ~entry.done

\* Whoever has passed the sync.Once finds it done, and has its result.
AfterOnce ==
  \A c \in Callers :
    /\ calls[c].place = "return" => cache[calls[c].loader].done
    /\ calls[c].place = "answered" =>
         LET entry == cache[calls[c].loader]
         IN /\ entry.done
            /\ calls[c].failed = entry.failed
            /\ \E k \in ToSet(Kinds(calls[c].loader)) : calls[c].schema = entry.compiled[k]

\* The files a loader has read, by their place in the order.
FilesRead(l) == {i \in DOMAIN Files(l) : i < cache[l].step}

KindsCompiled(l) == {i \in DOMAIN Kinds(l) : Len(Files(l)) + i < cache[l].step}

\* Up to its first error a loader has read sound files with names of their own
\* and compiled sound schemas; ...
Right(l) ==
  /\ cache[l].names = UNION {ToSet(Names(l, Files(l)[i])) : i \in FilesRead(l)}
  /\ \A i \in FilesRead(l) :
       content[Files(l)[i]].json /\ IsInjective(Names(l, Files(l)[i]))
  /\ \A i, j \in FilesRead(l) :
       i # j => ToSet(Names(l, Files(l)[i])) \cap ToSet(Names(l, Files(l)[j])) = {}
  /\ \A i \in KindsCompiled(l) :
       content[Kinds(l)[i]].compiles /\ cache[l].compiled[Kinds(l)[i]]

\* ... the error is one of the build.
SoFar == \A l \in Loaders : IF cache[l].failed THEN Broken(l) ELSE Right(l)

\* The invariant: one goroutine loads, and what it has so far is right.
Inductive == TypeOK /\ OneRuns /\ AfterOnce /\ SoFar
=============================================================================
