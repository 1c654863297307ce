------------------------- MODULE SchemaCacheProofs --------------------------
(***************************************************************************)
(* Whoever asks a schema loader, and whenever, gets the right answer, for  *)
(* any goroutines, files, schemas and builds.                              *)
(***************************************************************************)
EXTENDS SchemaCache, SequenceTheorems, TLAPS

\* The orders of a loader are sequences without repetition.
LEMMA LoaderShape ==
  ASSUME NEW l \in Loaders
  PROVE  /\ Len(Files(l)) \in Nat /\ DOMAIN Files(l) = 1 .. Len(Files(l))
         /\ Len(Kinds(l)) \in Nat \ {0} /\ DOMAIN Kinds(l) = 1 .. Len(Kinds(l))
         /\ \A i, j \in DOMAIN Files(l) : Files(l)[i] = Files(l)[j] => i = j
         /\ \A i, j \in DOMAIN Kinds(l) : Kinds(l)[i] = Kinds(l)[j] => i = j
         /\ \A i \in DOMAIN Files(l) : Files(l)[i] \in ToSet(Files(l))
         /\ \A i \in DOMAIN Kinds(l) : Kinds(l)[i] \in ToSet(Kinds(l))
<1>1. /\ Files(l) \in Seq(ToSet(Files(l))) /\ IsInjective(Files(l))
      /\ Kinds(l) \in Seq(ToSet(Kinds(l))) /\ IsInjective(Kinds(l)) /\ Kinds(l) # <<>>
  BY LoadersAssumption
<1>2. /\ Len(Files(l)) \in Nat /\ DOMAIN Files(l) = 1 .. Len(Files(l))
      /\ Len(Kinds(l)) \in Nat /\ DOMAIN Kinds(l) = 1 .. Len(Kinds(l))
  BY <1>1
<1>3. Len(Kinds(l)) # 0
  BY <1>1, EmptySeq
<1> QED
  BY <1>1, <1>2, <1>3 DEF IsInjective, ToSet

\* A goroutine is in a call of a loader, for one of its schemas.
LEMMA CallShape ==
  ASSUME TypeOK, NEW c \in Callers, calls[c].place \in {"once", "loading", "return"}
  PROVE  /\ calls[c].loader \in Loaders
         /\ calls[c].kind \in ToSet(Kinds(calls[c].loader))
         /\ calls[c] = [place |-> calls[c].place, loader |-> calls[c].loader,
                        kind |-> calls[c].kind]
<1>1. calls[c] \in {[place |-> "start"]} \cup Waiting \cup Answered
  BY DEF TypeOK
<1>2. calls[c] \notin Answered /\ calls[c] # [place |-> "start"]
  BY DEF Answered
<1>3. PICK l \in Loaders :
        calls[c] \in [place: {"once", "loading", "return"}, loader: {l}, kind: ToSet(Kinds(l))]
  BY <1>1, <1>2 DEF Waiting
<1> QED
  BY <1>3

\* A call of a loader for one of its schemas is a call.
LEMMA CallMade ==
  ASSUME NEW l \in Loaders, NEW k \in ToSet(Kinds(l)),
         NEW place \in {"once", "loading", "return"}
  PROVE  [place |-> place, loader |-> l, kind |-> k] \in Waiting
BY DEF Waiting

\* A goroutine that has an answer has it from a loader.
LEMMA AnswerShape ==
  ASSUME TypeOK, NEW c \in Callers, calls[c].place = "answered"
  PROVE  calls[c].loader \in Loaders
<1>1. calls[c] \in {[place |-> "start"]} \cup Waiting \cup Answered
  BY DEF TypeOK
<1>2. calls[c] \notin Waiting /\ calls[c] # [place |-> "start"]
  BY DEF Waiting
<1> QED
  BY <1>1, <1>2 DEF Answered

-----------------------------------------------------------------------------
(* What a step of the function does.                                       *)

\* The loader that a goroutine is in the function of: it has not ended.
LEMMA LoadingShape ==
  ASSUME TypeOK, OneRuns, NEW c \in Callers, calls[c].place = "loading"
  PROVE  LET l == calls[c].loader
             entry == cache[l]
         IN /\ l \in Loaders
            /\ entry.by = c /\ ~entry.done /\ ~entry.failed
            /\ entry.step \in 1 .. Len(Files(l)) + Len(Kinds(l))
            /\ entry = [by |-> c, done |-> FALSE, step |-> entry.step,
                        names |-> entry.names, failed |-> FALSE,
                        compiled |-> entry.compiled]
            /\ entry.compiled \in [ToSet(Kinds(l)) -> BOOLEAN]
<1> DEFINE l == calls[c].loader
<1> DEFINE entry == cache[l]
<1>1. l \in Loaders
  BY CallShape
<1>2. entry.by = c /\ ~entry.done
  BY <1>1 DEF OneRuns
<1>3. ~entry.failed /\ ~(entry.step > Len(Files(l)) + Len(Kinds(l)))
  BY <1>1, <1>2 DEF OneRuns
<1>4. /\ entry = [by |-> entry.by, done |-> entry.done, step |-> entry.step,
                  names |-> entry.names, failed |-> entry.failed,
                  compiled |-> entry.compiled]
      /\ entry.done \in BOOLEAN /\ entry.failed \in BOOLEAN
      /\ entry.step \in 1 .. Len(Files(l)) + Len(Kinds(l)) + 1
      /\ entry.compiled \in [ToSet(Kinds(l)) -> BOOLEAN]
  BY <1>1 DEF TypeOK
<1>5. Len(Files(l)) \in Nat /\ Len(Kinds(l)) \in Nat
  BY <1>1, LoaderShape
<1>6. entry.step \in 1 .. Len(Files(l)) + Len(Kinds(l))
  BY <1>3, <1>4, <1>5
<1>7. entry.done = FALSE /\ entry.failed = FALSE
  BY <1>2, <1>3, <1>4
<1> HIDE DEF entry, l
<1>8. entry = [by |-> c, done |-> FALSE, step |-> entry.step, names |-> entry.names,
               failed |-> FALSE, compiled |-> entry.compiled]
  BY <1>2, <1>4, <1>7
<1> QED
  BY <1>1, <1>2, <1>3, <1>4, <1>6, <1>8 DEF entry, l

\* The next item is the file to read or the schema to compile.
LEMMA ItemShape ==
  ASSUME NEW l \in Loaders, cache[l].step \in 1 .. Len(Files(l)) + Len(Kinds(l))
  PROVE  /\ Reading(l) => /\ cache[l].step \in DOMAIN Files(l)
                          /\ Item(l) = Files(l)[cache[l].step]
         /\ ~Reading(l) => /\ cache[l].step - Len(Files(l)) \in DOMAIN Kinds(l)
                           /\ Item(l) = Kinds(l)[cache[l].step - Len(Files(l))]
                           /\ Item(l) \in ToSet(Kinds(l))
<1>1. /\ Len(Files(l)) \in Nat /\ DOMAIN Files(l) = 1 .. Len(Files(l))
      /\ Len(Kinds(l)) \in Nat /\ DOMAIN Kinds(l) = 1 .. Len(Kinds(l))
      /\ \A i \in DOMAIN Kinds(l) : Kinds(l)[i] \in ToSet(Kinds(l))
  BY LoaderShape
<1>2. Reading(l) => cache[l].step \in DOMAIN Files(l)
  BY <1>1 DEF Reading
<1>3. ~Reading(l) => cache[l].step - Len(Files(l)) \in DOMAIN Kinds(l)
  BY <1>1 DEF Reading
<1> QED
  BY <1>1, <1>2, <1>3 DEF Item

\* Only "done" is set when a step of the function is over.
LEMMA ReleasedShape ==
  ASSUME NEW b, NEW d, NEW s, NEW n, NEW f, NEW k, NEW e
  PROVE  Released([by |-> b, done |-> d, step |-> s, names |-> n, failed |-> f,
                   compiled |-> k], e)
           = [by |-> b, done |-> e, step |-> s, names |-> n, failed |-> f, compiled |-> k]
BY DEF Released

\* The record of the loader after a step of its function.
LEMMA LoadShape ==
  ASSUME TypeOK, OneRuns, NEW c \in Callers, Load(c)
  PROVE  LET l == calls[c].loader
             names == IF Reading(l)
                        THEN cache[l].names \cup ToSet(Names(l, Item(l)))
                        ELSE cache[l].names
             compiled == IF Reading(l) THEN cache[l].compiled
                         ELSE [cache[l].compiled EXCEPT ![Item(l)] = Succeeds(l)]
         IN /\ cache' = [cache EXCEPT ![l] =
                           [by |-> c, done |-> Ends(l), step |-> cache[l].step + 1,
                            names |-> names, failed |-> ~Succeeds(l), compiled |-> compiled]]
            /\ calls' = [calls EXCEPT ![c] =
                           [place |-> IF Ends(l) THEN "return" ELSE "loading",
                            loader |-> l, kind |-> calls[c].kind]]
            /\ content' = content
<1> DEFINE l == calls[c].loader
<1> DEFINE entry == cache[l]
<1> DEFINE kept == [by |-> c, done |-> FALSE, step |-> entry.step, names |-> entry.names,
                    failed |-> FALSE, compiled |-> entry.compiled]
<1>1. calls[c].place = "loading"
  BY DEF Load
<1>2. entry = kept
  BY <1>1, LoadingShape
<1>3. calls[c] = [place |-> "loading", loader |-> l, kind |-> calls[c].kind]
  BY <1>1, CallShape
<1>4. Released(Stepped(l), Ends(l)) =
        [by |-> c, done |-> Ends(l), step |-> entry.step + 1,
         names |-> IF Reading(l) THEN entry.names \cup ToSet(Names(l, Item(l)))
                   ELSE entry.names,
         failed |-> ~Succeeds(l),
         compiled |-> IF Reading(l) THEN entry.compiled
                      ELSE [entry.compiled EXCEPT ![Item(l)] = Succeeds(l)]]
  <2> DEFINE stepped(n, f, k) == [by |-> c, done |-> FALSE, step |-> entry.step + 1,
                                  names |-> n, failed |-> f, compiled |-> k]
  <2> DEFINE released(d, n, f, k) == [by |-> c, done |-> d, step |-> entry.step + 1,
                                      names |-> n, failed |-> f, compiled |-> k]
  <2> DEFINE names2 == IF Reading(l) THEN entry.names \cup ToSet(Names(l, Item(l)))
                       ELSE entry.names
  <2> DEFINE compiled2 == IF Reading(l) THEN entry.compiled
                          ELSE [entry.compiled EXCEPT ![Item(l)] = Succeeds(l)]
  <2>1. entry.by = c /\ entry.done = FALSE
    BY <1>2
  <2>2. Stepped(l) = stepped(names2, ~Succeeds(l), compiled2)
    BY <2>1 DEF Stepped
  <2>3. Released(Stepped(l), Ends(l)) = Released(stepped(names2, ~Succeeds(l), compiled2), Ends(l))
    BY <2>2
  <2>4. Released(stepped(names2, ~Succeeds(l), compiled2), Ends(l))
          = released(Ends(l), names2, ~Succeeds(l), compiled2)
    <3>1. \A n, f, k, e : Released(stepped(n, f, k), e) = released(e, n, f, k)
      BY ReleasedShape
    <3> HIDE DEF names2, compiled2, stepped, released
    <3> QED
      BY <3>1, Zenon
  <2> QED
    BY <2>3, <2>4
<1>5. [calls[c] EXCEPT !.place = IF Ends(l) THEN "return" ELSE calls[c].place] =
        [place |-> IF Ends(l) THEN "return" ELSE "loading", loader |-> l, kind |-> calls[c].kind]
  BY <1>1, <1>3
<1>6. /\ cache' = [cache EXCEPT ![l] = Released(Stepped(l), Ends(l))]
      /\ calls' = [calls EXCEPT ![c] =
                     [calls[c] EXCEPT !.place = IF Ends(l) THEN "return" ELSE calls[c].place]]
      /\ content' = content
  BY DEF Load
<1> QED
  BY <1>4, <1>5, <1>6

-----------------------------------------------------------------------------
(* Every step preserves the types.                                         *)

\* What one goroutine does leaves the calls well formed, if its own call is.
LEMMA CallsTyped ==
  ASSUME TypeOK, NEW c \in Callers,
         NEW x \in {[place |-> "start"]} \cup Waiting \cup Answered,
         calls' = [calls EXCEPT ![c] = x]
  PROVE  /\ calls' \in [Callers -> {[place |-> "start"]} \cup Waiting \cup Answered]
         /\ calls'[c] = x
         /\ \A d \in Callers \ {c} : calls'[d] = calls[d]
<1>1. calls \in [Callers -> {[place |-> "start"]} \cup Waiting \cup Answered]
  BY DEF TypeOK
<1> DEFINE Shapes == {[place |-> "start"]} \cup Waiting \cup Answered
<1> HIDE DEF Shapes
<1>2. calls \in [Callers -> Shapes] /\ x \in Shapes
  BY <1>1 DEF Shapes
<1>3. calls' \in [Callers -> Shapes] /\ calls'[c] = x
      /\ \A d \in Callers \ {c} : calls'[d] = calls[d]
  BY <1>2
<1> QED
  BY <1>3 DEF Shapes

\* While the caches do not change, their types do not.
LEMMA CacheTyped ==
  ASSUME TypeOK, content' = content, cache' = cache,
         calls' \in [Callers -> {[place |-> "start"]} \cup Waiting \cup Answered]
  PROVE  TypeOK'
BY DEF TypeOK, Waiting, Answered, Loaders, Files, Kinds, ToSet

\* The call that a goroutine makes.
LEMMA CallStep ==
  ASSUME TypeOK, NEW c \in Callers, NEW l \in Loaders, NEW k \in ToSet(Kinds(l)),
         Call(c, l, k)
  PROVE  /\ TypeOK' /\ cache' = cache /\ content' = content
         /\ calls'[c].place = "once"
         /\ \A d \in Callers \ {c} : calls'[d] = calls[d]
<1> DEFINE x == [place |-> "once", loader |-> l, kind |-> k]
<1>1. x \in Waiting
  BY CallMade
<1>2. calls' = [calls EXCEPT ![c] = x] /\ content' = content /\ cache' = cache
  BY DEF Call
<1>3. x.place = "once"
  OBVIOUS
<1> HIDE DEF x
<1>4. /\ calls' \in [Callers -> {[place |-> "start"]} \cup Waiting \cup Answered]
      /\ calls'[c] = x /\ \A d \in Callers \ {c} : calls'[d] = calls[d]
  BY <1>1, <1>2, CallsTyped
<1> QED
  BY <1>2, <1>3, <1>4, CacheTyped

\* A goroutine that is in a call and goes to another place in it.
LEMMA Moved ==
  ASSUME TypeOK, NEW c \in Callers, calls[c].place \in {"once", "loading", "return"},
         NEW place \in {"once", "loading", "return"},
         calls' = [calls EXCEPT ![c] = [place |-> place, loader |-> calls[c].loader,
                                        kind |-> calls[c].kind]]
  PROVE  /\ calls' \in [Callers -> {[place |-> "start"]} \cup Waiting \cup Answered]
         /\ calls'[c].place = place /\ calls'[c].loader = calls[c].loader
         /\ \A d \in Callers \ {c} : calls'[d] = calls[d]
<1> DEFINE x == [place |-> place, loader |-> calls[c].loader, kind |-> calls[c].kind]
<1>1. x \in Waiting
  BY CallShape, CallMade
<1>2. x.place = place /\ x.loader = calls[c].loader
  OBVIOUS
<1>3. calls' = [calls EXCEPT ![c] = x]
  OBVIOUS
<1> HIDE DEF x
<1> QED
  BY <1>1, <1>2, <1>3, CallsTyped

\* A goroutine that passes the sync.Once.
LEMMA PassStep ==
  ASSUME TypeOK, NEW c \in Callers, Pass(c)
  PROVE  /\ TypeOK' /\ cache' = cache /\ content' = content
         /\ calls[c].loader \in Loaders /\ cache[calls[c].loader].done
         /\ calls'[c].place = "return" /\ calls'[c].loader = calls[c].loader
         /\ \A d \in Callers \ {c} : calls'[d] = calls[d]
<1>1. calls[c].place = "once" /\ cache[calls[c].loader].done
  BY DEF Pass, MayPass
<1>2. calls[c] = [place |-> "once", loader |-> calls[c].loader, kind |-> calls[c].kind]
  BY <1>1, CallShape
<1>3. [calls[c] EXCEPT !.place = "return"]
        = [place |-> "return", loader |-> calls[c].loader, kind |-> calls[c].kind]
  BY <1>2
<1>4. calls' = [calls EXCEPT ![c] = [calls[c] EXCEPT !.place = "return"]]
      /\ content' = content /\ cache' = cache
  BY DEF Pass
<1>5. calls' = [calls EXCEPT ![c] = [place |-> "return", loader |-> calls[c].loader,
                                     kind |-> calls[c].kind]]
  BY <1>3, <1>4
<1>6. /\ calls' \in [Callers -> {[place |-> "start"]} \cup Waiting \cup Answered]
      /\ calls'[c].place = "return" /\ calls'[c].loader = calls[c].loader
      /\ \A d \in Callers \ {c} : calls'[d] = calls[d]
  BY <1>1, <1>5, Moved
<1> QED
  BY <1>1, <1>4, <1>6, CacheTyped, CallShape

\* A goroutine that reads the result.
LEMMA ReturnStep ==
  ASSUME TypeOK, NEW c \in Callers, Return(c)
  PROVE  /\ TypeOK' /\ cache' = cache /\ content' = content
         /\ calls[c].place = "return" /\ calls[c].loader \in Loaders
         /\ calls[c].kind \in ToSet(Kinds(calls[c].loader))
         /\ calls'[c].place = "answered" /\ calls'[c].loader = calls[c].loader
         /\ calls'[c].schema = cache[calls[c].loader].compiled[calls[c].kind]
         /\ calls'[c].failed = cache[calls[c].loader].failed
         /\ \A d \in Callers \ {c} : calls'[d] = calls[d]
<1> DEFINE l == calls[c].loader
<1> DEFINE schema == cache[l].compiled[calls[c].kind]
<1> DEFINE failed == cache[l].failed
<1> DEFINE x == [place |-> "answered", loader |-> l, schema |-> schema, failed |-> failed]
<1>1. calls[c].place = "return"
  BY DEF Return
<1>2. l \in Loaders /\ calls[c].kind \in ToSet(Kinds(l))
  BY <1>1, CallShape
<1>3. cache[l].compiled \in [ToSet(Kinds(l)) -> BOOLEAN] /\ failed \in BOOLEAN
  BY <1>2 DEF TypeOK
<1>4. schema \in BOOLEAN
  BY <1>2, <1>3
<1>5. calls' = [calls EXCEPT ![c] = x] /\ content' = content /\ cache' = cache
  BY DEF Return
<1> HIDE DEF l, schema, failed
<1>6. x \in Answered
  BY <1>2, <1>3, <1>4 DEF Answered
<1>7. x.place = "answered" /\ x.loader = l /\ x.schema = schema /\ x.failed = failed
  OBVIOUS
<1> HIDE DEF x
<1>8. /\ calls' \in [Callers -> {[place |-> "start"]} \cup Waiting \cup Answered]
      /\ calls'[c] = x /\ \A d \in Callers \ {c} : calls'[d] = calls[d]
  BY <1>5, <1>6, CallsTyped
<1>9. TypeOK'
  BY <1>5, <1>8, CacheTyped
<1> QED
  BY <1>1, <1>2, <1>5, <1>7, <1>8, <1>9 DEF l, schema, failed

\* A goroutine that starts the function of the loader.
LEMMA EnterStep ==
  ASSUME TypeOK, NEW c \in Callers, Enter(c)
  PROVE  /\ TypeOK' /\ content' = content
         /\ calls[c].loader \in Loaders
         /\ cache[calls[c].loader].by = Nobody /\ ~cache[calls[c].loader].done
         /\ cache'[calls[c].loader].by = c
         /\ \A l \in Loaders :
              /\ l # calls[c].loader => cache'[l] = cache[l]
              /\ cache'[l].done = cache[l].done /\ cache'[l].step = cache[l].step
              /\ cache'[l].names = cache[l].names /\ cache'[l].failed = cache[l].failed
              /\ cache'[l].compiled = cache[l].compiled
         /\ calls'[c].place = "loading" /\ calls'[c].loader = calls[c].loader
         /\ \A d \in Callers \ {c} : calls'[d] = calls[d]
<1> DEFINE l == calls[c].loader
<1> DEFINE entry == cache[l]
<1> DEFINE entry2 == [by |-> c, done |-> entry.done, step |-> entry.step,
                      names |-> entry.names, failed |-> entry.failed,
                      compiled |-> entry.compiled]
<1>1. calls[c].place = "once" /\ entry.by = Nobody /\ ~entry.done
  BY DEF Enter
<1>2. l \in Loaders /\ calls[c] = [place |-> "once", loader |-> l, kind |-> calls[c].kind]
  BY <1>1, CallShape
<1>3. entry = [by |-> entry.by, done |-> entry.done, step |-> entry.step,
               names |-> entry.names, failed |-> entry.failed, compiled |-> entry.compiled]
  BY <1>2 DEF TypeOK
<1>4. [entry EXCEPT !.by = c] = entry2
  <2> HIDE DEF entry
  <2> QED
    BY <1>3
<1>5. /\ cache' = [cache EXCEPT ![l] = [entry EXCEPT !.by = c]]
      /\ calls' = [calls EXCEPT ![c] = [calls[c] EXCEPT !.place = "loading"]]
      /\ content' = content
  BY DEF Enter
<1>6. [calls[c] EXCEPT !.place = "loading"]
        = [place |-> "loading", loader |-> l, kind |-> calls[c].kind]
  BY <1>2
<1>7. calls' = [calls EXCEPT ![c] = [place |-> "loading", loader |-> calls[c].loader,
                                     kind |-> calls[c].kind]]
  BY <1>5, <1>6
<1>8. /\ calls' \in [Callers -> {[place |-> "start"]} \cup Waiting \cup Answered]
      /\ calls'[c].place = "loading" /\ calls'[c].loader = calls[c].loader
      /\ \A d \in Callers \ {c} : calls'[d] = calls[d]
  BY <1>1, <1>7, Moved
<1>9. DOMAIN cache = Loaders
  BY DEF TypeOK
<1> HIDE DEF l, entry
<1>10. /\ entry2.by = c /\ entry2.done = entry.done /\ entry2.step = entry.step
       /\ entry2.names = entry.names /\ entry2.failed = entry.failed
       /\ entry2.compiled = entry.compiled
       /\ entry2 = [by |-> entry2.by, done |-> entry2.done, step |-> entry2.step,
                    names |-> entry2.names, failed |-> entry2.failed,
                    compiled |-> entry2.compiled]
  OBVIOUS
<1>11. cache' = [cache EXCEPT ![l] = entry2]
  BY <1>4, <1>5
<1> HIDE DEF entry2
<1>12. cache'[l] = entry2 /\ DOMAIN cache' = Loaders
       /\ \A m \in Loaders \ {l} : cache'[m] = cache[m]
  BY <1>2, <1>9, <1>11
<1>13. TypeOK'
  <2>1. content' \in Builds /\ \A m \in Loaders : ToSet(Kinds(m))' \subseteq DOMAIN content'
    BY <1>5 DEF TypeOK, Kinds, ToSet, Loaders
  <2>2. ASSUME NEW m \in Loaders
        PROVE  /\ cache'[m] = [by |-> cache'[m].by, done |-> cache'[m].done,
                    step |-> cache'[m].step, names |-> cache'[m].names,
                    failed |-> cache'[m].failed, compiled |-> cache'[m].compiled]
               /\ cache'[m].by \in Callers \cup {Nobody}
               /\ cache'[m].done \in BOOLEAN /\ cache'[m].failed \in BOOLEAN
               /\ cache'[m].step \in 1 .. Len(Files(m)) + Len(Kinds(m)) + 1
               /\ cache'[m].compiled \in [ToSet(Kinds(m)) -> BOOLEAN]
    <3>1. /\ cache[m] = [by |-> cache[m].by, done |-> cache[m].done,
               step |-> cache[m].step, names |-> cache[m].names,
               failed |-> cache[m].failed, compiled |-> cache[m].compiled]
          /\ cache[m].by \in Callers \cup {Nobody}
          /\ cache[m].done \in BOOLEAN /\ cache[m].failed \in BOOLEAN
          /\ cache[m].step \in 1 .. Len(Files(m)) + Len(Kinds(m)) + 1
          /\ cache[m].compiled \in [ToSet(Kinds(m)) -> BOOLEAN]
      BY DEF TypeOK
    <3>2. CASE m # l
      BY <1>12, <3>1, <3>2
    <3>3. CASE m = l
      BY <1>10, <1>12, <3>1, <3>3 DEF entry
    <3> QED
      BY <3>2, <3>3
  <2> QED
    BY <1>8, <1>12, <2>1, <2>2 DEF TypeOK
<1> QED
  BY <1>1, <1>2, <1>5, <1>8, <1>10, <1>12, <1>13 DEF l, entry

\* A goroutine that takes a step of the function.
LEMMA LoadStep ==
  ASSUME TypeOK, OneRuns, NEW c \in Callers, Load(c)
  PROVE  LET l == calls[c].loader
         IN /\ TypeOK' /\ content' = content
            /\ l \in Loaders
            /\ cache[l].by = c /\ ~cache[l].done /\ ~cache[l].failed
            /\ cache[l].step \in 1 .. Len(Files(l)) + Len(Kinds(l))
            /\ cache'[l].by = c
            /\ cache'[l].done = Ends(l)
            /\ cache'[l].step = cache[l].step + 1
            /\ cache'[l].names = IF Reading(l)
                                   THEN cache[l].names \cup ToSet(Names(l, Item(l)))
                                   ELSE cache[l].names
            /\ cache'[l].failed = ~Succeeds(l)
            /\ cache'[l].compiled =
                 IF Reading(l) THEN cache[l].compiled
                 ELSE [cache[l].compiled EXCEPT ![Item(l)] = Succeeds(l)]
            /\ \A m \in Loaders \ {l} : cache'[m] = cache[m]
            /\ calls'[c].place = (IF Ends(l) THEN "return" ELSE "loading")
            /\ calls'[c].loader = l
            /\ \A d \in Callers \ {c} : calls'[d] = calls[d]
<1> DEFINE l == calls[c].loader
<1> DEFINE names2 == IF Reading(l) THEN cache[l].names \cup ToSet(Names(l, Item(l)))
                     ELSE cache[l].names
<1> DEFINE compiled2 == IF Reading(l) THEN cache[l].compiled
                        ELSE [cache[l].compiled EXCEPT ![Item(l)] = Succeeds(l)]
<1> DEFINE entry2 == [by |-> c, done |-> Ends(l), step |-> cache[l].step + 1,
                      names |-> names2, failed |-> ~Succeeds(l), compiled |-> compiled2]
<1>1. calls[c].place = "loading"
  BY DEF Load
<1>2. /\ l \in Loaders /\ cache[l].by = c /\ ~cache[l].done /\ ~cache[l].failed
      /\ cache[l].step \in 1 .. Len(Files(l)) + Len(Kinds(l))
      /\ cache[l].compiled \in [ToSet(Kinds(l)) -> BOOLEAN]
  BY <1>1, LoadingShape
<1>3. /\ cache' = [cache EXCEPT ![l] = entry2] /\ content' = content
      /\ calls' = [calls EXCEPT ![c] =
                     [place |-> IF Ends(l) THEN "return" ELSE "loading",
                      loader |-> calls[c].loader, kind |-> calls[c].kind]]
  BY LoadShape
<1>4. /\ calls' \in [Callers -> {[place |-> "start"]} \cup Waiting \cup Answered]
      /\ calls'[c].place = (IF Ends(l) THEN "return" ELSE "loading")
      /\ calls'[c].loader = calls[c].loader
      /\ \A d \in Callers \ {c} : calls'[d] = calls[d]
  <2> DEFINE place == IF Ends(l) THEN "return" ELSE "loading"
  <2>1. place \in {"once", "loading", "return"}
    OBVIOUS
  <2>2. calls' = [calls EXCEPT ![c] = [place |-> place, loader |-> calls[c].loader,
                                       kind |-> calls[c].kind]]
    BY <1>3
  <2> HIDE DEF place
  <2>3. /\ calls' \in [Callers -> {[place |-> "start"]} \cup Waiting \cup Answered]
        /\ calls'[c].place = place /\ calls'[c].loader = calls[c].loader
        /\ \A d \in Callers \ {c} : calls'[d] = calls[d]
    BY <1>1, <2>1, <2>2, Moved
  <2> QED
    BY <2>3 DEF place
<1>5. DOMAIN cache = Loaders /\ content \in Builds
      /\ \A m \in Loaders : ToSet(Kinds(m)) \subseteq DOMAIN content
  BY DEF TypeOK
<1>6. compiled2 \in [ToSet(Kinds(l)) -> BOOLEAN]
  <2>1. CASE Reading(l)
    BY <1>2, <2>1
  <2>2. CASE ~Reading(l)
    <3>1. Item(l) \in ToSet(Kinds(l))
      BY <1>2, <2>2, ItemShape
    <3>2. Succeeds(l) \in BOOLEAN
      BY <1>2, <1>5, <2>2, <3>1, BuildsAssumption DEF Succeeds
    <3> QED
      BY <1>2, <2>2, <3>1, <3>2
  <2> QED
    BY <2>1, <2>2
<1>7. Ends(l) \in BOOLEAN /\ (~Succeeds(l)) \in BOOLEAN
  BY DEF Ends
<1>8. Len(Files(l)) \in Nat /\ Len(Kinds(l)) \in Nat
  BY <1>2, LoaderShape
<1>9. cache[l].step + 1 \in 1 .. Len(Files(l)) + Len(Kinds(l)) + 1
  BY <1>2, <1>8
<1> HIDE DEF names2, compiled2
<1>10. /\ entry2.by = c /\ entry2.done = Ends(l) /\ entry2.step = cache[l].step + 1
       /\ entry2.names = names2 /\ entry2.failed = ~Succeeds(l)
       /\ entry2.compiled = compiled2
       /\ entry2 = [by |-> entry2.by, done |-> entry2.done, step |-> entry2.step,
                    names |-> entry2.names, failed |-> entry2.failed,
                    compiled |-> entry2.compiled]
  OBVIOUS
<1> HIDE DEF entry2
<1>11. cache'[l] = entry2 /\ DOMAIN cache' = Loaders
       /\ \A m \in Loaders \ {l} : cache'[m] = cache[m]
  BY <1>2, <1>3, <1>5
<1>12. TypeOK'
  <2>1. content' \in Builds /\ \A m \in Loaders : ToSet(Kinds(m))' \subseteq DOMAIN content'
    BY <1>3, <1>5 DEF Kinds, ToSet, Loaders
  <2>2. ASSUME NEW m \in Loaders
        PROVE  /\ cache'[m] = [by |-> cache'[m].by, done |-> cache'[m].done,
                    step |-> cache'[m].step, names |-> cache'[m].names,
                    failed |-> cache'[m].failed, compiled |-> cache'[m].compiled]
               /\ cache'[m].by \in Callers \cup {Nobody}
               /\ cache'[m].done \in BOOLEAN /\ cache'[m].failed \in BOOLEAN
               /\ cache'[m].step \in 1 .. Len(Files(m)) + Len(Kinds(m)) + 1
               /\ cache'[m].compiled \in [ToSet(Kinds(m)) -> BOOLEAN]
    <3>1. CASE m # l
      BY <1>11, <3>1 DEF TypeOK
    <3>2. CASE m = l
      BY <1>6, <1>7, <1>9, <1>10, <1>11, <3>2
    <3> QED
      BY <3>1, <3>2
  <2> QED
    BY <1>4, <1>11, <2>1, <2>2 DEF TypeOK
<1> QED
  BY <1>2, <1>3, <1>4, <1>10, <1>11, <1>12 DEF names2, compiled2

-----------------------------------------------------------------------------
(* Every step keeps one goroutine in the function.                         *)

\* A call, a pass and a return change no cache and start no function.
LEMMA OneRunsKept ==
  ASSUME OneRuns, cache' = cache, NEW c \in Callers, calls'[c].place # "loading",
         \A d \in Callers \ {c} : calls'[d] = calls[d]
  PROVE  OneRuns'
<1> SUFFICES ASSUME NEW l \in Loaders
             PROVE  /\ cache'[l].done <=> cache'[l].failed
                          \/ cache'[l].step > Len(Files(l)) + Len(Kinds(l))
                    /\ cache'[l].by = Nobody => cache'[l].step = 1 /\ ~cache'[l].done
                    /\ \A d \in Callers :
                         calls'[d].place = "loading" /\ calls'[d].loader = l =>
                           cache'[l].by = d /\ ~cache'[l].done
  BY DEF OneRuns, Loaders, Files, Kinds
<1>1. /\ cache[l].done <=> cache[l].failed
           \/ cache[l].step > Len(Files(l)) + Len(Kinds(l))
      /\ cache[l].by = Nobody => cache[l].step = 1 /\ ~cache[l].done
  BY DEF OneRuns
<1>2. ASSUME NEW d \in Callers, calls'[d].place = "loading", calls'[d].loader = l
      PROVE  cache[l].by = d /\ ~cache[l].done
  <2>1. calls'[d] = calls[d]
    BY <1>2
  <2> QED
    BY <1>2, <2>1 DEF OneRuns
<1> QED
  BY <1>1, <1>2

\* The first caller starts the function alone.
LEMMA OneRunsEnter ==
  ASSUME TypeOK, OneRuns, NEW c \in Callers, Enter(c)
  PROVE  OneRuns'
<1> DEFINE a == calls[c].loader
<1>1. /\ a \in Loaders /\ cache[a].by = Nobody /\ ~cache[a].done
      /\ cache'[a].by = c
      /\ \A l \in Loaders :
           /\ l # a => cache'[l] = cache[l]
           /\ cache'[l].done = cache[l].done /\ cache'[l].step = cache[l].step
           /\ cache'[l].failed = cache[l].failed
      /\ calls'[c].place = "loading" /\ calls'[c].loader = a
      /\ \A d \in Callers \ {c} : calls'[d] = calls[d]
  BY EnterStep
<1> HIDE DEF a
<1> SUFFICES ASSUME NEW l \in Loaders
             PROVE  /\ cache'[l].done <=> cache'[l].failed
                          \/ cache'[l].step > Len(Files(l)) + Len(Kinds(l))
                    /\ cache'[l].by = Nobody => cache'[l].step = 1 /\ ~cache'[l].done
                    /\ \A d \in Callers :
                         calls'[d].place = "loading" /\ calls'[d].loader = l =>
                           cache'[l].by = d /\ ~cache'[l].done
  BY DEF OneRuns, Loaders, Files, Kinds
<1>2. /\ cache[l].done <=> cache[l].failed
           \/ cache[l].step > Len(Files(l)) + Len(Kinds(l))
      /\ cache[l].by = Nobody => cache[l].step = 1 /\ ~cache[l].done
  BY DEF OneRuns
<1>3. cache'[l].by = Nobody => cache'[l].step = 1 /\ ~cache'[l].done
  BY <1>1, <1>2, NobodyAssumption
<1>4. ASSUME NEW d \in Callers, calls'[d].place = "loading", calls'[d].loader = l
      PROVE  cache'[l].by = d /\ ~cache'[l].done
  <2>1. CASE d = c
    BY <1>1, <1>4, <2>1
  <2>2. CASE d # c
    <3>1. calls'[d] = calls[d]
      BY <1>1, <2>2
    <3>2. cache[l].by = d /\ ~cache[l].done
      BY <1>4, <3>1 DEF OneRuns
    <3>3. l # a
      BY <1>1, <3>2, NobodyAssumption
    <3> QED
      BY <1>1, <3>2, <3>3
  <2> QED
    BY <2>1, <2>2
<1> QED
  BY <1>1, <1>2, <1>3, <1>4

\* The one in the function stays the only one, and leaves it when it is over.
LEMMA OneRunsLoad ==
  ASSUME TypeOK, OneRuns, NEW c \in Callers, Load(c)
  PROVE  OneRuns'
<1> DEFINE a == calls[c].loader
<1>1. /\ a \in Loaders /\ cache[a].by = c /\ ~cache[a].done /\ ~cache[a].failed
      /\ cache[a].step \in 1 .. Len(Files(a)) + Len(Kinds(a))
      /\ cache'[a].by = c
      /\ cache'[a].done = Ends(a)
      /\ cache'[a].step = cache[a].step + 1
      /\ cache'[a].failed = ~Succeeds(a)
      /\ \A m \in Loaders \ {a} : cache'[m] = cache[m]
      /\ calls'[c].place = (IF Ends(a) THEN "return" ELSE "loading")
      /\ calls'[c].loader = a
      /\ \A d \in Callers \ {c} : calls'[d] = calls[d]
  BY LoadStep
<1> HIDE DEF a
<1> SUFFICES ASSUME NEW l \in Loaders
             PROVE  /\ cache'[l].done <=> cache'[l].failed
                          \/ cache'[l].step > Len(Files(l)) + Len(Kinds(l))
                    /\ cache'[l].by = Nobody => cache'[l].step = 1 /\ ~cache'[l].done
                    /\ \A d \in Callers :
                         calls'[d].place = "loading" /\ calls'[d].loader = l =>
                           cache'[l].by = d /\ ~cache'[l].done
  BY DEF OneRuns, Loaders, Files, Kinds
<1>2. CASE l = a
  <2>1. Len(Files(a)) \in Nat /\ Len(Kinds(a)) \in Nat
    BY <1>1, LoaderShape
  <2>2. Ends(a) <=> cache[a].step = Len(Files(a)) + Len(Kinds(a)) \/ ~Succeeds(a)
    BY DEF Ends, IsLast
  <2>3. cache[a].step = Len(Files(a)) + Len(Kinds(a))
          <=> cache[a].step + 1 > Len(Files(a)) + Len(Kinds(a))
    BY <1>1, <2>1
  <2>4. cache'[a].done <=> cache'[a].failed
          \/ cache'[a].step > Len(Files(a)) + Len(Kinds(a))
    BY <1>1, <2>2, <2>3
  <2>5. ASSUME NEW d \in Callers, calls'[d].place = "loading", calls'[d].loader = l
        PROVE  cache'[l].by = d /\ ~cache'[l].done
    <3>1. CASE d = c
      BY <1>1, <1>2, <2>5, <3>1
    <3>2. CASE d # c
      <4>1. calls'[d] = calls[d]
        BY <1>1, <3>2
      <4>2. cache[l].by = d
        BY <2>5, <4>1 DEF OneRuns
      <4> QED
        BY <1>1, <1>2, <3>2, <4>2
    <3> QED
      BY <3>1, <3>2
  <2> QED
    BY <1>1, <1>2, <2>4, <2>5, NobodyAssumption
<1>3. CASE l # a
  <2>1. cache'[l] = cache[l]
    BY <1>1, <1>3
  <2>2. ASSUME NEW d \in Callers, calls'[d].place = "loading", calls'[d].loader = l
        PROVE  calls'[d] = calls[d]
    BY <1>1, <1>3, <2>2
  <2> QED
    BY <2>1, <2>2 DEF OneRuns
<1> QED
  BY <1>2, <1>3

-----------------------------------------------------------------------------
(* Every step leaves a result that was passed on as it was.                *)

\* A result that is done stays as it is.
LEMMA DoneStays ==
  ASSUME TypeOK, OneRuns, Next, NEW l \in Loaders, cache[l].done
  PROVE  /\ cache'[l].done /\ cache'[l].failed = cache[l].failed
         /\ cache'[l].compiled = cache[l].compiled
<1>1. PICK c \in Callers : (\E m \in Loaders : \E k \in ToSet(Kinds(m)) : Call(c, m, k))
                             \/ Progress(c)
  BY DEF Next
<1>2. CASE Enter(c)
  BY <1>2, EnterStep
<1>3. CASE Load(c)
  <2>1. ~cache[calls[c].loader].done
        /\ \A m \in Loaders \ {calls[c].loader} : cache'[m] = cache[m]
    BY <1>3, LoadStep
  <2> QED
    BY <2>1
<1>4. CASE ~Enter(c) /\ ~Load(c)
  BY <1>1, <1>4 DEF Progress, Call, Pass, Return
<1> QED
  BY <1>2, <1>3, <1>4

\* Who has passed the sync.Once keeps what it found there.
LEMMA AfterOnceHolds ==
  ASSUME TypeOK, OneRuns, AfterOnce, Next
  PROVE  AfterOnce'
<1>1. PICK c \in Callers : (\E m \in Loaders : \E k \in ToSet(Kinds(m)) : Call(c, m, k))
                             \/ Progress(c)
  BY DEF Next
<1> SUFFICES ASSUME NEW d \in Callers
             PROVE  /\ calls'[d].place = "return" => cache'[calls'[d].loader].done
                    /\ calls'[d].place = "answered" =>
                         /\ cache'[calls'[d].loader].done
                         /\ calls'[d].failed = cache'[calls'[d].loader].failed
                         /\ \E k \in ToSet(Kinds(calls'[d].loader)) :
                              calls'[d].schema = cache'[calls'[d].loader].compiled[k]
  BY DEF AfterOnce, Kinds, ToSet
<1>2. CASE calls'[d] = calls[d]
  <2>1. calls[d].place \in {"return", "answered"} =>
          calls[d].loader \in Loaders /\ cache[calls[d].loader].done
    BY CallShape, AnswerShape DEF AfterOnce
  <2>2. calls[d].place = "answered" =>
          /\ calls[d].failed = cache[calls[d].loader].failed
          /\ \E k \in ToSet(Kinds(calls[d].loader)) :
               calls[d].schema = cache[calls[d].loader].compiled[k]
    BY DEF AfterOnce
  <2>3. calls[d].place \in {"return", "answered"} =>
          /\ cache'[calls[d].loader].done
          /\ cache'[calls[d].loader].failed = cache[calls[d].loader].failed
          /\ cache'[calls[d].loader].compiled = cache[calls[d].loader].compiled
    BY <2>1, DoneStays
  <2> QED
    BY <1>2, <2>2, <2>3
<1>3. CASE calls'[d] # calls[d]
  <2>1. ASSUME NEW m \in Loaders, NEW k \in ToSet(Kinds(m)), Call(c, m, k)
        PROVE  calls'[d].place = "once"
    BY <1>3, <2>1, CallStep
  <2>2. ASSUME Enter(c)
        PROVE  calls'[d].place = "loading"
    BY <1>3, <2>2, EnterStep
  <2>3. ASSUME Pass(c)
        PROVE  calls'[d].place = "return" /\ cache'[calls'[d].loader].done
    BY <1>3, <2>3, PassStep
  <2>4. ASSUME Load(c)
        PROVE  /\ calls'[d].place \in {"return", "loading"}
               /\ calls'[d].place = "return" => cache'[calls'[d].loader].done
    <3>1. d = c
      <4>1. \A e \in Callers \ {c} : calls'[e] = calls[e]
        BY <2>4, LoadStep
      <4> QED
        BY <1>3, <4>1
    <3>2. /\ calls'[c].place = (IF Ends(calls[c].loader) THEN "return" ELSE "loading")
          /\ calls'[c].loader = calls[c].loader
          /\ cache'[calls[c].loader].done = Ends(calls[c].loader)
      BY <2>4, LoadStep
    <3> QED
      BY <3>1, <3>2
  <2>5. ASSUME Return(c)
        PROVE  /\ calls'[d].place = "answered"
               /\ cache'[calls'[d].loader].done
               /\ calls'[d].failed = cache'[calls'[d].loader].failed
               /\ \E k \in ToSet(Kinds(calls'[d].loader)) :
                    calls'[d].schema = cache'[calls'[d].loader].compiled[k]
    <3>1. d = c
      BY <1>3, <2>5, ReturnStep
    <3>2. /\ cache' = cache /\ calls[c].place = "return"
          /\ calls[c].kind \in ToSet(Kinds(calls[c].loader))
          /\ calls'[c].place = "answered" /\ calls'[c].loader = calls[c].loader
          /\ calls'[c].schema = cache[calls[c].loader].compiled[calls[c].kind]
          /\ calls'[c].failed = cache[calls[c].loader].failed
      BY <2>5, ReturnStep
    <3>3. cache[calls[c].loader].done
      BY <3>2 DEF AfterOnce
    <3> QED
      BY <3>1, <3>2, <3>3
  <2> QED
    BY <1>1, <2>1, <2>2, <2>3, <2>4, <2>5 DEF Progress
<1> QED
  BY <1>2, <1>3

-----------------------------------------------------------------------------
(* Every step keeps what a loader has so far right.                        *)

\* What is wrong with a build is fixed when the program is built.
LEMMA BuildStays ==
  ASSUME content' = content, NEW l \in Loaders
  PROVE  /\ Broken(l)' <=> Broken(l)
         /\ \A f : Names(l, f)' = Names(l, f)
<1>1. \A f : Names(l, f)' = Names(l, f)
  BY DEF Names, OwnId, CatalogName, Canonical, Named
<1>2. Files(l)' = Files(l) /\ Kinds(l)' = Kinds(l)
  BY DEF Files, Kinds
<1> QED
  BY <1>1 DEF Broken, IsInjective, ToSet, Names, OwnId, CatalogName, Canonical, Named,
     Files, Kinds

\* What it says of the next state, in terms of what a build fixes.
LEMMA RightNext ==
  ASSUME content' = content, NEW l \in Loaders
  PROVE  Right(l)' <=>
           /\ cache'[l].names = UNION {ToSet(Names(l, Files(l)[i])) : i \in FilesRead(l)'}
           /\ \A i \in FilesRead(l)' :
                content[Files(l)[i]].json /\ IsInjective(Names(l, Files(l)[i]))
           /\ \A i, j \in FilesRead(l)' :
                i # j => ToSet(Names(l, Files(l)[i])) \cap ToSet(Names(l, Files(l)[j])) = {}
           /\ \A i \in KindsCompiled(l)' :
                content[Kinds(l)[i]].compiles /\ cache'[l].compiled[Kinds(l)[i]]
BY DEF Right, IsInjective, ToSet, Names, OwnId, CatalogName, Canonical, Named, Files, Kinds,
   FilesRead, KindsCompiled

\* It depends on the build and on the fields of the loader.
LEMMA RightStays ==
  ASSUME content' = content, NEW l \in Loaders, Right(l),
         cache'[l].step = cache[l].step, cache'[l].names = cache[l].names,
         cache'[l].compiled = cache[l].compiled
  PROVE  Right(l)'
<1>1. FilesRead(l)' = FilesRead(l) /\ KindsCompiled(l)' = KindsCompiled(l)
  BY DEF FilesRead, KindsCompiled, Files, Kinds
<1> QED
  BY <1>1, RightNext DEF Right

\* A loader that reads on has added the names of one more file.
LEMMA RightRead ==
  ASSUME content' = content, NEW l \in Loaders, Right(l),
         cache[l].step \in 1 .. Len(Files(l)) + Len(Kinds(l)),
         Reading(l), Succeeds(l),
         cache'[l].step = cache[l].step + 1,
         cache'[l].names = cache[l].names \cup ToSet(Names(l, Item(l))),
         cache'[l].compiled = cache[l].compiled
  PROVE  Right(l)'
<1> DEFINE s == cache[l].step
<1> DEFINE N(i) == ToSet(Names(l, Files(l)[i]))
<1>1. /\ Len(Files(l)) \in Nat /\ DOMAIN Files(l) = 1 .. Len(Files(l))
      /\ Len(Kinds(l)) \in Nat /\ DOMAIN Kinds(l) = 1 .. Len(Kinds(l))
  BY LoaderShape
<1>2. s \in DOMAIN Files(l) /\ Item(l) = Files(l)[s]
  BY ItemShape
<1>3. Files(l)' = Files(l) /\ Kinds(l)' = Kinds(l) /\ \A f : Names(l, f)' = Names(l, f)
  BY BuildStays DEF Files, Kinds
<1>4. FilesRead(l)' = FilesRead(l) \cup {s}
  <2>1. FilesRead(l)' = {i \in DOMAIN Files(l) : i < s + 1}
    BY <1>3 DEF FilesRead
  <2>2. \A i \in DOMAIN Files(l) : i < s + 1 <=> i < s \/ i = s
    BY <1>1, <1>2
  <2> QED
    BY <1>2, <2>1, <2>2 DEF FilesRead
<1>5. KindsCompiled(l)' = {} /\ KindsCompiled(l) = {}
  <2>1. s <= Len(Files(l))
    BY DEF Reading
  <2>2. KindsCompiled(l)' = {i \in DOMAIN Kinds(l) : Len(Files(l)) + i < s + 1}
    BY <1>3 DEF KindsCompiled
  <2>3. \A i \in DOMAIN Kinds(l) : ~(Len(Files(l)) + i < s + 1) /\ ~(Len(Files(l)) + i < s)
    BY <1>1, <1>2, <2>1
  <2> QED
    BY <2>2, <2>3 DEF KindsCompiled
<1>6. /\ content[Files(l)[s]].json /\ IsInjective(Names(l, Files(l)[s]))
      /\ N(s) \cap cache[l].names = {}
  BY <1>2 DEF Succeeds, AddsAll
<1>7. cache[l].names = UNION {N(i) : i \in FilesRead(l)}
  BY DEF Right
<1>8. cache'[l].names = UNION {N(i) : i \in FilesRead(l)'}
  BY <1>2, <1>4, <1>7
<1>9. \A i \in FilesRead(l)' :
        content[Files(l)[i]].json /\ IsInjective(Names(l, Files(l)[i]))
  BY <1>4, <1>6 DEF Right
<1>10. \A i \in FilesRead(l) : N(i) \cap N(s) = {}
  BY <1>6, <1>7
<1>11. \A i, j \in FilesRead(l)' : i # j => N(i) \cap N(j) = {}
  <2>1. \A i, j \in FilesRead(l) : i # j => N(i) \cap N(j) = {}
    BY DEF Right
  <2> HIDE DEF N, s
  <2> QED
    BY <1>4, <1>10, <2>1
<1>12. Right(l)' <=>
         /\ cache'[l].names = UNION {N(i) : i \in FilesRead(l)'}
         /\ \A i \in FilesRead(l)' :
              content[Files(l)[i]].json /\ IsInjective(Names(l, Files(l)[i]))
         /\ \A i, j \in FilesRead(l)' : i # j => N(i) \cap N(j) = {}
         /\ \A i \in KindsCompiled(l)' :
              content[Kinds(l)[i]].compiles /\ cache'[l].compiled[Kinds(l)[i]]
  BY RightNext
<1> QED
  BY <1>5, <1>8, <1>9, <1>11, <1>12

\* A loader that compiles on has compiled one more schema.
LEMMA RightCompile ==
  ASSUME content' = content, NEW l \in Loaders, Right(l),
         cache[l].step \in 1 .. Len(Files(l)) + Len(Kinds(l)),
         cache[l].compiled \in [ToSet(Kinds(l)) -> BOOLEAN],
         ~Reading(l), Succeeds(l),
         cache'[l].step = cache[l].step + 1,
         cache'[l].names = cache[l].names,
         cache'[l].compiled = [cache[l].compiled EXCEPT ![Item(l)] = Succeeds(l)]
  PROVE  Right(l)'
<1> DEFINE s == cache[l].step
<1> DEFINE k == s - Len(Files(l))
<1>1. /\ Len(Files(l)) \in Nat /\ DOMAIN Files(l) = 1 .. Len(Files(l))
      /\ Len(Kinds(l)) \in Nat /\ DOMAIN Kinds(l) = 1 .. Len(Kinds(l))
      /\ \A i \in DOMAIN Kinds(l) : Kinds(l)[i] \in ToSet(Kinds(l))
  BY LoaderShape
<1>2. k \in DOMAIN Kinds(l) /\ Item(l) = Kinds(l)[k] /\ Item(l) \in ToSet(Kinds(l))
  BY ItemShape
<1>3. Files(l)' = Files(l) /\ Kinds(l)' = Kinds(l) /\ \A f : Names(l, f)' = Names(l, f)
  BY BuildStays DEF Files, Kinds
<1>4. FilesRead(l)' = FilesRead(l)
  <2>1. FilesRead(l)' = {i \in DOMAIN Files(l) : i < s + 1}
    BY <1>3 DEF FilesRead
  <2>2. s > Len(Files(l))
    BY <1>1 DEF Reading
  <2>3. \A i \in DOMAIN Files(l) : i < s + 1 <=> i < s
    BY <1>1, <2>2
  <2> QED
    BY <2>1, <2>3 DEF FilesRead
<1>5. KindsCompiled(l)' = KindsCompiled(l) \cup {k}
  <2>1. KindsCompiled(l)' = {i \in DOMAIN Kinds(l) : Len(Files(l)) + i < s + 1}
    BY <1>3 DEF KindsCompiled
  <2>2. \A i \in DOMAIN Kinds(l) :
          Len(Files(l)) + i < s + 1 <=> Len(Files(l)) + i < s \/ i = k
    BY <1>1
  <2> QED
    BY <1>2, <2>1, <2>2 DEF KindsCompiled
<1>6. content[Kinds(l)[k]].compiles
  BY <1>2 DEF Succeeds
<1>7. /\ cache'[l].compiled[Kinds(l)[k]]
      /\ \A i \in DOMAIN Kinds(l) : cache[l].compiled[Kinds(l)[i]]
                                      => cache'[l].compiled[Kinds(l)[i]]
  <2> DEFINE ok == Succeeds(l)
  <2>1. ok = TRUE
    BY <1>6, <1>2 DEF Succeeds
  <2>2. cache'[l].compiled = [cache[l].compiled EXCEPT ![Item(l)] = TRUE]
    BY <2>1
  <2> QED
    BY <1>1, <1>2, <2>2
<1>8. \A i \in KindsCompiled(l)' :
        content[Kinds(l)[i]].compiles /\ cache'[l].compiled[Kinds(l)[i]]
  <2>1. \A i \in KindsCompiled(l) :
          content[Kinds(l)[i]].compiles /\ cache[l].compiled[Kinds(l)[i]]
    BY DEF Right
  <2> QED
    BY <1>5, <1>6, <1>7, <2>1 DEF KindsCompiled
<1>9. /\ cache'[l].names = UNION {ToSet(Names(l, Files(l)[i])) : i \in FilesRead(l)'}
      /\ \A i \in FilesRead(l)' :
           content[Files(l)[i]].json /\ IsInjective(Names(l, Files(l)[i]))
      /\ \A i, j \in FilesRead(l)' :
           i # j => ToSet(Names(l, Files(l)[i])) \cap ToSet(Names(l, Files(l)[j])) = {}
  BY <1>4 DEF Right
<1> QED
  BY <1>8, <1>9, RightNext

\* A step that fails has met what is wrong with the build.
LEMMA FailsBroken ==
  ASSUME NEW l \in Loaders, Right(l), ~Succeeds(l),
         cache[l].step \in 1 .. Len(Files(l)) + Len(Kinds(l))
  PROVE  Broken(l)
<1> DEFINE s == cache[l].step
<1>1. /\ \A i, j \in DOMAIN Files(l) : Files(l)[i] = Files(l)[j] => i = j
      /\ \A i \in DOMAIN Files(l) : Files(l)[i] \in ToSet(Files(l))
      /\ DOMAIN Files(l) = 1 .. Len(Files(l)) /\ Len(Files(l)) \in Nat
  BY LoaderShape
<1>2. CASE Reading(l)
  <2>1. s \in DOMAIN Files(l) /\ Item(l) = Files(l)[s]
    BY <1>2, ItemShape
  <2>2. \/ ~content[Files(l)[s]].json \/ ~IsInjective(Names(l, Files(l)[s]))
        \/ ToSet(Names(l, Files(l)[s])) \cap cache[l].names # {}
    BY <1>2, <2>1 DEF Succeeds, AddsAll
  <2>3. CASE ~content[Files(l)[s]].json \/ ~IsInjective(Names(l, Files(l)[s]))
    BY <1>1, <2>1, <2>3 DEF Broken
  <2>4. CASE ToSet(Names(l, Files(l)[s])) \cap cache[l].names # {}
    <3>1. cache[l].names = UNION {ToSet(Names(l, Files(l)[i])) : i \in FilesRead(l)}
      BY DEF Right
    <3>2. PICK i \in FilesRead(l) :
            ToSet(Names(l, Files(l)[s])) \cap ToSet(Names(l, Files(l)[i])) # {}
      BY <2>4, <3>1
    <3>3. i \in DOMAIN Files(l) /\ i # s
      BY <1>1, <2>1 DEF FilesRead
    <3>4. Files(l)[s] # Files(l)[i]
      BY <1>1, <2>1, <3>3
    <3> QED
      BY <1>1, <2>1, <3>2, <3>3, <3>4 DEF Broken
  <2> QED
    BY <2>2, <2>3, <2>4
<1>3. CASE ~Reading(l)
  <2>1. Item(l) \in ToSet(Kinds(l)) /\ ~content[Item(l)].compiles
    BY <1>3, ItemShape DEF Succeeds
  <2> QED
    BY <2>1 DEF Broken
<1> QED
  BY <1>2, <1>3

\* Every step keeps it.
LEMMA SoFarHolds ==
  ASSUME TypeOK, OneRuns, SoFar, Next
  PROVE  SoFar'
<1>1. PICK c \in Callers : (\E m \in Loaders : \E k \in ToSet(Kinds(m)) : Call(c, m, k))
                             \/ Progress(c)
  BY DEF Next
<1>2. content' = content
  BY <1>1 DEF Progress, Call, Enter, Pass, Load, Return
<1>3. \A l \in Loaders : IF cache[l].failed THEN Broken(l) ELSE Right(l)
  BY DEF SoFar, Right
<1>4. ASSUME NEW l \in Loaders
      PROVE  IF cache'[l].failed THEN Broken(l)' ELSE Right(l)'
  <2>1. CASE /\ cache'[l].failed = cache[l].failed /\ cache'[l].step = cache[l].step
             /\ cache'[l].names = cache[l].names /\ cache'[l].compiled = cache[l].compiled
    BY <1>2, <1>3, <2>1, BuildStays, RightStays
  <2>2. CASE Enter(c)
    BY <2>1, <2>2, EnterStep
  <2>3. CASE Load(c)
    <3> DEFINE a == calls[c].loader
    <3>1. /\ a \in Loaders /\ ~cache[a].failed
          /\ cache[a].step \in 1 .. Len(Files(a)) + Len(Kinds(a))
          /\ cache'[a].step = cache[a].step + 1
          /\ cache'[a].names = (IF Reading(a)
                                 THEN cache[a].names \cup ToSet(Names(a, Item(a)))
                                 ELSE cache[a].names)
          /\ cache'[a].failed = ~Succeeds(a)
          /\ cache'[a].compiled =
               (IF Reading(a) THEN cache[a].compiled
                ELSE [cache[a].compiled EXCEPT ![Item(a)] = Succeeds(a)])
          /\ \A m \in Loaders \ {a} : cache'[m] = cache[m]
      BY <2>3, LoadStep
    <3> HIDE DEF a
    <3>2. CASE l # a
      BY <2>1, <3>1, <3>2
    <3>3. CASE l = a
      <4>1. Right(a)
        BY <1>3, <3>1
      <4>2. CASE ~Succeeds(a)
        BY <1>2, <3>1, <3>3, <4>1, <4>2, FailsBroken, BuildStays
      <4>3. CASE Succeeds(a) /\ Reading(a)
        BY <1>2, <3>1, <3>3, <4>1, <4>3, RightRead
      <4>4. CASE Succeeds(a) /\ ~Reading(a)
        <5>1. cache[a].compiled \in [ToSet(Kinds(a)) -> BOOLEAN]
          BY <3>1 DEF TypeOK
        <5> QED
          BY <1>2, <3>1, <3>3, <4>1, <4>4, <5>1, RightCompile
      <4> QED
        BY <4>2, <4>3, <4>4
    <3> QED
      BY <3>2, <3>3
  <2>4. CASE ~Enter(c) /\ ~Load(c)
    BY <1>1, <2>1, <2>4 DEF Progress, Call, Pass, Return
  <2> QED
    BY <2>2, <2>3, <2>4
<1> QED
  BY <1>4 DEF SoFar, Right, Loaders

-----------------------------------------------------------------------------
(* The theorems.                                                           *)

\* Before its first step a loader has read nothing and is right.
LEMMA InitInductive ==
  ASSUME Init, \A l \in Loaders : ToSet(Kinds(l)) \subseteq DOMAIN content
  PROVE  Inductive
<1>1. ASSUME NEW l \in Loaders
      PROVE  /\ cache[l] = [by |-> cache[l].by, done |-> cache[l].done,
                  step |-> cache[l].step, names |-> cache[l].names,
                  failed |-> cache[l].failed, compiled |-> cache[l].compiled]
             /\ cache[l].by = Nobody /\ cache[l].done = FALSE /\ cache[l].failed = FALSE
             /\ cache[l].step = 1 /\ cache[l].names = {}
             /\ cache[l].compiled \in [ToSet(Kinds(l)) -> BOOLEAN]
  <2> DEFINE compiled == [k \in ToSet(Kinds(l)) |-> FALSE]
  <2>1. compiled \in [ToSet(Kinds(l)) -> BOOLEAN]
    OBVIOUS
  <2>2. cache[l] = [by |-> Nobody, done |-> FALSE, step |-> 1, names |-> {},
                    failed |-> FALSE, compiled |-> compiled]
    BY DEF Init, Unloaded
  <2> HIDE DEF compiled
  <2> QED
    BY <2>1, <2>2
<1>2. \A l \in Loaders : Len(Files(l)) \in Nat /\ DOMAIN Files(l) = 1 .. Len(Files(l))
                         /\ Len(Kinds(l)) \in Nat \ {0} /\ DOMAIN Kinds(l) = 1 .. Len(Kinds(l))
  BY LoaderShape
<1>3. /\ content \in Builds /\ DOMAIN cache = Loaders
      /\ \A c \in Callers : calls[c] = [place |-> "start"]
      /\ calls \in [Callers -> {[place |-> "start"]} \cup Waiting \cup Answered]
  BY DEF Init
<1>4. TypeOK
  <2>1. \A l \in Loaders : ToSet(Kinds(l)) \subseteq DOMAIN content
    OBVIOUS
  <2>2. ASSUME NEW l \in Loaders
        PROVE  cache[l].step \in 1 .. Len(Files(l)) + Len(Kinds(l)) + 1
    <3>1. cache[l].step = 1
      BY <1>1
    <3>2. Len(Files(l)) \in Nat /\ Len(Kinds(l)) \in Nat
      BY <1>2
    <3> QED
      BY <3>1, <3>2
  <2>3. ASSUME NEW l \in Loaders
        PROVE  /\ cache[l].by \in Callers \cup {Nobody}
               /\ cache[l].done \in BOOLEAN /\ cache[l].failed \in BOOLEAN
    BY <1>1
  <2> QED
    BY <1>1, <1>3, <2>1, <2>2, <2>3 DEF TypeOK
<1>5. OneRuns
  <2>1. \A c \in Callers : calls[c].place = "start"
    BY <1>3
  <2>2. ASSUME NEW l \in Loaders
        PROVE  ~(cache[l].step > Len(Files(l)) + Len(Kinds(l)))
    <3>1. cache[l].step = 1
      BY <1>1
    <3>2. Len(Files(l)) \in Nat /\ Len(Kinds(l)) \in Nat \ {0}
      BY <1>2
    <3> QED
      BY <3>1, <3>2
  <2> QED
    BY <1>1, <2>1, <2>2 DEF OneRuns
<1>6. AfterOnce
  <2>1. \A c \in Callers : calls[c].place = "start"
    BY <1>3
  <2> QED
    BY <2>1 DEF AfterOnce
<1>7. SoFar
  <2>1. \A l \in Loaders : FilesRead(l) = {} /\ KindsCompiled(l) = {}
    <3> TAKE l \in Loaders
    <3>1. cache[l].step = 1
      BY <1>1
    <3>2. Len(Files(l)) \in Nat /\ DOMAIN Files(l) = 1 .. Len(Files(l))
          /\ DOMAIN Kinds(l) = 1 .. Len(Kinds(l)) /\ Len(Kinds(l)) \in Nat
      BY <1>2
    <3> QED
      BY <3>1, <3>2 DEF FilesRead, KindsCompiled
  <2> QED
    BY <1>1, <2>1 DEF SoFar, Right
<1> QED
  BY <1>4, <1>5, <1>6, <1>7 DEF Inductive

\* Every step keeps the invariant.
LEMMA NextInductive ==
  ASSUME Inductive, [Next]_vars
  PROVE  Inductive'
<1>1. TypeOK /\ OneRuns /\ AfterOnce /\ SoFar
  BY DEF Inductive
<1>2. CASE Next
  <2>1. PICK c \in Callers : (\E l \in Loaders : \E k \in ToSet(Kinds(l)) : Call(c, l, k))
                               \/ Progress(c)
    BY <1>2 DEF Next
  <2>2. ASSUME \E l \in Loaders : \E k \in ToSet(Kinds(l)) : Call(c, l, k)
        PROVE  TypeOK' /\ OneRuns'
    <3>1. /\ TypeOK' /\ cache' = cache /\ calls'[c].place = "once"
          /\ \A d \in Callers \ {c} : calls'[d] = calls[d]
      BY <1>1, <2>2, CallStep
    <3> QED
      BY <1>1, <3>1, OneRunsKept
  <2>3. ASSUME Enter(c)
        PROVE  TypeOK' /\ OneRuns'
    BY <1>1, <2>3, EnterStep, OneRunsEnter
  <2>4. ASSUME Pass(c)
        PROVE  TypeOK' /\ OneRuns'
    <3>1. /\ TypeOK' /\ cache' = cache /\ calls'[c].place = "return"
          /\ \A d \in Callers \ {c} : calls'[d] = calls[d]
      BY <1>1, <2>4, PassStep
    <3> QED
      BY <1>1, <3>1, OneRunsKept
  <2>5. ASSUME Load(c)
        PROVE  TypeOK' /\ OneRuns'
    <3>1. TypeOK'
      BY <1>1, <2>5, LoadStep
    <3> QED
      BY <1>1, <2>5, <3>1, OneRunsLoad
  <2>6. ASSUME Return(c)
        PROVE  TypeOK' /\ OneRuns'
    <3>1. /\ TypeOK' /\ cache' = cache /\ calls'[c].place = "answered"
          /\ \A d \in Callers \ {c} : calls'[d] = calls[d]
      BY <1>1, <2>6, ReturnStep
    <3> QED
      BY <1>1, <3>1, OneRunsKept
  <2>7. TypeOK' /\ OneRuns'
    BY <2>1, <2>2, <2>3, <2>4, <2>5, <2>6 DEF Progress
  <2> QED
    BY <1>1, <1>2, <2>7, AfterOnceHolds, SoFarHolds DEF Inductive
<1>3. CASE UNCHANGED vars
  <2>1. content' = content /\ cache' = cache /\ calls' = calls
    BY <1>3 DEF vars
  <2>2. TypeOK'
    BY <1>1, <2>1, CacheTyped DEF TypeOK
  <2>3. OneRuns' /\ AfterOnce'
    <3>1. OneRuns'
      BY <1>1, <2>1 DEF OneRuns, Files, Kinds, Loaders
    <3>2. AfterOnce'
      <4> SUFFICES ASSUME NEW d \in Callers
                   PROVE  /\ calls'[d].place = "return" => cache'[calls'[d].loader].done
                          /\ calls'[d].place = "answered" =>
                               /\ cache'[calls'[d].loader].done
                               /\ calls'[d].failed = cache'[calls'[d].loader].failed
                               /\ \E k \in ToSet(Kinds(calls'[d].loader)) :
                                    calls'[d].schema = cache'[calls'[d].loader].compiled[k]
        BY DEF AfterOnce, Kinds, ToSet
      <4> QED
        BY <1>1, <2>1 DEF AfterOnce
    <3> QED
      BY <3>1, <3>2
  <2>4. SoFar'
    <3>1. \A l \in Loaders : IF cache[l].failed THEN Broken(l) ELSE Right(l)
      BY <1>1 DEF SoFar, Right
    <3>2. \A l \in Loaders : IF cache'[l].failed THEN Broken(l)' ELSE Right(l)'
      BY <2>1, <3>1, BuildStays, RightStays
    <3> QED
      BY <3>2 DEF SoFar, Right, Loaders
  <2> QED
    BY <2>2, <2>3, <2>4 DEF Inductive
<1> QED
  BY <1>2, <1>3

\* What the invariant says of an answer.
LEMMA AnswersFollow ==
  ASSUME Inductive
  PROVE  AnswersAreRight
<1> SUFFICES ASSUME NEW c \in Callers, calls[c].place = "answered"
             PROVE  /\ calls[c].failed <=> Broken(calls[c].loader)
                    /\ ~calls[c].failed => calls[c].schema
  BY DEF AnswersAreRight
<1> DEFINE l == calls[c].loader
<1>1. TypeOK /\ OneRuns /\ AfterOnce /\ SoFar
  BY DEF Inductive
<1>2. l \in Loaders
  BY <1>1, AnswerShape
<1>3. /\ cache[l].done /\ calls[c].failed = cache[l].failed
      /\ \E k \in ToSet(Kinds(l)) : calls[c].schema = cache[l].compiled[k]
  BY <1>1 DEF AfterOnce
<1>4. CASE cache[l].failed
  BY <1>1, <1>2, <1>3, <1>4 DEF SoFar
<1>5. CASE ~cache[l].failed
  <2>1. /\ Len(Files(l)) \in Nat /\ DOMAIN Files(l) = 1 .. Len(Files(l))
        /\ Len(Kinds(l)) \in Nat /\ DOMAIN Kinds(l) = 1 .. Len(Kinds(l))
    BY <1>2, LoaderShape
  <2>2. cache[l].step > Len(Files(l)) + Len(Kinds(l)) /\ cache[l].step \in Nat
    BY <1>1, <1>2, <1>3, <1>5, <2>1 DEF OneRuns, TypeOK
  <2>3. FilesRead(l) = DOMAIN Files(l) /\ KindsCompiled(l) = DOMAIN Kinds(l)
    BY <2>1, <2>2 DEF FilesRead, KindsCompiled
  <2>4. Right(l)
    BY <1>1, <1>2, <1>5 DEF SoFar, Right
  <2>5. /\ \A f \in ToSet(Files(l)) : \E i \in DOMAIN Files(l) : f = Files(l)[i]
        /\ \A k \in ToSet(Kinds(l)) : \E i \in DOMAIN Kinds(l) : k = Kinds(l)[i]
    BY DEF ToSet
  <2>6. \A f \in ToSet(Files(l)) : content[f].json /\ IsInjective(Names(l, f))
    BY <2>3, <2>4, <2>5 DEF Right
  <2>7. \A f, g \in ToSet(Files(l)) :
          f # g => ToSet(Names(l, f)) \cap ToSet(Names(l, g)) = {}
    BY <2>3, <2>4, <2>5 DEF Right
  <2>8. \A k \in ToSet(Kinds(l)) : content[k].compiles /\ cache[l].compiled[k]
    BY <2>3, <2>4, <2>5 DEF Right
  <2>9. ~Broken(l)
    BY <2>6, <2>7, <2>8 DEF Broken
  <2> QED
    BY <1>3, <1>5, <2>8, <2>9
<1> QED
  BY <1>4, <1>5

\* One goroutine runs a loader, those that have passed it agree with it, and what
\* it has so far is right, whatever the build and however the first uses interleave.
THEOREM InductiveHolds == Spec => []Inductive
<1>1. Init => Inductive
  BY InitInductive, BuildsAssumption DEF Init
<1>2. Inductive /\ [Next]_vars => Inductive'
  BY NextInductive
<1> QED
  BY <1>1, <1>2, PTL DEF Spec

\* Whoever asks a loader, and whenever, gets the schema, or an error exactly if
\* one of the loader's own files is at fault.
THEOREM AnswersAreRightHold == Spec => []AnswersAreRight
<1>1. Inductive => AnswersAreRight
  BY AnswersFollow
<1> QED
  BY <1>1, InductiveHolds, PTL
=============================================================================
