------------------------- MODULE BundleContentProofs -------------------------
(***************************************************************************)
(* Theorems about BundleContent: for every limit, every set of names and   *)
(* every size of archives, entries and objects.                            *)
(***************************************************************************)
EXTENDS BundleContent, FiniteSetTheorems, SequenceTheorems, WellFoundedInduction, TLAPS

-----------------------------------------------------------------------------
(* What is used of the constants.                                          *)

\* The smaller of two numbers.
LEMMA LeastBound ==
    ASSUME NEW a \in Int, NEW b \in Int
    PROVE  /\ Least(a, b) \in Int
           /\ Least(a, b) <= a /\ Least(a, b) <= b
           /\ Least(a, b) = a \/ Least(a, b) = b
BY DEF Least

\* An addition of nothing.
LEMMA NothingAdded ==
    ASSUME NEW x \in Int, NEW bound \in Nat, NEW y, y = 0, x <= bound
    PROVE  x + y <= bound + 1
OBVIOUS

-----------------------------------------------------------------------------
(* StageZIP: what it writes is bounded.                                    *)

IntakeInv == IntakeTypeOK /\ ExpansionBounded

\* An early return leaves nothing.
LEMMA ReturnKeeps ==
    ASSUME NEW how \in Phases, Return(how)
    PROVE  IntakeInv'
<1>1. NoFiles \in [Paths -> Int \cup {None}] /\ \A p \in Paths : NoFiles[p] = None
  BY DEF NoFiles
<1>2. NoEntry \in Entries
  <2>1. MaxSize \in Nat
    BY IntakeAssumption
  <2>2. QED BY <2>1 DEF NoEntry, Entries
<1>3. MaxBytes \in Nat /\ MaxFiles \in Nat
  BY MaxBytesAssumption, IntakeAssumption
<1>4. QED BY <1>1, <1>2, <1>3 DEF Return, IntakeInv, IntakeTypeOK, ExpansionBounded

\* Before an archive comes there is nothing either.
LEMMA IntakeStarts == IntakeInit => IntakeInv
<1> SUFFICES ASSUME IntakeInit PROVE IntakeInv
  OBVIOUS
<1>1. NoFiles \in [Paths -> Int \cup {None}] /\ \A p \in Paths : NoFiles[p] = None
  BY DEF NoFiles
<1>2. NoEntry \in Entries
  <2>1. MaxSize \in Nat
    BY IntakeAssumption
  <2>2. QED BY <2>1 DEF NoEntry, Entries
<1>3. MaxBytes \in Nat /\ MaxFiles \in Nat
  BY MaxBytesAssumption, IntakeAssumption
<1>4. QED BY <1>1, <1>2, <1>3
          DEF IntakeInit, IntakeInv, IntakeTypeOK, ExpansionBounded, Phases

\* Every step of StageZIP keeps to the bounds.
LEMMA StageKeeps == IntakeInv /\ Stage => IntakeInv'
<1> SUFFICES ASSUME IntakeInv, Stage PROVE IntakeInv'
  OBVIOUS
<1> USE DEF IntakeInv, IntakeTypeOK, ExpansionBounded
<1>a. /\ MaxBytes \in Nat /\ MaxFiles \in Nat /\ MaxSize \in Nat
      /\ Archives \subseteq Nat /\ None \notin Int
  BY MaxBytesAssumption, IntakeAssumption
<1>b. {"archive", "entries", "expand", "measure", "accepted", "too large",
       "invalid", "failed"} \subseteq Phases
  BY DEF Phases
<1>1. ASSUME NEW bytes \in Archives, Receive(bytes) PROVE IntakeInv'
  <2>1. bytes \in Nat /\ zip' = Least(bytes, MaxBytes + 1)
    BY <1>1, <1>a DEF Receive
  <2>2. zip' \in 0..MaxBytes + 1
    BY <2>1, <1>a DEF Least
  <2>3. phase' \in Phases /\ UNCHANGED <<pending, entry, part, total, files>>
    BY <1>1, <1>b DEF Receive
  <2>4. QED BY <1>a, <2>2, <2>3
<1>2. ASSUME NEW actual \in 0..MaxSize, Expand(actual) PROVE IntakeInv'
  <2>1. /\ part' \in 0..MaxBytes + 1
        /\ total + part' <= MaxBytes + 1
    BY <1>2, <1>a DEF Expand, Remaining, Least
  <2>2. QED BY <1>2, <1>a, <1>b, <2>1 DEF Expand
<1>3. ASSUME NEW count \in 0..MaxFiles + 1, OpenArchive(count) PROVE IntakeInv'
  <2>1. CASE Return("too large")
    BY <2>1, <1>b, ReturnKeeps
  <2>2. CASE Return("invalid")
    BY <2>2, <1>b, ReturnKeeps
  <2>3. CASE /\ count <= MaxFiles /\ phase' = "entries" /\ pending' = count
             /\ UNCHANGED <<zip, entry, part, total, files>>
    <3>1. phase' \in Phases
      <4>1. phase' = "entries"
        BY <2>3
      <4>2. QED BY <4>1 DEF Phases
    <3>4. pending' \in 0..MaxFiles
      <4>1. count \in Nat /\ count <= MaxFiles /\ pending' = count
        BY <2>3, <1>a
      <4>2. QED BY <4>1, <1>a
    <3>2. UNCHANGED <<zip, entry, part, total, files>>
      BY <2>3
    <3>3. QED BY <1>a, <3>1, <3>2, <3>4
  <2>4. QED BY <1>3, <2>1, <2>2, <2>3 DEF OpenArchive
<1>4. ASSUME NEW name \in Names, NEW declared \in 0..MaxSize, CreateFile(name, declared)
      PROVE IntakeInv'
  <2>1. CleanRelative(name) \in Paths
    BY <1>4 DEF CreateFile, Paths
  <2>2. entry' \in Entries
    BY <1>4, <2>1 DEF CreateFile, Entries
  <2>3. pending' \in 0..MaxFiles
    BY <1>4, <1>a DEF CreateFile
  <2>4. QED BY <1>4, <2>2, <2>3, <1>b DEF CreateFile
<1>5. ASSUME NEW name \in Names, NEW declared \in 0..MaxSize, NEW regular \in BOOLEAN,
             RejectEntry(name, declared, regular)
      PROVE IntakeInv'
  BY <1>5, <1>b, ReturnKeeps DEF RejectEntry
<1>6. ASSUME NEW name \in Names, SkipDirectory(name) PROVE IntakeInv'
  BY <1>6, <1>a DEF SkipDirectory
<1>7. CASE Measure
  <2>1. CASE part > Remaining \/ part # entry.declared
    BY <1>7, <2>1, <1>b, ReturnKeeps DEF Measure
  <2>2. CASE ~(part > Remaining \/ part # entry.declared)
    <3>1. /\ phase' = "entries" /\ part' = 0 /\ entry' = NoEntry
          /\ files' = [files EXCEPT ![entry.path] = part]
          /\ total' = total + part
          /\ zip' = zip /\ pending' = pending
      BY <1>7, <2>2 DEF Measure
    <3>2. total' \in 0..MaxBytes /\ total <= total' /\ part \in 0..total'
      BY <2>2, <3>1, <1>a DEF Remaining
    <3>3. NoEntry \in Entries
      BY <1>a DEF NoEntry, Entries
    <3>4. /\ files' \in [Paths -> Int \cup {None}]
          /\ \A p \in Paths : files'[p] = part \/ files'[p] = files[p]
      <4>1. files \in [Paths -> Int \cup {None}] /\ part \in Int \cup {None}
        BY <3>2
      <4>2. QED BY <3>1, <4>1
    <3>5. \A p \in Paths : files'[p] # None => files'[p] \in 0..total'
      BY <3>2, <3>4, <1>a
    <3>6. /\ phase' \in Phases /\ entry' \in Entries /\ part' = 0
          /\ zip' = zip /\ pending' = pending
      BY <3>1, <3>3, <1>b
    <3>7. zip' <= MaxBytes + 1 /\ total' + part' <= MaxBytes + 1
      <4>1. total' \in Int /\ total' <= MaxBytes
        BY <3>2, <1>a
      <4>2. part' = 0 /\ zip' <= MaxBytes + 1
        BY <3>6
      <4>3. total' + part' <= MaxBytes + 1
        BY <4>1, <4>2, <1>a, NothingAdded, Zenon
      <4>4. QED BY <4>2, <4>3
    <3>8. part' \in 0..MaxBytes + 1 /\ total' \in Int
      <4>1. part' = 0 /\ 0 \in 0..MaxBytes + 1
        BY <3>6, <1>a
      <4>2. total' \in Int
        BY <3>2, <1>a
      <4>3. QED BY <4>1, <4>2
    <3>9. QED BY <3>2, <3>4, <3>5, <3>6, <3>7, <3>8
  <2>3. QED BY <2>1, <2>2
<1>8. CASE Finish
  <2>1. CASE files[Entrypoint] = None
    BY <1>8, <2>1, <1>b, ReturnKeeps DEF Finish
  <2>2. CASE files[Entrypoint] # None
    <3>1. phase' \in Phases /\ zip' = 0
      BY <1>8, <2>2, <1>b DEF Finish
    <3>2. UNCHANGED <<pending, entry, part, total, files>>
      BY <1>8, <2>2 DEF Finish
    <3>3. QED BY <1>a, <3>1, <3>2
  <2>3. QED BY <2>1, <2>2
<1>9. CASE Fail
  BY <1>9, <1>b, ReturnKeeps DEF Fail
<1>10. QED BY <1>1, <1>2, <1>3, <1>4, <1>5, <1>6, <1>7, <1>8, <1>9 DEF Stage

-----------------------------------------------------------------------------
(* s3ReadSeeker: a file, whatever is in the bucket.                        *)

\* What the reader's steps preserve.
ReaderInv ==
    /\ ReaderTypeOK
    /\ ~reader.closed => reader.key \in Paths
    /\ BodyAligned

\* What the handlers do with the reader and the bucket.
ReaderStep ==
    \/ \E p \in Paths, size \in 0..MaxObject : PutObject(p, size)
    \/ \E p \in Paths : OpenObject(p)
    \/ \E max \in Nat : Read(max)
    \/ \E target \in Nat : Seek(target)
    \/ Close
    \/ UNCHANGED readerVars

\* The constants, and that no body is None.
LEMMA ReaderFacts ==
    /\ MaxBytes \in Nat /\ MaxObject \in Nat /\ MaxPuts \in Nat
    /\ None \notin Bodies
<1>1. Bodies \subseteq [at : Int, left : Int, put : Int]
  BY ReaderAssumption DEF Bodies
<1>2. QED BY <1>1, MaxBytesAssumption, ReaderAssumption

\* The body a read uses stands where the reader does.
LEMMA BodyStands ==
    ASSUME ReaderInv, NEW body \in Body, ~reader.closed,
           reader.position < reader.size
    PROVE  /\ body \in Bodies
           /\ body.at = reader.position
           /\ body.left = reader.size - reader.position
           /\ reader.body # None => body = reader.body
<1>1. CASE reader.body # None
  BY <1>1 DEF Body, ReaderInv, ReaderTypeOK, Readers, BodyAligned
<1>2. CASE reader.body = None
  <2>1. body = Fetched /\ Fetched.left = reader.size - reader.position
    BY <1>2 DEF Body
  <2>2. object[reader.key] \in Objects
    BY DEF ReaderInv, ReaderTypeOK
  <2>3. reader.size - reader.position \in Nat /\ reader.position \in Nat
    BY ReaderFacts DEF ReaderInv, ReaderTypeOK, Readers
  <2>4. QED BY <1>2, <2>1, <2>2, <2>3, ReaderFacts DEF Fetched, Objects, Bodies
<1>3. QED BY <1>1, <1>2

\* What a read of an open reader returns, and where it leaves the reader.
LEMMA ReadReturns ==
    ASSUME ReaderInv, ~reader.closed, NEW max \in Nat, Read(max)
    PROVE  /\ result' \in Results
           /\ result'.count <= max
           /\ result'.from = reader.position
           /\ reader' \in Readers
           /\ reader'.key = reader.key /\ reader'.size = reader.size
           /\ reader'.closed = reader.closed
           /\ reader'.position = reader.position + result'.count
           /\ reader.position <= reader.size => reader'.position <= reader.size
           /\ result'.count > 0 => reader'.position <= reader.size
           /\ result'.err # "closed"
           /\ result'.err = "eof" => reader'.position >= reader.size
           /\ (result'.count > 0 \/ result'.err = "none") /\ reader.body # None =>
                result'.put = reader.body.put
           /\ result'.err = "none" =>
                reader'.body # None /\ reader'.body.put = result'.put
           /\ reader'.body # None =>
                \/ reader' = reader
                \/ /\ reader'.body.at = reader'.position
                   /\ reader'.body.left = reader'.size - reader'.position
           /\ UNCHANGED object
<1> USE ReaderFacts DEF ReaderInv, ReaderTypeOK, Results
<1>a. reader.position \in Nat /\ reader.size \in 0..MaxBytes
  BY DEF Readers
<1>1. CASE ReadFails
  <2>1. /\ result' = [from |-> reader.position, count |-> 0, err |-> "failed", put |-> 0]
        /\ UNCHANGED <<object, reader>>
    BY <1>1 DEF ReadFails, NoResult
  <2>2. result' \in Results
    BY <2>1, <1>a
  <2>3. QED BY <2>1, <2>2, <1>a
<1>2. CASE ReadAtEnd
  <2>1. /\ result' = [from |-> reader.position, count |-> 0, err |-> "eof", put |-> 0]
        /\ reader.position >= reader.size
        /\ UNCHANGED <<object, reader>>
    BY <1>2 DEF ReadAtEnd, NoResult
  <2>2. result' \in Results
    BY <2>1, <1>a
  <2>3. QED BY <2>1, <2>2, <1>a
<1>3. ASSUME NEW count \in 0..max, NEW err \in {"none", "eof", "failed"},
             ReadBody(count, err)
      PROVE  /\ result' \in Results
             /\ result'.count <= max
             /\ result'.from = reader.position
             /\ reader' \in Readers
             /\ reader'.key = reader.key /\ reader'.size = reader.size
             /\ reader'.closed = reader.closed
             /\ reader'.position = reader.position + result'.count
             /\ reader'.position <= reader.size
             /\ result'.err # "closed"
             /\ result'.err = "eof" => reader'.position >= reader.size
             /\ reader.body # None => result'.put = reader.body.put
             /\ result'.err = "none" =>
                  reader'.body # None /\ reader'.body.put = result'.put
             /\ reader'.body # None =>
                  /\ reader'.body.at = reader'.position
                  /\ reader'.body.left = reader'.size - reader'.position
             /\ UNCHANGED object
  <2>1. PICK body \in Body :
          /\ Consume(body, count, err)
          /\ result' = [from |-> body.at, count |-> count, put |-> body.put,
                        err |-> IF err = "eof" /\ reader'.position < reader.size
                                  THEN "failed" ELSE err]
    BY <1>3 DEF ReadBody
  <2>2. /\ body \in Bodies
        /\ body.at = reader.position
        /\ body.left = reader.size - reader.position
        /\ reader.body # None => body = reader.body
    BY <2>1, BodyStands DEF Consume
  <2>3. /\ reader.position \in Nat /\ reader.size \in 0..MaxBytes
        /\ count \in Nat /\ count <= max
        /\ reader.key \in Paths \cup {None} /\ reader.closed \in BOOLEAN
    BY DEF Readers
  <2>4. count <= body.left /\ count <= reader.size - reader.position
    BY <2>1, <2>2, <2>3, LeastBound DEF Consume
  <2>5. /\ reader'.position = reader.position + count
        /\ reader'.key = reader.key /\ reader'.size = reader.size
        /\ reader'.closed = reader.closed
        /\ reader'.body = IF err = "none"
                            THEN [body EXCEPT !.at = @ + count, !.left = @ - count]
                            ELSE None
        /\ reader' = [key |-> reader'.key, size |-> reader'.size,
                      position |-> reader'.position, body |-> reader'.body,
                      closed |-> reader'.closed]
    BY <2>1 DEF Consume, Readers
  <2>6. err = "none" => /\ reader'.body \in Bodies
                        /\ reader'.body.at = body.at + count
                        /\ reader'.body.left = body.left - count
                        /\ reader'.body.put = body.put
    <3>1. PICK at \in Nat : at = body.at + count
      BY <2>2, <2>3 DEF Bodies
    <3>2. PICK left \in Nat : left = body.left - count
      BY <2>2, <2>3, <2>4 DEF Bodies
    <3>3. SUFFICES ASSUME err = "none"
          PROVE  /\ reader'.body \in Bodies
                 /\ reader'.body.at = body.at + count
                 /\ reader'.body.left = body.left - count
                 /\ reader'.body.put = body.put
      OBVIOUS
    <3>4. PICK moved : moved = [body EXCEPT !.at = at, !.left = left]
      OBVIOUS
    <3>5. /\ moved \in Bodies
          /\ moved.at = at /\ moved.left = left /\ moved.put = body.put
      <4>1. body \in Bodies
        BY <2>2
      <4>2. QED BY <4>1, <3>4 DEF Bodies
    <3>6. reader'.body = moved
      BY <2>5, <3>1, <3>2, <3>3, <3>4
    <3>7. QED BY <3>1, <3>2, <3>5, <3>6
  <2>7. reader' \in Readers
    BY <2>3, <2>5, <2>6 DEF Readers
  <2>8. result' \in Results
    BY <2>1, <2>2, <2>3 DEF Bodies
  <2>9. /\ result'.err # "closed"
        /\ result'.err = "eof" => reader'.position >= reader.size
        /\ result'.err = "none" => err = "none"
    BY <2>1, <2>3, <2>5
  <2>10. err = "none" => /\ reader'.body # None
                         /\ reader'.body.put = body.put
                         /\ reader'.body.at = reader'.position
                         /\ reader'.body.left = reader'.size - reader'.position
    <3>1. SUFFICES ASSUME err = "none"
          PROVE  /\ reader'.body # None
                 /\ reader'.body.put = body.put
                 /\ reader'.body.at = reader'.position
                 /\ reader'.body.left = reader'.size - reader'.position
      OBVIOUS
    <3>2. reader'.body # None
      BY <2>6, <3>1
    <3>3. QED BY <2>2, <2>3, <2>5, <2>6, <3>1, <3>2
  <2>11. err # "none" => reader'.body = None
    BY <2>5
  <2>12. UNCHANGED object
    BY <2>1 DEF Consume
  <2>13. QED BY <2>1, <2>2, <2>3, <2>4, <2>5, <2>7, <2>8, <2>9, <2>10, <2>11, <2>12
<1>4. ReadFails \/ ReadAtEnd
        \/ \E count \in 0..max, err \in {"none", "eof", "failed"} : ReadBody(count, err)
  BY DEF Read
<1>5. QED BY <1>1, <1>2, <1>3, <1>4

\* A closed reader reads nothing.
LEMMA ReadClosed ==
    ASSUME ReaderInv, reader.closed, NEW max \in Nat, Read(max)
    PROVE  /\ result' = [NoResult EXCEPT !.from = reader.position, !.err = "closed"]
           /\ UNCHANGED <<object, reader>>
BY DEF Read, ReadFails, ReadAtEnd, ReadBody, Consume, ReaderInv

\* Every step of the reader keeps its body where the reader stands.
LEMMA ReaderKeeps == ReaderInv /\ ReaderStep => ReaderInv'
<1> SUFFICES ASSUME ReaderInv, ReaderStep PROVE ReaderInv'
  OBVIOUS
<1> USE ReaderFacts
<1>1. CASE UNCHANGED readerVars
  BY <1>1 DEF ReaderInv, ReaderTypeOK, BodyAligned, readerVars
<1>2. ASSUME NEW p \in Paths, NEW size \in 0..MaxObject, PutObject(p, size)
      PROVE  ReaderInv'
  <2>1. object' \in [Paths -> Objects]
    BY <1>2 DEF PutObject, ReaderInv, ReaderTypeOK, Objects
  <2>2. QED BY <1>2, <2>1 DEF PutObject, ReaderInv, ReaderTypeOK, BodyAligned
<1>3. ASSUME NEW p \in Paths, OpenObject(p) PROVE ReaderInv'
  <2>1. object[p].size \in 0..MaxBytes
    BY <1>3 DEF ReaderInv, ReaderTypeOK, Objects, OpenObject
  <2>2. NoResult \in Results
    BY DEF NoResult, Results
  <2>3. QED BY <1>3, <2>1, <2>2
            DEF OpenObject, ReaderInv, ReaderTypeOK, Readers, BodyAligned
<1>4. ASSUME NEW max \in Nat, Read(max) PROVE ReaderInv'
  <2>1. CASE ~reader.closed
    BY <1>4, <2>1, ReadReturns DEF ReaderInv, ReaderTypeOK, BodyAligned
  <2>2. CASE reader.closed
    <3>1. result' \in Results
      <4>1. result' = [from |-> reader.position, count |-> 0, err |-> "closed", put |-> 0]
        BY <1>4, <2>2, ReadClosed DEF NoResult
      <4>2. reader.position \in Nat
        BY DEF ReaderInv, ReaderTypeOK, Readers
      <4>3. QED BY <4>1, <4>2 DEF Results
    <3>2. QED BY <1>4, <2>2, <3>1, ReadClosed DEF ReaderInv, ReaderTypeOK, BodyAligned
  <2>3. QED BY <2>1, <2>2 DEF ReaderInv, ReaderTypeOK, Readers
<1>5. ASSUME NEW target \in Nat, Seek(target) PROVE ReaderInv'
  BY <1>5 DEF Seek, ReaderInv, ReaderTypeOK, Readers, BodyAligned
<1>6. CASE Close
  <2>1. NoReader \in Readers /\ NoResult \in Results
    BY DEF NoReader, Readers, NoResult, Results
  <2>2. QED BY <1>6, <2>1 DEF Close, NoReader, ReaderInv, ReaderTypeOK, BodyAligned
<1>7. QED BY <1>1, <1>2, <1>3, <1>4, <1>5, <1>6 DEF ReaderStep

\* Every step of the reader is one that a file takes.
LEMMA ReaderIsFile ==
    ReaderInv /\ ReaderStep =>
        \/ File!Next
        \/ UNCHANGED <<reader.size, reader.position, ~reader.closed,
                       [from |-> result.from, count |-> result.count,
                        err |-> result.err]>>
<1> SUFFICES ASSUME ReaderInv, ReaderStep
    PROVE \/ File!Next
          \/ UNCHANGED <<reader.size, reader.position, ~reader.closed,
                         [from |-> result.from, count |-> result.count,
                          err |-> result.err]>>
  OBVIOUS
<1>1. CASE UNCHANGED <<reader, result>>
  BY <1>1
<1>2. ASSUME NEW p \in Paths, OpenObject(p) PROVE File!Open
  <2>1. object[p].size \in Nat
    BY DEF ReaderInv, ReaderTypeOK, Objects
  <2>2. QED BY <1>2, <2>1 DEF OpenObject, File!Open, File!Nothing, NoResult
<1>3. ASSUME NEW max \in Nat, Read(max) PROVE File!Read
  <2>1. CASE ~reader.closed
    BY <1>3, <2>1, ReadReturns, ReaderFacts
       DEF ReaderInv, ReaderTypeOK, Readers, Results, File!Read, File!Results
  <2>2. CASE reader.closed
    <3>1. /\ result' = [from |-> reader.position, count |-> 0, err |-> "closed", put |-> 0]
          /\ reader' = reader
      BY <1>3, <2>2, ReadClosed DEF NoResult
    <3>2. reader.position \in Nat
      BY DEF ReaderInv, ReaderTypeOK, Readers
    <3>3. QED BY <2>2, <3>1, <3>2 DEF File!Read, File!Results
  <2>3. QED BY <2>1, <2>2 DEF ReaderInv, ReaderTypeOK, Readers
<1>4. ASSUME NEW target \in Nat, Seek(target) PROVE File!Seek
  BY <1>4 DEF Seek, ReaderInv, ReaderTypeOK, Readers, File!Seek
<1>5. ASSUME Close PROVE File!Close
  BY <1>5 DEF Close, NoReader, NoResult, File!Close, File!Nothing
<1>6. ASSUME NEW p \in Paths, NEW size \in 0..MaxObject, PutObject(p, size)
      PROVE  UNCHANGED <<reader, result>>
  BY <1>6 DEF PutObject
<1>7. CASE UNCHANGED readerVars
  BY <1>1, <1>7 DEF readerVars
<1>8. QED BY <1>1, <1>2, <1>3, <1>4, <1>5, <1>6, <1>7 DEF ReaderStep, File!Next

-----------------------------------------------------------------------------
(* The response and the reader it is read from.                            *)

\* What the content handler's steps preserve: until bytes are sent the page is
\* as it began; while they are read the reader stands at the end of what there
\* is, and the body it keeps is of the object that came from.  Between two parts
\* the reader may be anywhere.
PageInv ==
    /\ page \in Pages
    /\ page.ordered
    /\ \E put \in 0..MaxPuts : page.puts \subseteq {put}
    /\ page.step # "idle" => ~reader.closed
    /\ page.step \in {"idle", "measure", "rewind", "sniff", "range"} =>
         page.bytes = 0 /\ page.start = 0 /\ page.puts = {}
    /\ page.step = "range" => reader.position = 0
    /\ page.step = "inject" => page.start = 0
    /\ page.step \in {"inject", "copy"} =>
         /\ reader.position = page.start + page.bytes
         /\ reader.position <= reader.size
         /\ \/ page.puts = {}
            \/ reader.body # None /\ page.puts = {reader.body.put}
    /\ page.step = "copy" => page.bytes <= page.promised
    /\ page.step = "whole" => page.bytes = reader.size

ContentInv == IntakeInv /\ ReaderInv /\ PageInv

\* A step of the program is one of StageZIP's or none, and one of the reader's
\* or none.
LEMMA StepOfAPart ==
    ContentInv /\ [Next]_vars => /\ Stage \/ UNCHANGED intakeVars
                                 /\ ReaderStep
<1> SUFFICES ASSUME ContentInv, [Next]_vars
    PROVE  (Stage \/ UNCHANGED intakeVars) /\ ReaderStep
  OBVIOUS
<1>a. /\ MaxBytes \in Nat /\ MaxInject + 1 \in Nat /\ MaxObject \in Nat
      /\ MaxBytes <= MaxObject
  BY MaxBytesAssumption, MaxInjectAssumption, ReaderAssumption, MaxObjectAssumption
<1>b. /\ reader.size \in Nat
      /\ page.step = "copy" => page.promised - page.bytes \in Nat
  <2>1. reader.size \in Nat
    BY <1>a DEF ContentInv, ReaderInv, ReaderTypeOK, Readers
  <2>2. /\ page.promised \in Nat /\ page.bytes \in Nat
        /\ page.step = "copy" => page.bytes <= page.promised
    BY <1>a DEF ContentInv, PageInv, Pages
  <2>3. QED BY <2>1, <2>2
<1>1. CASE StageStep
  BY <1>1 DEF StageStep, ReaderStep
<1>2. ASSUME NEW p \in Paths, PublishFile(p)
      PROVE  (Stage \/ UNCHANGED intakeVars) /\ ReaderStep
  <2>1. files[p] \in 0..total /\ total <= MaxBytes
    BY <1>2, <1>a DEF PublishFile, ContentInv, IntakeInv, ExpansionBounded
  <2>2. total \in Int
    BY DEF ContentInv, IntakeInv, IntakeTypeOK
  <2>3. files[p] \in 0..MaxObject
    BY <2>1, <2>2, <1>a
  <2>4. QED BY <1>2, <2>3 DEF PublishFile, ReaderStep
<1>3. ASSUME NEW p \in Paths, NEW size \in 0..MaxBytes, Overwrite(p, size)
      PROVE  (Stage \/ UNCHANGED intakeVars) /\ ReaderStep
  <2>1. size \in 0..MaxObject
    BY <1>a
  <2>2. QED BY <1>3, <2>1 DEF Overwrite, ReaderStep
<1>4. ASSUME NEW name \in Names, NEW comments \in BOOLEAN,
             NEW type \in {"html", "other", "unknown"}, Request(name, comments, type)
      PROVE  (Stage \/ UNCHANGED intakeVars) /\ ReaderStep
  <2>1. CleanRelative(name) \in Paths
    BY <1>4 DEF Request, Paths
  <2>2. QED BY <1>4, <2>1 DEF Request, ReaderStep
<1>5. CASE Inject
  BY <1>5, <1>a DEF Inject, ReaderStep
<1>6. CASE Measured \/ Rewind \/ Sniff \/ ServeWhole \/ ServeRanges
  BY <1>6, <1>a, <1>b
     DEF Measured, Rewind, Sniff, ServeWhole, ServeRanges, SeekFails, ReaderStep
<1>7. CASE Copy
  BY <1>7, <1>b DEF Copy, ReaderStep
<1>8. CASE Copied \/ Finished
  BY <1>8 DEF Copied, Finished, ReaderStep
<1>9. ASSUME NEW start \in 0..MaxBytes, NEW length \in 0..MaxBytes,
             ServeRange(start, length) \/ ServePart(start, length)
      PROVE  (Stage \/ UNCHANGED intakeVars) /\ ReaderStep
  <2>1. start \in Nat
    BY <1>a
  <2>2. QED BY <1>9, <2>1 DEF ServeRange, ServePart, SeekFails, ReaderStep
<1>10. CASE UNCHANGED vars
  BY <1>10 DEF vars, ReaderStep, readerVars
<1>11. QED BY <1>1, <1>2, <1>3, <1>4, <1>5, <1>6, <1>7, <1>8, <1>9, <1>10
           DEF Next, Content

\* The page after bytes were added to it.
LEMMA Collects ==
    ASSUME page \in Pages, result' \in Results, NEW step, Collect(step),
           step \in {"inject", "copy", "whole", "partial", "error"},
           page.bytes + result'.count <= MaxBytes
    PROVE  /\ page' \in Pages
           /\ page'.step = step /\ page'.start = page.start
           /\ page'.promised = page.promised
           /\ page'.bytes = page.bytes + result'.count
           /\ page'.puts = IF result'.count > 0 THEN page.puts \cup {result'.put}
                                                ELSE page.puts
           /\ page'.ordered = (page.ordered /\ result'.from = page.start + page.bytes)
<1>1. /\ page'.step = step /\ page'.start = page.start
      /\ page'.promised = page.promised
      /\ page'.bytes = page.bytes + result'.count
      /\ page'.puts = IF result'.count > 0 THEN page.puts \cup {result'.put}
                                           ELSE page.puts
      /\ page'.ordered = (page.ordered /\ result'.from = page.start + page.bytes)
      /\ page'.name = page.name /\ page'.typed = page.typed
      /\ page'.multi = page.multi /\ page'.spare = page.spare
      /\ page' = [step |-> page'.step, name |-> page'.name, typed |-> page'.typed,
                  start |-> page'.start, promised |-> page'.promised,
                  bytes |-> page'.bytes, puts |-> page'.puts, ordered |-> page'.ordered,
                  multi |-> page'.multi, spare |-> page'.spare]
  BY DEF Collect, Pages
<1>2. page'.bytes \in 0..MaxBytes
  <2>1. page.bytes \in Nat /\ result'.count \in Nat /\ MaxBytes \in Nat
    BY ReaderFacts DEF Pages, Results
  <2>2. QED BY <1>1, <2>1
<1>3. page'.puts \subseteq 0..MaxPuts
  <2>1. page.puts \subseteq 0..MaxPuts /\ result'.put \in 0..MaxPuts
    BY DEF Pages, Results
  <2>2. QED BY <1>1, <2>1
<1>4. page'.ordered \in BOOLEAN
  BY <1>1
<1>5. QED BY <1>1, <1>2, <1>3, <1>4 DEF Pages

\* A page that goes on to another step.
LEMMA GoesOn ==
    ASSUME page \in Pages, NEW step, Goto(step),
           step \in {"rewind", "sniff", "range", "part", "partial", "error"}
    PROVE  /\ page' \in Pages
           /\ page'.step = step /\ page'.start = page.start
           /\ page'.bytes = page.bytes /\ page'.puts = page.puts
           /\ page'.ordered = page.ordered /\ page'.promised = page.promised
BY DEF Goto, Pages

\* One read of the response, by ReadAll or by CopyN.
LEMMA ReadingKeeps ==
    ASSUME ReaderInv, PageInv, page.step \in {"inject", "copy"},
           NEW max \in Nat, Read(max), NEW step, Collect(step),
           step \in {"inject", "copy", "whole", "partial", "error"},
           result'.err = "none" \/ step \notin {"inject", "copy"}
    PROVE  /\ page' \in Pages /\ page'.step = step
           /\ page'.start = page.start /\ page'.promised = page.promised
           /\ page'.bytes = page.bytes + result'.count
           /\ page'.bytes <= page.bytes + max
           /\ page'.ordered
           /\ \E put \in 0..MaxPuts : page'.puts \subseteq {put}
           /\ ~reader'.closed
           /\ reader'.position = page'.start + page'.bytes
           /\ reader'.position <= reader'.size
           /\ step \in {"inject", "copy"} =>
                \/ page'.puts = {}
                \/ reader'.body # None /\ page'.puts = {reader'.body.put}
           /\ result'.err = "eof" => reader'.position = reader'.size
<1>1. ~reader.closed /\ page \in Pages /\ page.ordered
  BY DEF PageInv
<1>2. /\ reader.position = page.start + page.bytes
      /\ reader.position <= reader.size
      /\ \/ page.puts = {}
         \/ reader.body # None /\ page.puts = {reader.body.put}
  BY DEF PageInv
<1>3. /\ result' \in Results /\ reader' \in Readers
      /\ result'.count <= max
      /\ result'.from = reader.position
      /\ reader'.size = reader.size /\ ~reader'.closed
      /\ reader'.position = reader.position + result'.count
      /\ reader'.position <= reader.size
      /\ result'.err = "eof" => reader'.position >= reader.size
      /\ (result'.count > 0 \/ result'.err = "none") /\ reader.body # None =>
           result'.put = reader.body.put
      /\ result'.err = "none" =>
           reader'.body # None /\ reader'.body.put = result'.put
  BY <1>1, <1>2, ReadReturns
<1>4. /\ page.start \in Nat /\ page.bytes \in Nat /\ result'.count \in Nat
      /\ reader.size \in 0..MaxBytes /\ MaxBytes \in Nat
      /\ reader.position \in Nat /\ reader'.position \in Nat
      /\ result'.put \in 0..MaxPuts
  BY <1>1, <1>3, ReaderFacts DEF Pages, Results, Readers, ReaderInv, ReaderTypeOK
<1>5. page.bytes + result'.count <= MaxBytes
  BY <1>2, <1>3, <1>4
<1>6. /\ page' \in Pages
      /\ page'.step = step /\ page'.start = page.start
      /\ page'.promised = page.promised
      /\ page'.bytes = page.bytes + result'.count
      /\ page'.puts = IF result'.count > 0 THEN page.puts \cup {result'.put}
                                           ELSE page.puts
      /\ page'.ordered = (page.ordered /\ result'.from = page.start + page.bytes)
  BY <1>1, <1>3, <1>5, Collects
<1>7. page'.ordered
  BY <1>1, <1>2, <1>3, <1>6
<1>8. result'.count = 0 \/ page.puts = {} \/ page.puts = {result'.put}
  BY <1>2, <1>3, <1>4
<1>9. \E put \in 0..MaxPuts : page'.puts \subseteq {put}
  <2>1. CASE result'.count > 0
    BY <2>1, <1>4, <1>6, <1>8
  <2>2. CASE result'.count = 0
    BY <2>2, <1>6 DEF PageInv
  <2>3. QED BY <1>4, <2>1, <2>2
<1>10. step \in {"inject", "copy"} =>
         \/ page'.puts = {}
         \/ reader'.body # None /\ page'.puts = {reader'.body.put}
  <2>1. SUFFICES ASSUME result'.err = "none"
        PROVE  \/ page'.puts = {}
               \/ reader'.body # None /\ page'.puts = {reader'.body.put}
    OBVIOUS
  <2>2. reader'.body # None /\ reader'.body.put = result'.put
    BY <1>3, <2>1
  <2>3. page.puts = {} \/ page.puts = {result'.put}
    BY <1>2, <1>3, <2>1
  <2>4. QED BY <1>6, <2>2, <2>3
<1>11. result'.err = "eof" => reader'.position = reader'.size
  BY <1>3, <1>4
<1>12. reader'.position = page'.start + page'.bytes
  <2>1. reader'.position = page.start + (page.bytes + result'.count)
    BY <1>2, <1>3, <1>4
  <2>2. QED BY <1>6, <2>1
<1>13. page'.bytes <= page.bytes + max
  <2>1. page.bytes + result'.count <= page.bytes + max
    BY <1>3, <1>4
  <2>2. QED BY <1>6, <2>1
<1>14. QED BY <1>3, <1>6, <1>7, <1>9, <1>10, <1>11, <1>12, <1>13

\* Every step keeps the page, if one is being answered, together with its reader.
LEMMA PageKeeps == ContentInv /\ [Next]_vars => PageInv'
<1> SUFFICES ASSUME ContentInv, [Next]_vars PROVE PageInv'
  OBVIOUS
<1>a. /\ MaxBytes \in Nat /\ MaxInject + 1 \in Nat /\ MaxPuts \in Nat
      /\ reader.size \in 0..MaxBytes /\ reader.position \in Nat
      /\ page \in Pages /\ page.bytes \in Nat /\ page.start \in Nat
      /\ page.promised \in Nat
      /\ PageInv /\ ReaderInv
  BY ReaderFacts, MaxInjectAssumption
     DEF ContentInv, PageInv, Pages, ReaderInv, ReaderTypeOK, Readers
<1>b. 0 \in 0..MaxPuts /\ 0 \in 0..MaxBytes
  BY <1>a
<1>1. CASE UNCHANGED <<reader, page>>
  BY <1>1, <1>a DEF PageInv
<1>2. ASSUME NEW name \in Names, NEW comments \in BOOLEAN,
             NEW type \in {"html", "other", "unknown"}, Request(name, comments, type)
      PROVE  PageInv'
  <2>1. /\ page'.step \in {"inject", "measure"} /\ page'.name \in Names
        /\ page'.typed \in BOOLEAN /\ page'.start = 0 /\ page'.promised = 0
        /\ page'.bytes = 0 /\ page'.puts = {} /\ page'.ordered = TRUE
        /\ page' \in Pages
    BY <1>2, <1>b DEF Request, NoPage, Pages
  <2>2. ~reader'.closed /\ reader'.position = 0 /\ reader'.size \in Nat
    <3>1. PICK p \in Paths : OpenObject(p)
      BY <1>2 DEF Request, Paths
    <3>2. object[p].size \in Nat
      BY <1>a DEF ReaderInv, ReaderTypeOK, Objects
    <3>3. QED BY <3>1, <3>2 DEF OpenObject
  <2>3. QED BY <2>1, <2>2, <1>b DEF PageInv
<1>3. CASE Inject
  <2>1. PICK step \in {"inject", "whole", "error"} :
          /\ Collect(step)
          /\ step = "inject" => result'.err = "none"
          /\ step = "whole" => result'.err = "eof"
    BY <1>3 DEF Inject
  <2>2. page.step = "inject" /\ Read(MaxInject + 1) /\ page.start = 0
    BY <1>3, <1>a DEF Inject, PageInv
  <2>3. /\ page' \in Pages /\ page'.step = step /\ page'.start = 0
        /\ page'.ordered
        /\ \E put \in 0..MaxPuts : page'.puts \subseteq {put}
        /\ ~reader'.closed
        /\ reader'.position = page'.start + page'.bytes
        /\ reader'.position <= reader'.size
        /\ step = "inject" => \/ page'.puts = {}
                              \/ reader'.body # None /\ page'.puts = {reader'.body.put}
        /\ step = "whole" => reader'.position = reader'.size
    BY <1>a, <2>1, <2>2, ReadingKeeps
  <2>4. page'.bytes = reader'.position
    BY <2>3 DEF Pages
  <2>5. QED BY <2>1, <2>3, <2>4 DEF PageInv
<1>4. CASE Measured \/ Rewind \/ Sniff
  <2>1. /\ page.step \in {"measure", "rewind", "sniff"}
        /\ \/ UNCHANGED page
           \/ Goto("rewind") \/ Goto("sniff") \/ Goto("error")
           \/ Goto("range") /\ Seek(0)
    BY <1>4 DEF Measured, Rewind, Sniff
  <2>2. ~reader.closed /\ page.bytes = 0 /\ page.start = 0 /\ page.puts = {}
    BY <1>a, <2>1 DEF PageInv
  <2>3. ~reader'.closed
    <3>1. CASE Read(MaxBytes)
      BY <3>1, <1>a, <2>2, ReadReturns
    <3>2. CASE \E target : Seek(target)
      BY <3>2, <1>a DEF Seek, ReaderInv, ReaderTypeOK, Readers
    <3>3. CASE SeekFails
      BY <3>3, <2>2 DEF SeekFails, readerVars
    <3>4. QED BY <1>4, <3>1, <3>2, <3>3 DEF Measured, Rewind, Sniff
  <2>4. CASE UNCHANGED page
    BY <2>1, <2>2, <2>3, <2>4, <1>a DEF PageInv
  <2>5. CASE Goto("rewind") \/ Goto("sniff") \/ Goto("error")
    <3>1. /\ page' \in Pages /\ page'.step \in {"rewind", "sniff", "error"}
          /\ page'.start = 0 /\ page'.bytes = 0 /\ page'.puts = {} /\ page'.ordered
      BY <2>2, <2>5, <1>a, GoesOn DEF PageInv
    <3>2. QED BY <3>1, <2>3, <1>b DEF PageInv
  <2>6. CASE Goto("range") /\ Seek(0)
    <3>1. /\ page' \in Pages /\ page'.step = "range"
          /\ page'.start = 0 /\ page'.bytes = 0 /\ page'.puts = {} /\ page'.ordered
      BY <2>2, <2>6, <1>a, GoesOn DEF PageInv
    <3>2. reader'.position = 0
      BY <2>6, <1>a DEF Seek, ReaderInv, ReaderTypeOK, Readers
    <3>3. QED BY <3>1, <3>2, <2>3, <1>b DEF PageInv
  <2>7. QED BY <2>1, <2>4, <2>5, <2>6
<1>5. CASE ServeWhole
  <2>1. /\ ~reader.closed /\ page.bytes = 0 /\ page.start = 0 /\ page.puts = {}
        /\ page.ordered /\ reader.position = 0
    BY <1>5, <1>a DEF ServeWhole, PageInv
  <2>2. /\ page' \in Pages /\ page'.step = "copy" /\ page'.promised = reader.size
        /\ page'.start = 0 /\ page'.bytes = 0 /\ page'.puts = {} /\ page'.ordered
        /\ reader' = reader
    BY <1>5, <2>1, <1>a DEF ServeWhole, Pages, readerVars
  <2>3. QED BY <2>1, <2>2, <1>a, <1>b DEF PageInv
<1>6. ASSUME NEW start \in 0..MaxBytes, NEW length \in 0..MaxBytes,
             ServeRange(start, length) \/ ServePart(start, length)
      PROVE  PageInv'
  <2>1. /\ ~reader.closed /\ page.ordered /\ start + length <= reader.size
        /\ page.step \in {"range", "part"}
        /\ page.step = "range" => page.bytes = 0 /\ page.puts = {}
        /\ page.step = "part" => length <= page.spare
    BY <1>6, <1>a DEF ServeRange, ServePart, InFile, PageInv
  <2>2. CASE SeekFails /\ (Goto("error") \/ Goto("partial"))
    <3>1. /\ page' \in Pages /\ page'.step \in {"error", "partial"}
          /\ page'.puts = page.puts /\ page'.ordered
      BY <2>1, <2>2, <1>a, GoesOn
    <3>2. ~reader'.closed
      BY <2>1, <2>2 DEF SeekFails, readerVars
    <3>3. \E put \in 0..MaxPuts : page'.puts \subseteq {put}
      BY <3>1, <1>a DEF PageInv
    <3>4. QED BY <3>1, <3>2, <3>3 DEF PageInv
  <2>3. CASE Seek(start) /\ page'.step = "copy"
    <3>1. start \in Nat /\ length \in Nat /\ length \in 0..MaxBytes /\ start <= reader.size
      BY <2>1, <1>a
    <3>2. page.spare \in 0..MaxBytes /\ (page.step = "part" => page.spare - length \in 0..MaxBytes)
      BY <2>1, <3>1, <1>a DEF Pages
    <3>3. /\ page' \in Pages /\ page'.promised = length
          /\ page'.start = start /\ page'.bytes = 0 /\ page'.puts = {} /\ page'.ordered
      <4>1. CASE ServeRange(start, length)
        BY <2>1, <2>3, <3>1, <4>1, <1>a DEF ServeRange, Goto, Pages
      <4>2. CASE ServePart(start, length)
        <5>1. page' = [page EXCEPT !.step = "copy", !.start = start,
                !.promised = length, !.bytes = 0, !.puts = {}, !.spare = @ - length]
          BY <2>3, <4>2, <1>a DEF ServePart, Goto, Pages
        <5>2. /\ page'.step = "copy" /\ page'.promised = length /\ page'.start = start
              /\ page'.bytes = 0 /\ page'.puts = {} /\ page'.ordered = page.ordered
              /\ page'.name = page.name /\ page'.typed = page.typed
              /\ page'.multi = page.multi /\ page'.spare = page.spare - length
          BY <5>1, <1>a DEF Pages
        <5>3. page.spare - length \in 0..MaxBytes
          BY <3>2, <4>2 DEF ServePart
        <5>4. page' \in Pages
          <6>1. page' = [step |-> page'.step, name |-> page'.name, typed |-> page'.typed,
                  start |-> page'.start, promised |-> page'.promised,
                  bytes |-> page'.bytes, puts |-> page'.puts, ordered |-> page'.ordered,
                  multi |-> page'.multi, spare |-> page'.spare]
            BY <5>1, <1>a DEF Pages
          <6>2. /\ page.name \in Names \cup {None} /\ page.typed \in BOOLEAN
                /\ page.ordered \in BOOLEAN /\ page.multi \in BOOLEAN
            BY <1>a DEF Pages
          <6>3. QED BY <3>1, <5>2, <5>3, <6>1, <6>2, <1>b DEF Pages
        <5>5. QED BY <2>1, <5>2, <5>4
      <4>3. QED BY <1>6, <4>1, <4>2
    <3>4. reader'.position = start /\ reader'.size = reader.size /\ ~reader'.closed
      BY <2>3, <1>a DEF Seek, ReaderInv, ReaderTypeOK, Readers
    <3>5. QED BY <2>3, <3>1, <3>3, <3>4, <1>b DEF PageInv
  <2>4. QED
    <3>1. \/ SeekFails /\ (Goto("error") \/ Goto("partial"))
          \/ Seek(start) /\ page'.step = "copy"
      BY <1>6, <1>a DEF ServeRange, ServePart, Pages
    <3>2. QED BY <3>1, <2>2, <2>3
<1>7. CASE Copy
  <2>1. PICK step \in {"copy", "partial"} :
          /\ Collect(step)
          /\ step = "copy" => result'.err = "none"
    BY <1>7 DEF Copy
  <2>2. /\ page.step = "copy" /\ Read(page.promised - page.bytes)
        /\ page.promised - page.bytes \in Nat
    BY <1>7, <1>a DEF Copy
  <2>3. /\ page' \in Pages /\ page'.step = step
        /\ page'.promised = page.promised
        /\ page'.bytes <= page.bytes + (page.promised - page.bytes)
        /\ page'.ordered
        /\ \E put \in 0..MaxPuts : page'.puts \subseteq {put}
        /\ ~reader'.closed
        /\ reader'.position = page'.start + page'.bytes
        /\ reader'.position <= reader'.size
        /\ step = "copy" => \/ page'.puts = {}
                            \/ reader'.body # None /\ page'.puts = {reader'.body.put}
    BY <1>a, <2>1, <2>2, ReadingKeeps
  <2>4. page.bytes + (page.promised - page.bytes) = page.promised
    BY <1>a
  <2>5. QED BY <2>1, <2>3, <2>4 DEF PageInv
<1>8. CASE Copied
  <2>1. /\ page.step = "copy" /\ (Goto("partial") \/ Goto("part"))
        /\ reader' = reader
    BY <1>8 DEF Copied, readerVars
  <2>2. /\ page' \in Pages /\ page'.step \in {"partial", "part"}
        /\ page'.puts = page.puts /\ page'.ordered = page.ordered
    BY <2>1, <1>a, GoesOn
  <2>3. QED BY <2>1, <2>2, <1>a DEF PageInv
<1>9. CASE Finished
  <2>1. page' = NoPage
    BY <1>9 DEF Finished
  <2>2. /\ page' \in Pages /\ page'.step = "idle" /\ page'.start = 0
        /\ page'.bytes = 0 /\ page'.puts = {} /\ page'.ordered
    BY <2>1, <1>b DEF NoPage, Pages
  <2>3. QED BY <2>2, <1>b DEF PageInv
<1>10. CASE StageStep \/ UNCHANGED vars
  BY <1>1, <1>10 DEF StageStep, vars, readerVars
<1>11. ASSUME NEW p \in Paths,
              PublishFile(p) \/ \E size \in 0..MaxBytes : Overwrite(p, size)
       PROVE  PageInv'
  BY <1>1, <1>11 DEF PublishFile, Overwrite, PutObject
<1>12. CASE ServeRanges
  <2>1. ~reader.closed /\ page.puts = {} /\ page.ordered
    BY <1>12, <1>a DEF ServeRanges, PageInv
  <2>2. /\ page' \in Pages /\ page'.step = "part" /\ page'.puts = {} /\ page'.ordered
        /\ reader' = reader
    BY <1>12, <2>1, <1>a DEF ServeRanges, Pages, readerVars
  <2>3. QED BY <2>1, <2>2, <1>b DEF PageInv
<1>13. QED BY <1>2, <1>3, <1>4, <1>5, <1>6, <1>7, <1>8, <1>9, <1>10, <1>11, <1>12
           DEF Next, Content

-----------------------------------------------------------------------------
(* Induction over the numbers, and what a fold over them is.  (The library's *)
(* induction theorems are about operators; these are about sets.)            *)

\* A set of natural numbers has a least one.
LEMMA LeastElement ==
    ASSUME NEW T \in SUBSET Nat, T # {}
    PROVE  \E n \in T : \A m \in T : n <= m
<1>1. \E x \in T : \A y \in T : ~(<<y, x>> \in OpToRel(<, Nat))
  BY NatLessThanWellFounded, WFMin
<1>2. PICK x \in T : \A y \in T : ~(<<y, x>> \in OpToRel(<, Nat))
  BY <1>1
<1>3. \A y \in T : ~(y < x)
  BY <1>2 DEF OpToRel
<1>4. QED BY <1>3

\* A set of numbers that has 0 and the next one of each has all ...
LEMMA InductionNat ==
    ASSUME NEW T, 0 \in T, \A n \in Nat : n \in T => n + 1 \in T
    PROVE  Nat \subseteq T
<1>1. SUFFICES ASSUME Nat \ T # {} PROVE FALSE
  OBVIOUS
<1>2. PICK n \in Nat \ T : \A m \in Nat \ T : n <= m
  BY <1>1, LeastElement
<1>3. n - 1 \in Nat /\ n - 1 \in T
  BY <1>2
<1>4. QED BY <1>2, <1>3

\* ... and one that does so up to n has all up to n.
LEMMA InductionUpTo ==
    ASSUME NEW n \in Nat, NEW T, 0 \in T,
           \A k \in 0..n - 1 : k \in T => k + 1 \in T
    PROVE  0..n \subseteq T
<1> DEFINE U == {k \in Nat : k <= n => k \in T}
<1>1. 0 \in U
  OBVIOUS
<1>2. \A k \in Nat : k \in U => k + 1 \in U
  OBVIOUS
<1>3. Nat \subseteq U
  <2> HIDE DEF U
  <2> QED BY <1>1, <1>2, InductionNat
<1>4. QED BY <1>3

\* Max is the greatest of the numbers it is asked for.
LEMMA MaxOf ==
    ASSUME NEW n \in Nat, NEW s \in SUBSET (1..n), s # {}
    PROVE  Max(s) \in s /\ \A x \in s : x <= Max(s)
<1> DEFINE T == {n - x : x \in s}
<1>1. T \in SUBSET Nat
  <2>1. ASSUME NEW x \in s PROVE n - x \in Nat
    <3>1. x \in 1..n
      OBVIOUS
    <3>2. QED BY <3>1
  <2>2. QED BY <2>1
<1>2. PICK k \in T : \A m \in T : k <= m
  <2>1. T # {}
    OBVIOUS
  <2> HIDE DEF T
  <2>2. QED BY <1>1, <2>1, LeastElement
<1>3. PICK y \in s : k = n - y
  OBVIOUS
<1>4. \A x \in s : x <= y
  <2>1. ASSUME NEW x \in s PROVE x <= y
    <3>1. k <= n - x
      BY <1>2
    <3>2. x \in 1..n /\ y \in 1..n
      OBVIOUS
    <3>3. QED BY <1>3, <3>1, <3>2
  <2>2. QED BY <2>1
<1>5. \A x \in s : x \in Nat
  <2>1. ASSUME NEW x \in s PROVE x \in Nat
    <3>1. x \in 1..n
      OBVIOUS
    <3>2. QED BY <3>1
  <2>2. QED BY <2>1
<1>6. \E z \in s : \A x \in s : z >= x
  BY <1>4, <1>5
<1> HIDE DEF T
<1>7. Max(s) \in s /\ \A x \in s : Max(s) >= x
  BY <1>6 DEF Max
<1>8. QED BY <1>5, <1>7

\* f is the fold of F over the numbers up to k, from the left.
FoldOf(f, k, base, F) ==
    \A s \in SUBSET (1..k) :
        f[s] = IF s = {} THEN base ELSE F[<<f[s \ {Max(s)}], Max(s)>>]

\* There is a fold over no numbers ...
LEMMA FoldStarts ==
    ASSUME NEW S, NEW base \in S, NEW F
    PROVE  \E f \in [SUBSET (1..0) -> S] : FoldOf(f, 0, base, F)
<1> DEFINE f == [s \in SUBSET (1..0) |-> base]
<1>1. f \in [SUBSET (1..0) -> S]
  OBVIOUS
<1>2. ASSUME NEW s \in SUBSET (1..0) PROVE s = {} /\ f[s] = base
  <2>1. 1..0 = {}
    OBVIOUS
  <2>2. QED BY <2>1
<1> HIDE DEF f
<1>3. FoldOf(f, 0, base, F)
  BY <1>2 DEF FoldOf
<1>4. QED BY <1>1, <1>3

\* ... one over a number more ...
LEMMA FoldGrows ==
    ASSUME NEW n \in Nat, NEW k \in 0..n - 1, NEW S, NEW base \in S,
           NEW F \in [S \X (1..n) -> S],
           NEW f \in [SUBSET (1..k) -> S], FoldOf(f, k, base, F)
    PROVE  \E g \in [SUBSET (1..k + 1) -> S] : FoldOf(g, k + 1, base, F)
<1> DEFINE D == SUBSET (1..k + 1)
           g == [s \in D |-> IF k + 1 \in s THEN F[<<f[s \ {k + 1}], k + 1>>] ELSE f[s]]
<1>1. ASSUME NEW s \in D, k + 1 \in s
      PROVE  s \ {k + 1} \in SUBSET (1..k) /\ Max(s) = k + 1
  <2>0. k + 1 \in Nat /\ s # {}
    BY <1>1
  <2>1. Max(s) \in s /\ k + 1 <= Max(s)
    BY <1>1, <2>0, MaxOf
  <2>2. Max(s) \in 1..k + 1
    BY <2>1
  <2>3. \A x \in 1..k + 1 : x # k + 1 => x \in 1..k
    OBVIOUS
  <2>4. QED BY <2>1, <2>2, <2>3
<1>2. ASSUME NEW s \in D, k + 1 \notin s
      PROVE  s \in SUBSET (1..k)
  <2>1. \A x \in 1..k + 1 : x # k + 1 => x \in 1..k
    OBVIOUS
  <2>2. QED BY <1>2, <2>1
<1>3. ASSUME NEW s \in D PROVE g[s] \in S
  <2>1. CASE k + 1 \in s
    <3>1. f[s \ {k + 1}] \in S /\ k + 1 \in 1..k + 1
      BY <1>1, <2>1
    <3>2. <<f[s \ {k + 1}], k + 1>> \in S \X (1..n)
      BY <3>1
    <3>3. F[<<f[s \ {k + 1}], k + 1>>] \in S
      BY <3>2
    <3>4. QED BY <2>1, <3>3
  <2>2. CASE k + 1 \notin s
    BY <1>2, <2>2
  <2>3. QED BY <2>1, <2>2
<1>4. ASSUME NEW s \in D
      PROVE  g[s] = IF s = {} THEN base ELSE F[<<g[s \ {Max(s)}], Max(s)>>]
  <2>1. CASE k + 1 \in s
    <3>1. Max(s) = k + 1 /\ s \ {k + 1} \in D
      BY <1>1, <2>1
    <3>2. g[s \ {k + 1}] = f[s \ {k + 1}]
      BY <3>1
    <3>3. g[s] = F[<<f[s \ {k + 1}], k + 1>>]
      BY <2>1
    <3> HIDE DEF g
    <3>4. QED BY <2>1, <3>1, <3>2, <3>3
  <2>2. CASE k + 1 \notin s
    <3>1. s \in SUBSET (1..k) /\ g[s] = f[s]
      BY <1>2, <2>2
    <3>2. s \ {Max(s)} \in D /\ k + 1 \notin s \ {Max(s)}
      BY <2>2
    <3>3. g[s \ {Max(s)}] = f[s \ {Max(s)}]
      BY <3>2
    <3> HIDE DEF g
    <3>4. QED BY <3>1, <3>3 DEF FoldOf
  <2>3. QED BY <2>1, <2>2
<1>5. g \in [D -> S]
  BY <1>3
<1> HIDE DEF g
<1>6. FoldOf(g, k + 1, base, F)
  BY <1>4 DEF FoldOf
<1>7. QED BY <1>5, <1>6

\* ... and so one over all of them.
LEMMA FoldExists ==
    ASSUME NEW n \in Nat, NEW S, NEW base \in S, NEW F \in [S \X (1..n) -> S]
    PROVE  \E f \in [SUBSET (1..n) -> S] : FoldOf(f, n, base, F)
<1> DEFINE T == {k \in 0..n : \E f \in [SUBSET (1..k) -> S] : FoldOf(f, k, base, F)}
<1>1. 0 \in T
  <2>1. \E f \in [SUBSET (1..0) -> S] : FoldOf(f, 0, base, F)
    BY FoldStarts
  <2>2. 0 \in 0..n
    OBVIOUS
  <2>3. QED BY <2>1, <2>2
<1>2. ASSUME NEW k \in 0..n - 1, k \in T PROVE k + 1 \in T
  <2>1. PICK f \in [SUBSET (1..k) -> S] : FoldOf(f, k, base, F)
    BY <1>2
  <2>2. \E g \in [SUBSET (1..k + 1) -> S] : FoldOf(g, k + 1, base, F)
    BY <2>1, FoldGrows
  <2>3. k + 1 \in 0..n
    OBVIOUS
  <2>4. QED BY <2>2, <2>3
<1>3. n \in T
  <2> HIDE DEF T
  <2>1. 0..n \subseteq T
    BY <1>1, <1>2, InductionUpTo
  <2>2. QED BY <2>1
<1>4. QED BY <1>3

-----------------------------------------------------------------------------
(* Names: where a path goes that was made of one.                          *)

\* A segment makes a path of a path.
LEMMA PushType ==
    ASSUME NEW path \in Seq(STRING), NEW segment \in STRING
    PROVE  Push(path, segment) \in Seq(STRING)
<1>1. Append(path, segment) \in Seq(STRING)
  BY AppendProperties
<1>2. path # <<>> => Front(path) \in Seq(STRING)
  <2>1. path # <<>> => Len(path) - 1 \in 0..Len(path)
    OBVIOUS
  <2>2. QED BY <2>1 DEF Front
<1>3. Push(path, segment) \in {path, Front(path), Append(path, segment)}
  BY DEF Push
<1>4. path = <<>> => Push(path, segment) \in {path, Append(path, segment)}
  BY Zenon DEF Push
<1>5. QED BY <1>1, <1>2, <1>3, <1>4

\* The first k numbers, without the last.
LEMMA Initial ==
    ASSUME NEW n \in Nat, NEW k \in 0..n - 1
    PROVE  /\ 1..k + 1 \in SUBSET (1..n)
           /\ 1..k + 1 # {}
           /\ Max(1..k + 1) = k + 1
           /\ (1..k + 1) \ {k + 1} = 1..k
<1>1. k + 1 \in Nat /\ k + 1 \in 1..k + 1 /\ 1..k + 1 \in SUBSET (1..k + 1)
  OBVIOUS
<1>2. Max(1..k + 1) \in 1..k + 1 /\ k + 1 <= Max(1..k + 1)
  BY <1>1, MaxOf
<1>3. Max(1..k + 1) = k + 1
  BY <1>2
<1>4. (1..k + 1) \ {k + 1} = 1..k
  OBVIOUS
<1>5. 1..k + 1 \in SUBSET (1..n)
  OBVIOUS
<1>6. QED BY <1>1, <1>3, <1>4, <1>5

\* Clean goes through a name from the left.
LEMMA CleanSteps ==
    ASSUME NEW name \in Seq(STRING)
    PROVE  \E path \in [0..Len(name) -> Seq(STRING)] :
             /\ path[0] = <<>>
             /\ \A k \in 0..Len(name) - 1 : path[k + 1] = Push(path[k], name[k + 1])
             /\ Clean(name) = path[Len(name)]
<1> DEFINE n == Len(name)
           D == SUBSET DOMAIN name
           F == [p \in Seq(STRING) \X (1..n) |-> Push(p[1], name[p[2]])]
           iter == CHOOSE iter : iter =
                     [s \in D |-> IF s = {} THEN <<>>
                                  ELSE Push(iter[s \ {Max(s)}], name[Max(s)])]
<1>0. n \in Nat /\ DOMAIN name = 1..n /\ <<>> \in Seq(STRING)
  OBVIOUS
<1>1. F \in [Seq(STRING) \X (1..n) -> Seq(STRING)]
  <2>1. ASSUME NEW p \in Seq(STRING) \X (1..n)
        PROVE  Push(p[1], name[p[2]]) \in Seq(STRING)
    <3>1. p[1] \in Seq(STRING) /\ p[2] \in 1..n
      OBVIOUS
    <3>2. name[p[2]] \in STRING
      BY <1>0, <3>1
    <3>3. QED BY <3>1, <3>2, PushType
  <2>2. QED BY <2>1
<1>2. PICK f \in [SUBSET (1..n) -> Seq(STRING)] : FoldOf(f, n, <<>>, F)
  <2> HIDE DEF F, n
  <2> QED BY <1>0, <1>1, FoldExists
<1>3. ASSUME NEW s \in D
      PROVE  f[s] = IF s = {} THEN <<>> ELSE Push(f[s \ {Max(s)}], name[Max(s)])
  <2>1. f[s] = IF s = {} THEN <<>> ELSE F[<<f[s \ {Max(s)}], Max(s)>>]
    BY <1>0, <1>2 DEF FoldOf
  <2>2. CASE s # {}
    <3>1. Max(s) \in 1..n
      BY <1>0, <2>2, MaxOf
    <3>2. <<f[s \ {Max(s)}], Max(s)>> \in Seq(STRING) \X (1..n)
      BY <1>0, <3>1
    <3>3. F[<<f[s \ {Max(s)}], Max(s)>>] = Push(f[s \ {Max(s)}], name[Max(s)])
      BY <3>2
    <3> HIDE DEF F
    <3>4. QED BY <2>1, <2>2, <3>3
  <2>3. QED BY <2>1, <2>2
<1>4. f = [s \in D |-> IF s = {} THEN <<>>
                       ELSE Push(f[s \ {Max(s)}], name[Max(s)])]
  BY <1>0, <1>3
<1>5. iter = [s \in D |-> IF s = {} THEN <<>>
                          ELSE Push(iter[s \ {Max(s)}], name[Max(s)])]
  BY <1>4
<1>6. Clean(name) = iter[DOMAIN name]
  BY DEF Clean, FoldLeft, MapThenFoldSet
<1> HIDE DEF iter
<1> DEFINE path == [k \in 0..n |-> iter[1..k]]
<1>7. path[0] = <<>> /\ Clean(name) = path[n]
  <2>1. 1..0 = {} /\ {} \in D
    OBVIOUS
  <2>2. iter[{}] = <<>>
    BY <1>5, <2>1
  <2>3. path[0] = iter[1..0] /\ path[n] = iter[1..n]
    BY <1>0
  <2>4. QED BY <1>0, <1>6, <2>1, <2>2, <2>3
<1>8. ASSUME NEW k \in 0..n - 1 PROVE path[k + 1] = Push(path[k], name[k + 1])
  <2> HIDE DEF n
  <2>1. /\ 1..k + 1 \in D /\ 1..k + 1 # {}
        /\ Max(1..k + 1) = k + 1 /\ (1..k + 1) \ {k + 1} = 1..k
    BY <1>0, Initial
  <2>2. iter[1..k + 1] = Push(iter[1..k], name[k + 1])
    BY <1>5, <2>1
  <2>3. k + 1 \in 0..n /\ k \in 0..n
    BY <1>0
  <2>4. QED BY <2>2, <2>3
<1>9. path \in [0..n -> Seq(STRING)]
  <2> HIDE DEF path
  <2> DEFINE T == {k \in 0..n : path[k] \in Seq(STRING)}
  <2>1. 0 \in T
    <3>1. 0 \in 0..n /\ path[0] \in Seq(STRING)
      BY <1>0, <1>7
    <3>2. QED BY <3>1
  <2>2. ASSUME NEW k \in 0..n - 1, k \in T PROVE k + 1 \in T
    <3>1. k + 1 \in 0..n /\ name[k + 1] \in STRING
      BY <1>0
    <3>2. QED BY <1>8, <2>2, <3>1, PushType
  <2>3. 0..n \subseteq T
    <3> HIDE DEF T, n
    <3> QED BY <1>0, <2>1, <2>2, InductionUpTo
  <2>4. QED BY <2>3 DEF path
<1> HIDE DEF path
<1>10. QED BY <1>7, <1>8, <1>9

\* How many of the first k numbers are in a set.
Count(A, k) == Cardinality((1..k) \cap A)

\* None of the first 0 numbers is ...
LEMMA CountStarts ==
    ASSUME NEW A PROVE Count(A, 0) = 0
<1>1. (1..0) \cap A = {}
  OBVIOUS
<1>2. QED BY <1>1, FS_EmptySet DEF Count

\* ... and the next one counts if it is in the set.
LEMMA CountGrows ==
    ASSUME NEW A, NEW k \in Nat
    PROVE  /\ Count(A, k) \in Nat
           /\ Count(A, k + 1) = IF k + 1 \in A THEN Count(A, k) + 1 ELSE Count(A, k)
<1>1. IsFiniteSet(1..k)
  BY FS_Interval
<1>2. IsFiniteSet((1..k) \cap A)
  BY <1>1, FS_Subset
<1>3. Count(A, k) \in Nat
  BY <1>2, FS_CardinalityType DEF Count
<1>4. CASE k + 1 \in A
  <2>1. (1..k + 1) \cap A = ((1..k) \cap A) \cup {k + 1}
    BY <1>4
  <2>2. k + 1 \notin (1..k) \cap A
    OBVIOUS
  <2>3. QED BY <1>2, <1>3, <1>4, <2>1, <2>2, FS_AddElement DEF Count
<1>5. CASE k + 1 \notin A
  <2>1. (1..k + 1) \cap A = (1..k) \cap A
    BY <1>5
  <2>2. QED BY <1>3, <1>5, <2>1 DEF Count
<1>6. QED BY <1>3, <1>4, <1>5

\* A path with no way up in it.
Level(path) == \A i \in 1..Len(path) : path[i] # ".."

\* What a segment does to a path, case by case.
LEMMA PushCases ==
    ASSUME NEW path \in Seq(STRING), NEW segment \in STRING
    PROVE  /\ segment \in {"", "."} => Push(path, segment) = path
           /\ segment = ".." /\ path # <<>> /\ path[Len(path)] # ".." =>
                Push(path, segment) = SubSeq(path, 1, Len(path) - 1)
           /\ segment \notin {"", ".", ".."} =>
                Push(path, segment) = Append(path, segment)
           /\ segment = ".." /\ (path = <<>> \/ path[Len(path)] = "..") =>
                Push(path, segment) = Append(path, segment)
BY DEF Push, Front, Last

\* Once a path goes up at its beginning it does so for ever.
LEMMA UpStays ==
    ASSUME NEW path \in Seq(STRING), NEW segment \in STRING,
           path # <<>>, path[1] = ".."
    PROVE  LET p == Push(path, segment) IN p # <<>> /\ p[1] = ".."
<1>1. CASE segment \in {"", "."}
  BY <1>1, PushCases
<1>2. CASE segment = ".." /\ path[Len(path)] # ".."
  <2>1. Push(path, segment) = SubSeq(path, 1, Len(path) - 1)
    BY <1>2, PushCases
  <2>2. Len(path) \in Nat /\ Len(path) > 1
    BY <1>2
  <2> DEFINE p == SubSeq(path, 1, Len(path) - 1)
  <2>3. Len(p) = Len(path) - 1 /\ p[1] = path[1]
    BY <2>2
  <2>4. p # <<>>
    BY <2>2, <2>3
  <2> HIDE DEF p
  <2>5. QED BY <2>1, <2>3, <2>4 DEF p
<1>3. CASE Push(path, segment) = Append(path, segment)
  BY <1>3, AppendProperties
<1>4. QED BY <1>1, <1>2, <1>3, PushCases

\* A path that does not go up is as long as the name has gone down more than up;
\* the next segment keeps that, or goes up too far.
LEMMA LevelStep ==
    ASSUME NEW path \in Seq(STRING), NEW segment \in STRING, Level(path)
    PROVE  LET p == Push(path, segment) IN
           \/ p # <<>> /\ p[1] = ".." /\ segment = ".." /\ Len(path) = 0
           \/ /\ Level(p)
              /\ Len(p) = IF segment = ".." THEN Len(path) - 1
                          ELSE IF segment \in {"", "."} THEN Len(path)
                          ELSE Len(path) + 1
<1>1. CASE segment \in {"", "."}
  BY <1>1, PushCases
<1>2. CASE segment = ".." /\ path # <<>>
  <2>1. Len(path) \in 1..Len(path) /\ Len(path) - 1 \in Nat
    BY <1>2
  <2>2. Push(path, segment) = SubSeq(path, 1, Len(path) - 1)
    BY <1>2, <2>1, PushCases DEF Level
  <2>3. QED BY <1>2, <2>1, <2>2 DEF Level
<1>3. CASE segment = ".." /\ path = <<>>
  <2>1. Push(path, segment) = Append(path, segment)
    BY <1>3, PushCases
  <2>2. QED BY <1>3, <2>1, AppendProperties
<1>4. CASE segment \notin {"", ".", ".."}
  <2>1. Push(path, segment) = Append(path, segment)
    BY <1>4, PushCases
  <2>2. /\ Len(Append(path, segment)) = Len(path) + 1
        /\ Append(path, segment)[Len(path) + 1] = segment
        /\ \A i \in 1..Len(path) : Append(path, segment)[i] = path[i]
    BY AppendProperties
  <2> DEFINE p == Append(path, segment)
  <2>3. Level(p)
    <3>1. ASSUME NEW i \in 1..Len(p) PROVE p[i] # ".."
      <4>1. i \in 1..Len(path) \/ i = Len(path) + 1
        BY <2>2
      <4>2. QED BY <1>4, <2>2, <4>1 DEF Level
    <3>2. QED BY <3>1 DEF Level
  <2>4. Len(p) = Len(path) + 1
    BY <2>2
  <2> HIDE DEF p
  <2>5. QED BY <1>4, <2>1, <2>3, <2>4 DEF p
<1>5. QED BY <1>1, <1>2, <1>3, <1>4

Ups(name) == {i \in DOMAIN name : name[i] = ".."}
Downs(name) == {i \in DOMAIN name : name[i] \notin {"..", ".", ""}}

\* A name whose clean path does not begin with a way up never goes up too far.
LEMMA CleanInside ==
    ASSUME NEW name \in Seq(STRING),
           ~(Clean(name) # <<>> /\ Clean(name)[1] = "..")
    PROVE  Level(Clean(name)) /\ ~Escapes(name)
<1> DEFINE n == Len(name)
           u == Ups(name)
           d == Downs(name)
<1>0. n \in Nat /\ DOMAIN name = 1..n
  OBVIOUS
<1>1. PICK path \in [0..n -> Seq(STRING)] :
        /\ path[0] = <<>>
        /\ \A k \in 0..n - 1 : path[k + 1] = Push(path[k], name[k + 1])
        /\ Clean(name) = path[n]
  BY CleanSteps
<1> DEFINE Up(k) == path[k] # <<>> /\ path[k][1] = ".."
           Balanced(k) == /\ Level(path[k])
                          /\ Len(path[k]) + Count(u, k) = Count(d, k)
                          /\ \A m \in 1..k : Count(u, m) <= Count(d, m)
           T == {k \in 0..n : Up(k) \/ Balanced(k)}
<1>2. 0 \in T
  <2>1. Count(u, 0) = 0 /\ Count(d, 0) = 0 /\ path[0] = <<>> /\ 0 \in 0..n
    BY <1>0, <1>1, CountStarts
  <2>2. Level(path[0]) /\ Len(path[0]) = 0
    BY <2>1 DEF Level
  <2>3. QED BY <2>1, <2>2
<1>3. ASSUME NEW k \in 0..n - 1, k \in T PROVE k + 1 \in T
  <2>n. k \in Nat /\ k \in 0..n /\ k + 1 \in 0..n /\ k + 1 \in 1..n
    BY <1>0
  <2>p. path[k] \in Seq(STRING) /\ path[k + 1] \in Seq(STRING)
    BY <2>n
  <2>0. /\ k + 1 \in 0..n /\ k + 1 \in DOMAIN name /\ name[k + 1] \in STRING
        /\ path[k] \in Seq(STRING) /\ path[k + 1] \in Seq(STRING) /\ k \in Nat
    <3> HIDE DEF n
    <3> QED BY <1>0, <2>n, <2>p
  <2>1. path[k + 1] = Push(path[k], name[k + 1])
    BY <1>1
  <2>2. CASE Up(k)
    <3>1. Up(k + 1)
      BY <2>0, <2>1, <2>2, UpStays
    <3>2. QED BY <2>0, <3>1
  <2>3. CASE Balanced(k)
    <3>1. /\ Count(u, k) \in Nat /\ Count(d, k) \in Nat
          /\ Count(u, k + 1) \in Nat /\ Count(d, k + 1) \in Nat
          /\ Count(u, k + 1) = IF k + 1 \in u THEN Count(u, k) + 1 ELSE Count(u, k)
          /\ Count(d, k + 1) = IF k + 1 \in d THEN Count(d, k) + 1 ELSE Count(d, k)
      <4> HIDE DEF u, d
      <4>1. k \in Nat /\ k + 1 \in Nat
        BY <2>0
      <4>2. QED BY <4>1, CountGrows
    <3>2. /\ k + 1 \in u <=> name[k + 1] = ".."
          /\ k + 1 \in d <=> name[k + 1] \notin {"..", ".", ""}
      BY <2>0 DEF Ups, Downs
    <3>3. CASE Up(k + 1)
      BY <2>0, <3>3
    <3>4. CASE /\ Level(path[k + 1])
               /\ Len(path[k + 1]) =
                    IF name[k + 1] = ".." THEN Len(path[k]) - 1
                    ELSE IF name[k + 1] \in {"", "."} THEN Len(path[k])
                    ELSE Len(path[k]) + 1
      <4>1. Len(path[k]) \in Nat /\ Len(path[k + 1]) \in Nat
        BY <2>0
      <4>2. Len(path[k]) + Count(u, k) = Count(d, k)
        BY <2>3
      <4>3. Len(path[k + 1]) + Count(u, k + 1) = Count(d, k + 1)
        <5>1. CASE name[k + 1] = ".."
          <6>1. /\ Count(u, k + 1) = Count(u, k) + 1
                /\ Count(d, k + 1) = Count(d, k)
                /\ Len(path[k + 1]) = Len(path[k]) - 1
            <7> HIDE DEF u, d
            <7> QED BY <3>1, <3>2, <3>4, <5>1
          <6>2. QED BY <3>1, <4>1, <4>2, <6>1
        <5>2. CASE name[k + 1] \in {"", "."}
          <6>1. /\ Count(u, k + 1) = Count(u, k)
                /\ Count(d, k + 1) = Count(d, k)
                /\ Len(path[k + 1]) = Len(path[k])
            <7> HIDE DEF u, d
            <7> QED BY <3>1, <3>2, <3>4, <5>2
          <6>2. QED BY <4>2, <6>1
        <5>3. CASE name[k + 1] \notin {"", ".", ".."}
          <6>1. /\ Count(u, k + 1) = Count(u, k)
                /\ Count(d, k + 1) = Count(d, k) + 1
                /\ Len(path[k + 1]) = Len(path[k]) + 1
            <7> HIDE DEF u, d
            <7> QED BY <3>1, <3>2, <3>4, <5>3
          <6>2. QED BY <3>1, <4>1, <4>2, <6>1
        <5>4. QED BY <5>1, <5>2, <5>3
      <4>4. Count(u, k + 1) <= Count(d, k + 1)
        BY <3>1, <4>1, <4>3
      <4>5. \A m \in 1..k + 1 : m \in 1..k \/ m = k + 1
        BY <2>0
      <4>6. \A m \in 1..k : Count(u, m) <= Count(d, m)
        BY <2>3
      <4>7. \A m \in 1..k + 1 : Count(u, m) <= Count(d, m)
        <5> HIDE DEF u, d
        <5> QED BY <4>4, <4>5, <4>6
      <4>8. Balanced(k + 1)
        BY <3>4, <4>3, <4>7
      <4>9. QED BY <2>0, <4>8
    <3>5. Level(path[k])
      BY <2>3
    <3>6. \/ Up(k + 1)
          \/ /\ Level(path[k + 1])
             /\ Len(path[k + 1]) =
                  IF name[k + 1] = ".." THEN Len(path[k]) - 1
                  ELSE IF name[k + 1] \in {"", "."} THEN Len(path[k])
                  ELSE Len(path[k]) + 1
      <4>1. /\ path[k] \in Seq(STRING) /\ name[k + 1] \in STRING
            /\ path[k + 1] = Push(path[k], name[k + 1])
        BY <2>0, <2>1
      <4>2. \/ Push(path[k], name[k + 1]) # <<>> /\ Push(path[k], name[k + 1])[1] = ".."
            \/ /\ Level(Push(path[k], name[k + 1]))
               /\ Len(Push(path[k], name[k + 1])) =
                    IF name[k + 1] = ".." THEN Len(path[k]) - 1
                    ELSE IF name[k + 1] \in {"", "."} THEN Len(path[k])
                    ELSE Len(path[k]) + 1
        <5> HIDE DEF u, d, T, Balanced
        <5> QED BY <3>5, <4>1, LevelStep
      <4>3. QED
        <5> HIDE DEF u, d, T, Balanced
        <5> QED BY <4>1, <4>2
    <3>7. QED BY <3>3, <3>4, <3>6
  <2>4. QED BY <1>3, <2>2, <2>3
<1>4. n \in T
  <2> HIDE DEF T, n
  <2>1. 0..n \subseteq T
    BY <1>0, <1>2, <1>3, InductionUpTo
  <2>2. QED BY <1>0, <2>1
<1>5. Balanced(n)
  BY <1>1, <1>4
<1>6. ASSUME NEW m \in DOMAIN name
      PROVE  /\ {i \in 1..m : name[i] = ".."} = (1..m) \cap u
             /\ {i \in 1..m : name[i] \notin {"..", ".", ""}} = (1..m) \cap d
  <2>1. \A i \in 1..m : i \in DOMAIN name
    BY <1>0
  <2>2. QED BY <2>1 DEF Ups, Downs
<1>7. ASSUME NEW m \in DOMAIN name
      PROVE  ~(Count(u, m) > Count(d, m))
  <2>1. m \in 1..n /\ m \in Nat
    BY <1>0
  <2>2. Count(u, m) <= Count(d, m)
    BY <1>5, <2>1
  <2>3. Count(u, m) \in Nat /\ Count(d, m) \in Nat
    BY <2>1, CountGrows
  <2>4. QED BY <2>2, <2>3
<1>8. ~Escapes(name)
  <2> HIDE DEF u, d
  <2>1. QED BY <1>6, <1>7 DEF Escapes, Count
<1>9. QED BY <1>1, <1>5, <1>8

\* A path with a segment more.
LEMMA Longer ==
    ASSUME NEW path \in Seq(STRING), NEW segment \in STRING
    PROVE  /\ Len(Append(path, segment)) = Len(path) + 1
           /\ Append(path, segment)[Len(path) + 1] = segment
           /\ \A i \in 1..Len(path) : Append(path, segment)[i] = path[i]
<1>1. Len(Append(path, segment)) = Len(path) + 1
  OBVIOUS
<1>2. Append(path, segment)[Len(path) + 1] = segment
  BY AppendProperties
<1>3. ASSUME NEW i \in 1..Len(path) PROVE Append(path, segment)[i] = path[i]
  BY AppendProperties
<1>4. QED BY <1>1, <1>2, <1>3

\* A path without its last segment.
LEMMA Shorter ==
    ASSUME NEW path \in Seq(STRING), path # <<>>
    PROVE  LET q == SubSeq(path, 1, Len(path) - 1) IN
           /\ Len(q) = Len(path) - 1
           /\ \A i \in 1..Len(path) - 1 : q[i] = path[i]
<1>1. Len(path) \in 1..Len(path) /\ Len(path) - 1 \in Nat
  OBVIOUS
<1> DEFINE n == Len(path) - 1
<1>2. Len(SubSeq(path, 1, n)) = n
  <2> n \in Nat
    BY <1>1
  <2> HIDE DEF n
  <2> QED OBVIOUS
<1>3. ASSUME NEW i \in 1..Len(path) - 1
      PROVE  SubSeq(path, 1, Len(path) - 1)[i] = path[i]
  BY <1>1
<1>4. QED BY <1>2, <1>3

\* What a clean path is made of: segments of the name that say something.
LEMMA CleanWords ==
    ASSUME NEW name \in Seq(STRING), NEW i \in 1..Len(Clean(name))
    PROVE  /\ Clean(name)[i] \notin {"", "."}
           /\ \E j \in 1..Len(name) : name[j] = Clean(name)[i]
<1> DEFINE n == Len(name)
           Words(p) == \A h \in 1..Len(p) : /\ p[h] \notin {"", "."}
                                            /\ \E j \in 1..n : name[j] = p[h]
<1>0. n \in Nat /\ name \in [1..n -> STRING]
  OBVIOUS
<1>1. PICK path \in [0..n -> Seq(STRING)] :
        /\ path[0] = <<>>
        /\ \A k \in 0..n - 1 : path[k + 1] = Push(path[k], name[k + 1])
        /\ Clean(name) = path[n]
  BY CleanSteps
<1> HIDE DEF n
<1> DEFINE T == {k \in 0..n : Words(path[k])}
<1>2. 0 \in T
  <2>1. Len(path[0]) = 0
    BY <1>1
  <2>2. Words(path[0]) /\ 0 \in 0..n
    BY <1>0, <2>1
  <2>3. QED BY <2>2
<1>3. ASSUME NEW k \in 0..n - 1, k \in T PROVE k + 1 \in T
  <2> DEFINE p == path[k]
             s == name[k + 1]
             q == path[k + 1]
  <2>n. k \in 0..n /\ k + 1 \in 0..n /\ k + 1 \in 1..n
    BY <1>0
  <2>t. p \in Seq(STRING) /\ s \in STRING
    BY <1>0, <2>n
  <2>p. q = Push(p, s) /\ Words(p)
    BY <1>1, <1>3
  <2>w. \E j \in 1..n : name[j] = s
    BY <2>n
  <2> HIDE DEF p, s, q
  <2>1. ASSUME Push(p, s) = p PROVE Words(q)
    BY <2>p, <2>1
  <2>2. ASSUME p # <<>>, Push(p, s) = SubSeq(p, 1, Len(p) - 1)
        PROVE  Words(q)
    <3>1. Len(p) - 1 \in Nat /\ Len(p) \in Nat /\ Len(p) - 1 <= Len(p)
      BY <2>t, <2>2
    <3>2. /\ Len(q) = Len(p) - 1
          /\ \A h \in 1..Len(p) - 1 : q[h] = p[h]
      <4>1. q = SubSeq(p, 1, Len(p) - 1)
        BY <2>p, <2>2
      <4> HIDE DEF Words, T
      <4>2. QED BY <2>t, <2>2, <4>1, Shorter
    <3>3. \A h \in 1..Len(p) - 1 : h \in 1..Len(p)
      BY <3>1
    <3>4. QED BY <2>p, <3>2, <3>3
  <2>3. ASSUME s \notin {"", "."}, Push(p, s) = Append(p, s)
        PROVE  Words(q)
    <3>1. /\ Len(q) = Len(p) + 1 /\ q[Len(p) + 1] = s
          /\ \A h \in 1..Len(p) : q[h] = p[h]
      <4>1. q = Append(p, s)
        BY <2>p, <2>3
      <4> HIDE DEF Words, T
      <4>2. /\ Len(Append(p, s)) = Len(p) + 1 /\ Append(p, s)[Len(p) + 1] = s
            /\ \A h \in 1..Len(p) : Append(p, s)[h] = p[h]
        BY <2>t, Longer
      <4>3. QED BY <4>1, <4>2
    <3>2. Len(p) \in Nat
      BY <2>t
    <3>3. \A h \in 1..Len(q) : h \in 1..Len(p) \/ h = Len(p) + 1
      BY <3>1, <3>2
    <3>4. QED BY <2>p, <2>w, <2>3, <3>1, <3>3
  <2>4. Words(q)
    <3> HIDE DEF Words
    <3>1. \/ Push(p, s) = p
          \/ p # <<>> /\ Push(p, s) = SubSeq(p, 1, Len(p) - 1)
          \/ s \notin {"", "."} /\ Push(p, s) = Append(p, s)
      BY <2>t, PushCases
    <3>2. QED BY <3>1, <2>1, <2>2, <2>3
  <2>5. QED BY <2>n, <2>4 DEF q
<1>4. n \in T
  <2> HIDE DEF T
  <2>1. 0..n \subseteq T
    BY <1>0, <1>2, <1>3, InductionUpTo
  <2>2. QED BY <1>0, <2>1
<1>5. QED BY <1>1, <1>4 DEF n
\* A path that says where to go down, and nothing else.
Plain(path) == \A i \in 1..Len(path) : path[i] \notin {"", ".", ".."}

\* Such a path is clean: it stays as it is.
LEMMA CleanPlain ==
    ASSUME NEW name \in Seq(STRING), Plain(name)
    PROVE  Clean(name) = name
<1> DEFINE n == Len(name)
<1>0. n \in Nat /\ name \in [1..n -> STRING]
  OBVIOUS
<1>1. PICK path \in [0..n -> Seq(STRING)] :
        /\ path[0] = <<>>
        /\ \A k \in 0..n - 1 : path[k + 1] = Push(path[k], name[k + 1])
        /\ Clean(name) = path[n]
  BY CleanSteps
<1>a. \A i \in 1..n : name[i] \notin {"", ".", ".."}
  BY DEF Plain
<1> HIDE DEF n
<1> DEFINE T == {k \in 0..n : /\ Len(path[k]) = k
                              /\ \A i \in 1..k : path[k][i] = name[i]}
<1>2. 0 \in T
  <2>1. Len(path[0]) = 0 /\ 0 \in 0..n
    BY <1>0, <1>1
  <2>2. QED BY <2>1
<1>3. ASSUME NEW k \in 0..n - 1, k \in T PROVE k + 1 \in T
  <2>1. k \in 0..n /\ k + 1 \in 0..n /\ k + 1 \in 1..n /\ k \in Nat
    BY <1>0
  <2>2. /\ path[k] \in Seq(STRING) /\ name[k + 1] \in STRING
        /\ name[k + 1] \notin {"", ".", ".."}
    BY <1>0, <1>a, <2>1
  <2>3. path[k + 1] = Append(path[k], name[k + 1])
    BY <1>1, <2>2, PushCases
  <2>4. Len(path[k]) = k /\ \A i \in 1..k : path[k][i] = name[i]
    BY <1>3
  <2>5. /\ Len(path[k + 1]) = k + 1
        /\ path[k + 1][k + 1] = name[k + 1]
        /\ \A i \in 1..k : path[k + 1][i] = path[k][i]
    <3> HIDE DEF T
    <3>1. /\ Len(Append(path[k], name[k + 1])) = Len(path[k]) + 1
          /\ Append(path[k], name[k + 1])[Len(path[k]) + 1] = name[k + 1]
          /\ \A i \in 1..Len(path[k]) : Append(path[k], name[k + 1])[i] = path[k][i]
      BY <2>2, Longer
    <3>2. Len(path[k]) = k
      BY <2>4
    <3>3. QED BY <2>3, <3>1, <3>2
  <2>6. \A i \in 1..k + 1 : i \in 1..k \/ i = k + 1
    BY <2>1
  <2>7. QED BY <2>1, <2>4, <2>5, <2>6
<1>4. n \in T
  <2> HIDE DEF T
  <2>1. 0..n \subseteq T
    BY <1>0, <1>2, <1>3, InductionUpTo
  <2>2. QED BY <1>0, <2>1
<1>5. /\ Clean(name) \in Seq(STRING) /\ Len(Clean(name)) = n
      /\ \A i \in 1..n : Clean(name)[i] = name[i]
  BY <1>0, <1>1, <1>4
<1>6. QED BY <1>5 DEF n

\* What is stored under a path opens under that path.
LEMMA PathsClean ==
    ASSUME NEW p \in Paths PROVE CleanRelative(p) = p
<1>1. PICK name \in Names : p = CleanRelative(name) /\ p # None
  BY DEF Paths
<1>2. name \in Seq(STRING)
  BY NamesAssumption
<1>3. /\ ~Contains(name, "NUL") /\ p = Clean(name)
      /\ p # <<>> /\ Head(p) # ".."
  BY <1>1 DEF CleanRelative
<1>4. p \in Seq(STRING)
  <2>1. Len(name) \in 0..Len(name)
    BY <1>2
  <2>2. QED BY <1>2, <1>3, <2>1, CleanSteps
<1>5. Len(p) \in Nat /\ Len(p) > 0 /\ Head(p) = p[1] /\ 1 \in 1..Len(p)
  BY <1>3, <1>4
<1>6. Level(p)
  BY <1>2, <1>3, <1>5, CleanInside
<1>7. ASSUME NEW i \in 1..Len(p)
      PROVE  /\ p[i] \notin {"", ".", ".."}
             /\ \E j \in 1..Len(name) : name[j] = p[i]
  BY <1>2, <1>3, <1>6, CleanWords DEF Level
<1>8. Clean(p) = p
  BY <1>4, <1>7, CleanPlain DEF Plain
<1>9. ~Contains(p, "NUL")
  BY <1>3, <1>7 DEF Contains
<1>10. Head(p) # ""
  BY <1>5, <1>7
<1>11. QED BY <1>3, <1>8, <1>9, <1>10 DEF CleanRelative

\* A name that opens a file does not lead out of files/.
LEMMA OpenedInside ==
    ASSUME NEW name \in Names, CleanRelative(name) # None
    PROVE  ~Escapes(name)
<1>1. name \in Seq(STRING)
  BY NamesAssumption
<1>2. Clean(name) # <<>> /\ Head(Clean(name)) # ".."
  BY DEF CleanRelative
<1>3. Clean(name) \in Seq(STRING)
  <2>1. Len(name) \in 0..Len(name)
    BY <1>1
  <2>2. QED BY <1>1, <2>1, CleanSteps
<1>4. QED BY <1>1, <1>2, <1>3, CleanInside

-----------------------------------------------------------------------------
(* injectBridge: the scan of a document, and what is blanked for it.       *)

\* The state of the scan behind each of the first n tokens, as the set of the
\* offsets where a comment is open.
OpenSet(doc, n, O) ==
    /\ O \subseteq 0..n
    /\ 0 \notin O
    /\ \A k \in 0..n - 1 :
         /\ k \in O => (k + 1 \in O <=> doc[k + 1] # "-->")
         /\ k \notin O => (k + 1 \in O <=> doc[k + 1] = "<!--")

\* CommentOpen scans a document from the left.
LEMMA OpenSteps ==
    ASSUME NEW doc \in Seq(Tokens), NEW n \in 0..Len(doc)
    PROVE  \E O : OpenSet(doc, n, O) /\ (CommentOpen(doc, n) <=> n \in O)
<1> DEFINE seq == SubSeq(doc, 1, n)
           D == SUBSET DOMAIN seq
           After(open, token) == IF open THEN token # "-->" ELSE token = "<!--"
           F == [p \in BOOLEAN \X (1..n) |-> After(p[1], seq[p[2]])]
           iter == CHOOSE iter : iter =
                     [s \in D |-> IF s = {} THEN FALSE
                                  ELSE After(iter[s \ {Max(s)}], seq[Max(s)])]
<1>0. n \in Nat /\ DOMAIN seq = 1..n /\ \A i \in 1..n : seq[i] = doc[i]
  OBVIOUS
<1>1. F \in [BOOLEAN \X (1..n) -> BOOLEAN]
  OBVIOUS
<1>2. PICK f \in [SUBSET (1..n) -> BOOLEAN] : FoldOf(f, n, FALSE, F)
  <2> HIDE DEF F
  <2> QED BY <1>0, <1>1, FoldExists
<1> HIDE DEF seq
<1>3. ASSUME NEW s \in D
      PROVE  f[s] = IF s = {} THEN FALSE ELSE After(f[s \ {Max(s)}], seq[Max(s)])
  <2> HIDE DEF After
  <2>1. f[s] = IF s = {} THEN FALSE ELSE F[<<f[s \ {Max(s)}], Max(s)>>]
    BY <1>0, <1>2 DEF FoldOf
  <2>2. CASE s # {}
    <3>1. Max(s) \in 1..n /\ s \ {Max(s)} \in SUBSET (1..n)
      BY <1>0, <2>2, MaxOf
    <3>2. <<f[s \ {Max(s)}], Max(s)>> \in BOOLEAN \X (1..n)
      BY <1>0, <3>1
    <3>3. F[<<f[s \ {Max(s)}], Max(s)>>] = After(f[s \ {Max(s)}], seq[Max(s)])
      BY <3>2
    <3> HIDE DEF F
    <3>4. QED BY <2>1, <2>2, <3>3
  <2>3. QED BY <2>1, <2>2
<1>4. f = [s \in D |-> IF s = {} THEN FALSE
                       ELSE After(f[s \ {Max(s)}], seq[Max(s)])]
  <2> HIDE DEF After
  <2> QED BY <1>0, <1>3
<1>5. iter = [s \in D |-> IF s = {} THEN FALSE
                          ELSE After(iter[s \ {Max(s)}], seq[Max(s)])]
  <2> HIDE DEF After
  <2> QED BY <1>4
<1>6. CommentOpen(doc, n) = iter[DOMAIN seq]
  BY DEF CommentOpen, FoldLeft, MapThenFoldSet, seq
<1> HIDE DEF iter
<1>7. iter[1..0] = FALSE
  <2>1. 1..0 = {} /\ {} \in D
    OBVIOUS
  <2>2. QED BY <1>5, <2>1
<1>8. ASSUME NEW k \in 0..n - 1
      PROVE  iter[1..k + 1] = After(iter[1..k], doc[k + 1])
  <2> HIDE DEF After
  <2>1. /\ 1..k + 1 \in D /\ 1..k + 1 # {}
        /\ Max(1..k + 1) = k + 1 /\ (1..k + 1) \ {k + 1} = 1..k
    BY <1>0, Initial
  <2>2. iter[1..k + 1] = After(iter[1..k], seq[k + 1])
    BY <1>5, <2>1
  <2>3. k + 1 \in 1..n
    BY <1>0
  <2>4. QED BY <1>0, <2>2, <2>3
<1> DEFINE O == {k \in 0..n : iter[1..k]}
<1>9. O \subseteq 0..n /\ 0 \notin O
  BY <1>7
<1>10. ASSUME NEW k \in 0..n - 1
       PROVE  /\ k \in O => (k + 1 \in O <=> doc[k + 1] # "-->")
              /\ k \notin O => (k + 1 \in O <=> doc[k + 1] = "<!--")
  <2>1. k \in 0..n /\ k + 1 \in 0..n
    BY <1>0
  <2>2. /\ k \in O <=> iter[1..k]
        /\ k + 1 \in O <=> iter[1..k + 1]
    BY <2>1
  <2>3. /\ iter[1..k] => (iter[1..k + 1] <=> doc[k + 1] # "-->")
        /\ ~iter[1..k] => (iter[1..k + 1] <=> doc[k + 1] = "<!--")
    BY <1>8
  <2>4. QED BY <2>2, <2>3
<1>11. CommentOpen(doc, n) <=> n \in O
  <2>1. n \in 0..n
    BY <1>0
  <2>2. QED BY <1>0, <1>6, <2>1
<1> HIDE DEF O
<1>12. QED BY <1>9, <1>10, <1>11 DEF OpenSet

\* What the scan finds up to m it finds as well when it goes on to n.
LEMMA OpenAgree ==
    ASSUME NEW doc, NEW m \in Nat, NEW n \in Nat, m <= n,
           NEW P, OpenSet(doc, m, P), NEW O, OpenSet(doc, n, O)
    PROVE  \A k \in 0..m : k \in P <=> k \in O
<1> DEFINE T == {k \in 0..m : k \in P <=> k \in O}
<1>1. 0 \in T
  BY DEF OpenSet
<1>2. ASSUME NEW k \in 0..m - 1, k \in T PROVE k + 1 \in T
  <2>1. k \in 0..n - 1 /\ k + 1 \in 0..m
    OBVIOUS
  <2>2. k \in P <=> k \in O
    BY <1>2
  <2>3. k + 1 \in P <=> k + 1 \in O
    BY <2>1, <2>2 DEF OpenSet
  <2>4. QED BY <2>1, <2>3
<1>3. 0..m \subseteq T
  <2> HIDE DEF T
  <2> QED BY <1>1, <1>2, InductionUpTo
<1>4. QED BY <1>3

\* One scan tells of every offset whether a comment is open there.
LEMMA OpenEverywhere ==
    ASSUME NEW doc \in Seq(Tokens)
    PROVE  \E O : /\ OpenSet(doc, Len(doc), O)
                  /\ \A n \in 0..Len(doc) : CommentOpen(doc, n) <=> n \in O
<1>1. Len(doc) \in Nat /\ Len(doc) \in 0..Len(doc)
  OBVIOUS
<1>2. PICK O : OpenSet(doc, Len(doc), O)
  BY <1>1, OpenSteps
<1>3. ASSUME NEW n \in 0..Len(doc)
      PROVE  CommentOpen(doc, n) <=> n \in O
  <2>1. PICK P : OpenSet(doc, n, P) /\ (CommentOpen(doc, n) <=> n \in P)
    BY OpenSteps
  <2>2. n \in Nat /\ n <= Len(doc) /\ n \in 0..n
    BY <1>1
  <2>3. n \in P <=> n \in O
    BY <1>1, <1>2, <2>1, <2>2, OpenAgree
  <2>4. QED BY <2>1, <2>3
<1>4. QED BY <1>2, <1>3

\* Min is the least of the numbers it is asked for.
LEMMA MinOf ==
    ASSUME NEW s \in SUBSET Nat, s # {}
    PROVE  Min(s) \in s /\ \A x \in s : Min(s) <= x
<1>1. \E x \in s : \A y \in s : x <= y
  BY LeastElement
<1>2. QED BY <1>1 DEF Min

\* Index finds the first place of a token, if there is one.
LEMMA IndexFinds ==
    ASSUME NEW doc \in Seq(Tokens), NEW token, NEW from \in Nat \ {0}
    PROVE  \/ /\ Index(doc, token, from) = 0
              /\ \A i \in from..Len(doc) : doc[i] # token
           \/ /\ Index(doc, token, from) \in from..Len(doc)
              /\ doc[Index(doc, token, from)] = token
              /\ \A i \in from..Index(doc, token, from) - 1 : doc[i] # token
<1> DEFINE found == {i \in from..Len(doc) : doc[i] = token}
<1>0. Len(doc) \in Nat
  OBVIOUS
<1>1. CASE found = {}
  <2>1. Index(doc, token, from) = 0
    BY <1>1 DEF Index
  <2>2. QED BY <1>1, <2>1
<1>2. CASE found # {}
  <2>1. Index(doc, token, from) = Min(found)
    BY <1>2 DEF Index
  <2>2. found \in SUBSET Nat
    BY <1>0
  <2>3. Min(found) \in found /\ \A x \in found : Min(found) <= x
    <3> HIDE DEF found
    <3> QED BY <1>2, <2>2, MinOf
  <2> DEFINE m == Min(found)
  <2>4. m \in from..Len(doc) /\ doc[m] = token
    BY <2>3
  <2>5. ASSUME NEW i \in from..m - 1 PROVE doc[i] # token
    <3>1. i \in from..Len(doc) /\ ~(m <= i)
      BY <1>0, <2>4
    <3>2. i \notin found
      BY <2>3, <3>1
    <3>3. QED BY <3>1, <3>2
  <2> HIDE DEF m
  <2>6. QED BY <2>1, <2>4, <2>5 DEF m
<1>3. QED BY <1>1, <1>2

\* No comment opens where none begins ...
LEMMA StaysClosed ==
    ASSUME NEW doc, NEW n \in Nat, NEW O, OpenSet(doc, n, O),
           NEW a \in 0..n, NEW b \in 0..n, a \notin O,
           \A i \in a + 1..b : doc[i] # "<!--"
    PROVE  \A i \in a..b : i \notin O
<1> SUFFICES ASSUME a <= b PROVE \A i \in a..b : i \notin O
  OBVIOUS
<1> DEFINE T == {k \in 0..b - a : a + k \notin O}
<1>1. 0 \in T
  OBVIOUS
<1>2. ASSUME NEW k \in 0..b - a - 1, k \in T PROVE k + 1 \in T
  <2>1. /\ a + k \in 0..n - 1 /\ a + (k + 1) = (a + k) + 1
        /\ (a + k) + 1 \in a + 1..b /\ k + 1 \in 0..b - a
    OBVIOUS
  <2>2. a + k \notin O
    BY <1>2
  <2>3. (a + k) + 1 \notin O
    BY <2>1, <2>2 DEF OpenSet
  <2>4. QED BY <2>1, <2>3
<1>3. 0..b - a \subseteq T
  <2>1. b - a \in Nat
    OBVIOUS
  <2> HIDE DEF T
  <2>2. QED BY <1>1, <1>2, <2>1, InductionUpTo
<1>4. ASSUME NEW i \in a..b PROVE i \notin O
  <2>1. i - a \in 0..b - a /\ a + (i - a) = i
    OBVIOUS
  <2>2. i - a \in T
    BY <1>3, <2>1
  <2>3. QED BY <2>1, <2>2
<1>5. QED BY <1>4

\* ... and none closes before its end.
LEMMA StaysOpen ==
    ASSUME NEW doc, NEW n \in Nat, NEW O, OpenSet(doc, n, O),
           NEW a \in 0..n, NEW b \in 0..n, a \in O,
           \A i \in a + 1..b : doc[i] # "-->"
    PROVE  \A i \in a..b : i \in O
<1> SUFFICES ASSUME a <= b PROVE \A i \in a..b : i \in O
  OBVIOUS
<1> DEFINE T == {k \in 0..b - a : a + k \in O}
<1>1. 0 \in T
  OBVIOUS
<1>2. ASSUME NEW k \in 0..b - a - 1, k \in T PROVE k + 1 \in T
  <2>1. /\ a + k \in 0..n - 1 /\ a + (k + 1) = (a + k) + 1
        /\ (a + k) + 1 \in a + 1..b /\ k + 1 \in 0..b - a
    OBVIOUS
  <2>2. a + k \in O
    BY <1>2
  <2>3. (a + k) + 1 \in O
    BY <2>1, <2>2 DEF OpenSet
  <2>4. QED BY <2>1, <2>3
<1>3. 0..b - a \subseteq T
  <2>1. b - a \in Nat
    OBVIOUS
  <2> HIDE DEF T
  <2>2. QED BY <1>1, <1>2, <2>1, InductionUpTo
<1>4. ASSUME NEW i \in a..b PROVE i \in O
  <2>1. i - a \in 0..b - a /\ a + (i - a) = i
    OBVIOUS
  <2>2. i - a \in T
    BY <1>3, <2>1
  <2>3. QED BY <2>1, <2>2
<1>5. QED BY <1>4

\* One comment, as BlankComments looks for it: its start, and the end of what it
\* blanks.
CommentStart(doc, from) == Index(doc, "<!--", from)
CommentEnd(doc, from) ==
    LET close == Index(doc, "-->", CommentStart(doc, from) + 1)
    IN  IF close = 0 THEN Len(doc) ELSE close

\* Where a comment starts and ends, and that the scan agrees.
LEMMA OneComment ==
    ASSUME NEW doc \in Seq(Tokens), NEW from \in 1..Len(doc) + 1,
           NEW O, OpenSet(doc, Len(doc), O), from - 1 \notin O
    PROVE  \/ /\ CommentStart(doc, from) = 0
              /\ \A i \in from..Len(doc) : i - 1 \notin O /\ i \notin O
           \/ /\ CommentStart(doc, from) \in from..Len(doc)
              /\ CommentEnd(doc, from) \in CommentStart(doc, from)..Len(doc)
              /\ \A i \in from..CommentStart(doc, from) - 1 : i - 1 \notin O /\ i \notin O
              /\ \A i \in CommentStart(doc, from)..CommentEnd(doc, from) :
                   i - 1 \in O \/ i \in O
              /\ CommentEnd(doc, from) \notin O \/ CommentEnd(doc, from) = Len(doc)
<1> DEFINE n == Len(doc)
           s == CommentStart(doc, from)
           e == CommentEnd(doc, from)
           c == Index(doc, "-->", s + 1)
<1>0. n \in Nat
  OBVIOUS
<1> HIDE DEF n, s, e, c
<1>1. \/ s = 0 /\ \A i \in from..n : doc[i] # "<!--"
      \/ /\ s \in from..n /\ doc[s] = "<!--"
         /\ \A i \in from..s - 1 : doc[i] # "<!--"
  <2>1. from \in Nat \ {0}
    BY <1>0 DEF n
  <2>2. QED BY <2>1, IndexFinds DEF CommentStart, s, n
<1>2. from - 1 \in 0..n /\ from \in 1..n + 1
  BY <1>0 DEF n
<1>3. CASE s = 0
  <2>1. n \in 0..n /\ \A i \in (from - 1) + 1..n : doc[i] # "<!--"
    BY <1>0, <1>1, <1>2, <1>3
  <2>2. \A i \in from - 1..n : i \notin O
    <3>1. OpenSet(doc, n, O)
      BY DEF n
    <3>2. QED BY <1>0, <1>2, <2>1, <3>1, StaysClosed
  <2>3. ASSUME NEW i \in from..n PROVE i - 1 \notin O /\ i \notin O
    <3>1. i \in from - 1..n /\ i - 1 \in from - 1..n
      BY <1>0, <1>2
    <3>2. QED BY <2>2, <3>1
  <2>4. QED BY <1>3, <2>3 DEF s, n
<1>4. CASE s \in from..n /\ doc[s] = "<!--" /\ \A i \in from..s - 1 : doc[i] # "<!--"
  <2>o. OpenSet(doc, n, O)
    BY DEF n
  <2>1. s \in Nat \ {0} /\ s - 1 \in 0..n - 1 /\ s - 1 \in 0..n /\ s \in 0..n
    BY <1>0, <1>2, <1>4
  <2>2. \A i \in from - 1..s - 1 : i \notin O
    <3>1. \A i \in (from - 1) + 1..s - 1 : doc[i] # "<!--"
      BY <1>2, <1>4
    <3>2. n \in Nat /\ from - 1 \in 0..n /\ s - 1 \in 0..n /\ from - 1 \notin O
      BY <1>0, <1>2, <2>1
    <3>3. QED BY <2>o, <3>1, <3>2, StaysClosed
  <2>3. ASSUME NEW i \in from..s - 1 PROVE i - 1 \notin O /\ i \notin O
    <3>1. i \in from - 1..s - 1 /\ i - 1 \in from - 1..s - 1
      BY <1>0, <1>2, <2>1
    <3>2. QED BY <2>2, <3>1
  <2>4. s \in O
    <3>1. s - 1 \notin O /\ (s - 1) + 1 = s
      BY <1>2, <1>4, <2>1, <2>2
    <3>2. QED BY <1>4, <2>o, <2>1, <3>1 DEF OpenSet
  <2>5. \/ c = 0 /\ \A i \in s + 1..n : doc[i] # "-->"
        \/ /\ c \in s + 1..n /\ doc[c] = "-->"
           /\ \A i \in s + 1..c - 1 : doc[i] # "-->"
    <3>1. s + 1 \in Nat \ {0}
      BY <2>1
    <3>2. QED BY <3>1, IndexFinds DEF c, n
  <2>6. e = IF c = 0 THEN n ELSE c
    BY DEF CommentEnd, e, c, n, s
  <2>7. CASE c = 0
    <3>1. n \in 0..n
      BY <1>0
    <3>2. \A i \in s..n : i \in O
      BY <1>0, <2>o, <2>1, <2>4, <2>5, <2>7, <3>1, StaysOpen
    <3>3. e = n /\ e \in s..n
      BY <1>0, <1>4, <2>1, <2>6, <2>7
    <3>4. QED BY <1>4, <2>3, <3>2, <3>3 DEF s, e, n
  <2>8. CASE c \in s + 1..n /\ doc[c] = "-->" /\ \A i \in s + 1..c - 1 : doc[i] # "-->"
    <3>1. /\ c - 1 \in 0..n /\ c - 1 \in 0..n - 1 /\ c - 1 \in s..c - 1
          /\ c # 0 /\ (c - 1) + 1 = c
      BY <1>0, <2>1, <2>8
    <3>2. \A i \in s..c - 1 : i \in O
      BY <1>0, <2>o, <2>1, <2>4, <2>8, <3>1, StaysOpen
    <3>3. c \notin O
      BY <2>o, <2>8, <3>1, <3>2 DEF OpenSet
    <3>4. e = c /\ e \in s..n
      BY <1>0, <2>1, <2>6, <2>8, <3>1
    <3>5. ASSUME NEW i \in s..e PROVE i - 1 \in O \/ i \in O
      <4>1. i \in s..c - 1 \/ i - 1 \in s..c - 1
        BY <2>1, <2>8, <3>4
      <4>2. QED BY <3>2, <4>1
    <3>6. QED BY <1>4, <2>3, <3>3, <3>4, <3>5 DEF s, e, n
  <2>9. QED BY <2>5, <2>7, <2>8
<1>5. QED BY <1>1, <1>3, <1>4

\* A comment lies behind the place it is looked for from.
LEMMA CommentLies ==
    ASSUME NEW doc \in Seq(Tokens), NEW from \in 1..Len(doc) + 1
    PROVE  \/ CommentStart(doc, from) = 0
           \/ /\ from \in 1..Len(doc)
              /\ CommentStart(doc, from) \in from..Len(doc)
              /\ CommentEnd(doc, from) \in CommentStart(doc, from)..Len(doc)
<1> DEFINE n == Len(doc)
           s == CommentStart(doc, from)
           e == CommentEnd(doc, from)
           c == Index(doc, "-->", s + 1)
<1>0. n \in Nat
  OBVIOUS
<1> HIDE DEF n, s, e, c
<1>1. s = 0 \/ s \in from..n
  <2>1. from \in Nat \ {0}
    BY <1>0 DEF n
  <2>2. QED BY <2>1, IndexFinds DEF CommentStart, s, n
<1>2. CASE s \in from..n
  <2>1. from \in 1..n /\ s + 1 \in Nat \ {0} /\ s \in s..n /\ n \in s..n
    BY <1>0, <1>2 DEF n
  <2>2. c = 0 \/ c \in s + 1..n
    BY <2>1, IndexFinds DEF c, n
  <2>3. e = IF c = 0 THEN n ELSE c
    BY DEF CommentEnd, e, c, n, s
  <2>4. e \in s..n
    BY <1>0, <2>1, <2>2, <2>3
  <2>5. QED BY <1>2, <2>1, <2>4 DEF n, s, e
<1>3. QED BY <1>1, <1>2 DEF s

\* What BlankComments blanks from a place on, g being known behind it.
BlankFrom(doc, g, from) ==
    IF CommentStart(doc, from) = 0 THEN {}
    ELSE (CommentStart(doc, from)..CommentEnd(doc, from)) \cup g[CommentEnd(doc, from) + 1]

\* The recursion ends: there is such a function.
LEMMA BlankExists ==
    ASSUME NEW doc \in Seq(Tokens)
    PROVE  \E g : g = [from \in 1..Len(doc) + 1 |-> BlankFrom(doc, g, from)]
<1> DEFINE n == Len(doc)
           Good(k, g) == \A from \in n + 1 - k..n + 1 : g[from] = BlankFrom(doc, g, from)
           T == {k \in 0..n : \E g : Good(k, g)}
<1>0. n \in Nat
  OBVIOUS
<1> HIDE DEF n
<1>1. 0 \in T
  <2>1. n + 1 \in 1..n + 1 /\ n + 1 \notin 1..n
    BY <1>0
  <2>2. CommentStart(doc, n + 1) = 0
    BY <2>1, CommentLies DEF n
  <2> DEFINE g == [from \in {n + 1} |-> {}]
  <2>3. \A from \in n + 1 - 0..n + 1 : from = n + 1
    BY <1>0
  <2>4. Good(0, g)
    BY <2>2, <2>3 DEF BlankFrom
  <2>5. 0 \in 0..n
    BY <1>0
  <2>6. QED BY <2>4, <2>5
<1>2. ASSUME NEW k \in 0..n - 1, k \in T PROVE k + 1 \in T
  <2>1. PICK f : Good(k, f)
    BY <1>2
  <2> DEFINE first == n + 1 - (k + 1)
             g == [from \in first..n + 1 |->
                     IF from = first THEN BlankFrom(doc, f, first) ELSE f[from]]
  <2>2. /\ first \in 1..n + 1 /\ first \in Nat /\ k + 1 \in 0..n
        /\ n + 1 - k = first + 1 /\ first \in first..n + 1
    BY <1>0
  <2>3. ASSUME NEW from \in first..n + 1 PROVE g[from] = BlankFrom(doc, g, from)
    <3> HIDE DEF first
    <3>1. from \in 1..n + 1
      BY <2>2
    <3>2. ASSUME CommentStart(doc, from) # 0 
          PROVE  g[CommentEnd(doc, from) + 1] = f[CommentEnd(doc, from) + 1]
      <4>1. /\ CommentStart(doc, from) \in from..n
            /\ CommentEnd(doc, from) \in CommentStart(doc, from)..n
        BY <3>1, <3>2, CommentLies DEF n
      <4>2. CommentEnd(doc, from) + 1 \in first..n + 1 /\ CommentEnd(doc, from) + 1 # first
        BY <1>0, <2>2, <4>1
      <4>3. QED BY <4>2
    <3>3. g[from] = BlankFrom(doc, f, from)
      <4>1. CASE from = first
        BY <4>1
      <4>2. CASE from # first
        <5>1. from \in n + 1 - k..n + 1
          BY <1>0, <2>2, <4>2
        <5>2. f[from] = BlankFrom(doc, f, from)
          BY <2>1, <5>1
        <5>3. QED BY <4>2, <5>2
      <4>3. QED BY <4>1, <4>2
    <3> HIDE DEF g
    <3>4. QED BY <3>2, <3>3 DEF BlankFrom
  <2>4. Good(k + 1, g)
    <3> HIDE DEF g
    <3> QED BY <2>3
  <2>5. QED BY <2>2, <2>4
<1>3. n \in T
  <2> HIDE DEF T
  <2>1. 0..n \subseteq T
    BY <1>0, <1>1, <1>2, InductionUpTo
  <2>2. QED BY <1>0, <2>1
<1>4. PICK f : Good(n, f)
  BY <1>3
<1> DEFINE g == [from \in 1..n + 1 |-> f[from]]
<1>5. ASSUME NEW from \in 1..n + 1 PROVE g[from] = BlankFrom(doc, g, from)
  <2>1. n + 1 - n..n + 1 = 1..n + 1
    BY <1>0
  <2>2. f[from] = BlankFrom(doc, f, from)
    BY <1>4, <2>1
  <2>3. ASSUME CommentStart(doc, from) # 0
        PROVE  g[CommentEnd(doc, from) + 1] = f[CommentEnd(doc, from) + 1]
    <3>1. /\ from \in 1..n /\ CommentStart(doc, from) \in from..n
          /\ CommentEnd(doc, from) \in CommentStart(doc, from)..n
      BY <2>3, CommentLies DEF n
    <3>2. CommentEnd(doc, from) + 1 \in 1..n + 1
      BY <1>0, <3>1
    <3>3. QED BY <3>2
  <2>4. g[from] = f[from]
    OBVIOUS
  <2> HIDE DEF g
  <2>5. QED BY <2>2, <2>3, <2>4 DEF BlankFrom
<1>6. g = [from \in 1..n + 1 |-> BlankFrom(doc, g, from)]
  BY <1>5
<1>7. QED BY <1>6 DEF n

\* What is blanked is what the scan finds in comments, their ends included.
LEMMA BlankedIsCommented ==
    ASSUME NEW doc \in Seq(Tokens), NEW O, OpenSet(doc, Len(doc), O)
    PROVE  BlankComments(doc) =
             [i \in 1..Len(doc) |-> IF i - 1 \in O \/ i \in O THEN " " ELSE doc[i]]
<1> DEFINE n == Len(doc)
           blank == CHOOSE blank : blank =
                      [from \in 1..Len(doc) + 1 |->
                         LET start == Index(doc, "<!--", from)
                             close == Index(doc, "-->", start + 1)
                             end == IF close = 0 THEN Len(doc) ELSE close
                         IN  IF start = 0 THEN {} ELSE (start..end) \cup blank[end + 1]]
<1>0. n \in Nat /\ DOMAIN doc = 1..n
  OBVIOUS
<1>1. BlankComments(doc) = [i \in DOMAIN doc |-> IF i \in blank[1] THEN " " ELSE doc[i]]
  BY DEF BlankComments
<1>2. blank = [from \in 1..Len(doc) + 1 |-> BlankFrom(doc, blank, from)]
  BY BlankExists DEF BlankFrom, CommentStart, CommentEnd
<1> HIDE DEF blank, n
<1> DEFINE In(from) == {i \in from..n : i - 1 \in O \/ i \in O}
           Bad == {from \in 1..n + 1 : from - 1 \notin O /\ blank[from] # In(from)}
           U == {n + 1 - from : from \in Bad}
<1>3. ASSUME Bad # {} PROVE FALSE
  <2>1. U \in SUBSET Nat /\ U # {}
    <3>1. \A from \in Bad : from \in 1..n + 1
      OBVIOUS
    <3> HIDE DEF Bad
    <3>2. \A from \in Bad : n + 1 - from \in Nat
      BY <1>0, <3>1
    <3>3. QED BY <1>3, <3>2
  <2>2. PICK k \in U : \A m \in U : k <= m
    <3> HIDE DEF U
    <3> QED BY <2>1, LeastElement
  <2>3. PICK from \in Bad : k = n + 1 - from
    <3> HIDE DEF Bad
    <3> QED OBVIOUS
  <2>4. from \in 1..n + 1 /\ from - 1 \notin O /\ blank[from] # In(from)
    OBVIOUS
  <2>5. ASSUME NEW later \in 1..n + 1, later > from, later - 1 \notin O
        PROVE  blank[later] = In(later)
    <3>1. later \notin Bad
      <4>1. ASSUME later \in Bad PROVE FALSE
        <5>1. n + 1 - later \in U
          BY <4>1
        <5>2. k <= n + 1 - later
          BY <2>2, <5>1
        <5>3. QED BY <1>0, <2>3, <2>4, <2>5, <5>2
      <4>2. QED BY <4>1
    <3>2. QED BY <2>5, <3>1
  <2>6. blank[from] = BlankFrom(doc, blank, from)
    BY <1>2, <2>4 DEF n
  <2>7. CASE /\ CommentStart(doc, from) = 0
             /\ \A i \in from..n : i - 1 \notin O /\ i \notin O
    <3>1. blank[from] = {}
      BY <2>6, <2>7 DEF BlankFrom
    <3>2. In(from) = {}
      BY <2>7
    <3>3. QED BY <2>4, <3>1, <3>2
  <2>8. CASE /\ CommentStart(doc, from) \in from..n
             /\ CommentEnd(doc, from) \in CommentStart(doc, from)..n
             /\ \A i \in from..CommentStart(doc, from) - 1 : i - 1 \notin O /\ i \notin O
             /\ \A i \in CommentStart(doc, from)..CommentEnd(doc, from) :
                  i - 1 \in O \/ i \in O
             /\ CommentEnd(doc, from) \notin O \/ CommentEnd(doc, from) = n
    <3> DEFINE s == CommentStart(doc, from)
               e == CommentEnd(doc, from)
    <3>1. /\ s \in from..n /\ e \in s..n /\ s # 0
          /\ e + 1 \in 1..n + 1 /\ e + 1 > from /\ (e + 1) - 1 = e
      <4>1. s \in from..n /\ e \in s..n
        BY <2>8
      <4> HIDE DEF s, e
      <4>2. QED BY <1>0, <2>4, <4>1
    <3>2. blank[from] = (s..e) \cup blank[e + 1]
      BY <2>6, <3>1 DEF BlankFrom
    <3> HIDE DEF s, e
    <3>3. blank[e + 1] = In(e + 1)
      <4>1. CASE e \notin O
        <5> HIDE DEF In, Bad
        <5> QED BY <2>5, <3>1, <4>1
      <4>2. CASE e = n
        <5>1. CommentStart(doc, n + 1) = 0
          <6>1. n + 1 \in 1..n + 1 /\ n + 1 \notin 1..n
            BY <1>0
          <6>2. QED BY <6>1, CommentLies DEF n
        <5>2. blank[n + 1] = {}
          <6>1. n + 1 \in 1..Len(doc) + 1
            BY <1>0 DEF n
          <6>2. QED BY <1>2, <5>1, <6>1 DEF BlankFrom
        <5>3. In(n + 1) = {}
          BY <1>0
        <5>4. QED BY <4>2, <5>2, <5>3
      <4>3. QED BY <2>8, <4>1, <4>2 DEF e
    <3>4. ASSUME NEW i \in from..n
          PROVE  i \in (s..e) \cup In(e + 1) <=> i - 1 \in O \/ i \in O
      <4>1. i \in from..s - 1 \/ i \in s..e \/ i \in e + 1..n
        BY <1>0, <2>4, <3>1
      <4>2. CASE i \in from..s - 1
        <5>1. i \notin s..e /\ i \notin e + 1..n
          BY <1>0, <2>4, <3>1, <4>2
        <5>2. i - 1 \notin O /\ i \notin O
          BY <2>8, <4>2 DEF s
        <5>3. QED BY <5>1, <5>2
      <4>3. CASE i \in s..e
        <5>1. i - 1 \in O \/ i \in O
          BY <2>8, <4>3 DEF s, e
        <5>2. QED BY <4>3, <5>1
      <4>4. CASE i \in e + 1..n
        <5>1. i \notin s..e
          BY <1>0, <2>4, <3>1, <4>4
        <5>2. QED BY <4>4, <5>1
      <4>5. QED BY <4>1, <4>2, <4>3, <4>4
    <3>5. \A i \in (s..e) \cup In(e + 1) : i \in from..n
      <4>1. \A i \in s..e : i \in from..n
        <5>1. /\ from \in Nat /\ s \in Nat /\ e \in Nat /\ n \in Nat
              /\ from <= s /\ e <= n
          BY <1>0, <2>4, <3>1
        <5>2. QED BY <5>1
      <4>2. \A i \in e + 1..n : i \in from..n
        BY <1>0, <2>4, <3>1
      <4>3. QED BY <4>1, <4>2
    <3>6. (s..e) \cup In(e + 1) = In(from)
      BY <3>4, <3>5
    <3>7. QED BY <2>4, <3>2, <3>3, <3>6
  <2>9. QED
    <3>1. from \in 1..Len(doc) + 1 /\ from - 1 \notin O
      BY <2>4 DEF n
    <3>2. QED BY <2>7, <2>8, <3>1, OneComment DEF n
<1>4. blank[1] = In(1)
  <2>1. 1 \in 1..n + 1 /\ 1 - 1 = 0 /\ 0 \notin O
    BY <1>0 DEF OpenSet
  <2>2. QED BY <1>3, <2>1
<1>5. \A i \in 1..n : i \in blank[1] <=> i - 1 \in O \/ i \in O
  BY <1>4
<1>6. QED BY <1>0, <1>1, <1>5 DEF n

\* What begins a document says as much of comments as the document.
LEMMA OpenInPrefix ==
    ASSUME NEW doc \in Seq(Tokens), NEW m \in 0..Len(doc), NEW k \in 0..m
    PROVE  CommentOpen(SubSeq(doc, 1, m), k) <=> CommentOpen(doc, k)
<1>1. SubSeq(SubSeq(doc, 1, m), 1, k) = SubSeq(doc, 1, k)
  <2>1. /\ m \in Nat /\ k \in Nat
        /\ SubSeq(doc, 1, m) \in Seq(Tokens) /\ Len(SubSeq(doc, 1, m)) = m
    OBVIOUS
  <2>2. \A i \in 1..k : SubSeq(SubSeq(doc, 1, m), 1, k)[i] = SubSeq(doc, 1, k)[i]
    BY <2>1
  <2>3. /\ Len(SubSeq(SubSeq(doc, 1, m), 1, k)) = k
        /\ Len(SubSeq(doc, 1, k)) = k
    BY <2>1
  <2>4. /\ SubSeq(SubSeq(doc, 1, m), 1, k) \in Seq(Tokens)
        /\ SubSeq(doc, 1, k) \in Seq(Tokens)
    BY <2>1
  <2>5. QED BY <2>2, <2>3, <2>4
<1>2. QED BY <1>1 DEF CommentOpen

\* Behind the first tag of that name outside comments, or nowhere.
LEMMA TagFound ==
    ASSUME NEW doc \in Seq(Tokens), NEW name \in {"<head", "<html", "<!doctype"}
    PROVE  IF TagEnds(doc, name) = {}
             THEN OpeningTagEnd(BlankComments(doc), name) = 0
             ELSE /\ OpeningTagEnd(BlankComments(doc), name) = Min(TagEnds(doc, name))
                  /\ OpeningTagEnd(BlankComments(doc), name) \in 1..Len(doc)
                  /\ ~CommentOpen(doc, OpeningTagEnd(BlankComments(doc), name))
<1> DEFINE n == Len(doc)
           b == BlankComments(doc)
           tags == {i \in 1..Len(b) - 1 : b[i] = name /\ b[i + 1] \in NameEnds}
           Outside(i) == ~CommentOpen(doc, i - 1) /\ ~CommentOpen(doc, i)
           Ends(i) == Outside(i) /\ doc[i] = ">"
           Tag(i) == Outside(i) /\ doc[i] = name /\ doc[i + 1] \in NameEnds \cup {"<!--"}
           E == TagEnds(doc, name)
<1>0. n \in Nat /\ doc \in [1..n -> Tokens] /\ DOMAIN doc = 1..n
  OBVIOUS
<1>1. PICK O : /\ OpenSet(doc, n, O)
               /\ \A i \in 0..n : CommentOpen(doc, i) <=> i \in O
  BY OpenEverywhere
<1>2. b = [i \in 1..n |-> IF i - 1 \in O \/ i \in O THEN " " ELSE doc[i]]
  BY <1>1, BlankedIsCommented
<1>3. b \in Seq(Tokens) /\ Len(b) = n
  <2>1. b \in [1..n -> Tokens]
    BY <1>0, <1>2 DEF Tokens
  <2> HIDE DEF b, n
  <2>2. QED BY <1>0, <2>1
<1>e. E = {j \in 1..n : /\ Ends(j)
                        /\ \E i \in 1..j - 1 : Tag(i) /\ \A k \in i + 1..j - 1 : ~Ends(k)}
  BY <1>0 DEF TagEnds
<1>4. ASSUME NEW i \in 1..n
      PROVE  /\ Outside(i) <=> i - 1 \notin O /\ i \notin O
             /\ Ends(i) <=> b[i] = ">"
             /\ Outside(i) /\ doc[i] = name <=> b[i] = name
  <2>1. i - 1 \in 0..n /\ i \in 0..n
    BY <1>0
  <2>2. Outside(i) <=> i - 1 \notin O /\ i \notin O
    BY <1>1, <2>1
  <2>3. b[i] = IF i - 1 \in O \/ i \in O THEN " " ELSE doc[i]
    BY <1>2
  <2> HIDE DEF Outside, b
  <2>4. QED BY <2>2, <2>3
<1>5. ASSUME NEW i \in 1..n - 1
      PROVE  Tag(i) <=> b[i] = name /\ b[i + 1] \in NameEnds
  <2>1. i \in 1..n /\ i + 1 \in 1..n /\ i \in 0..n - 1 /\ (i + 1) - 1 = i
    BY <1>0
  <2>2. Outside(i) /\ doc[i] = name <=> b[i] = name
    BY <1>4, <2>1
  <2>3. b[i + 1] = IF i \in O \/ i + 1 \in O THEN " " ELSE doc[i + 1]
    BY <1>2, <2>1
  <2>4. i \notin O => (i + 1 \in O <=> doc[i + 1] = "<!--")
    BY <1>1, <2>1 DEF OpenSet
  <2>5. Outside(i) => i \notin O
    BY <1>4, <2>1
  <2>6. Outside(i) =>
          (b[i + 1] \in NameEnds <=> doc[i + 1] \in NameEnds \cup {"<!--"})
    <3> HIDE DEF Outside, b
    <3> QED BY <2>3, <2>4, <2>5 DEF NameEnds
  <2> HIDE DEF Outside, b
  <2>7. QED BY <2>2, <2>6
<1> HIDE DEF n, b
<1>6. tags = {i \in 1..n - 1 : Tag(i)}
  <2> HIDE DEF Tag
  <2> QED BY <1>3, <1>5
<1> HIDE DEF Outside, Tag, E
<1>7. CASE tags = {}
  <2>1. OpeningTagEnd(b, name) = 0
    BY <1>7 DEF OpeningTagEnd
  <2>2. E = {}
    <3>1. ASSUME NEW j \in E PROVE FALSE
      <4>1. PICK i \in 1..j - 1 : Tag(i)
        BY <1>e
      <4>2. j \in 1..n
        BY <1>e
      <4>3. i \in 1..n - 1
        BY <1>0, <4>1, <4>2
      <4>4. QED BY <1>6, <1>7, <4>1, <4>3
    <3>2. QED BY <3>1
  <2>3. QED BY <2>1, <2>2 DEF E, b
<1>8. CASE tags # {}
  <2> DEFINE t == Min(tags)
             e == Index(b, ">", t + 1)
  <2>1. t \in tags /\ \A x \in tags : t <= x
    <3>1. tags \in SUBSET Nat
      <4>1. \A i \in 1..n - 1 : i \in Nat
        BY <1>0
      <4>2. tags \subseteq 1..n - 1
        BY <1>6
      <4> HIDE DEF tags
      <4>3. QED BY <4>1, <4>2
    <3> HIDE DEF tags
    <3>2. QED BY <1>8, <3>1, MinOf
  <2>2. OpeningTagEnd(b, name) = e
    BY <1>8 DEF OpeningTagEnd
  <2> HIDE DEF tags, t, e
  <2>3. t \in 1..n - 1 /\ Tag(t) /\ \A i \in 1..n - 1 : Tag(i) => t <= i
    BY <1>6, <2>1
  <2>4. \/ e = 0 /\ \A i \in t + 1..n : b[i] # ">"
        \/ /\ e \in t + 1..n /\ b[e] = ">"
           /\ \A i \in t + 1..e - 1 : b[i] # ">"
    <3>1. t + 1 \in Nat \ {0}
      BY <1>0, <2>3
    <3>2. QED BY <1>3, <3>1, IndexFinds DEF e
  <2>5. ASSUME NEW j \in E
        PROVE  j \in t + 1..n /\ b[j] = ">"
    <3>1. PICK i \in 1..j - 1 : Tag(i)
      BY <1>e
    <3>2. j \in 1..n /\ Ends(j)
      BY <1>e
    <3>3. i \in 1..n - 1
      BY <1>0, <3>1, <3>2
    <3>4. t <= i
      BY <2>3, <3>1, <3>3
    <3>5. b[j] = ">"
      BY <1>4, <3>2
    <3>6. QED BY <1>0, <2>3, <3>2, <3>3, <3>4, <3>5
  <2>6. CASE e = 0
    <3>1. E = {}
      <4>1. \A i \in t + 1..n : b[i] # ">"
        BY <1>0, <2>3, <2>4, <2>6
      <4>2. QED BY <2>5, <4>1
    <3>2. QED BY <2>2, <2>6, <3>1 DEF E, b
  <2>7. CASE /\ e \in t + 1..n /\ b[e] = ">"
             /\ \A i \in t + 1..e - 1 : b[i] # ">"
    <3>1. e \in 1..n /\ t \in 1..e - 1 /\ e \in Nat /\ e \in 0..n
      BY <1>0, <2>3, <2>7
    <3>2. Ends(e)
      BY <1>4, <2>7, <3>1
    <3>3. ASSUME NEW i \in t + 1..e - 1 PROVE ~Ends(i)
      <4>1. i \in 1..n
        BY <1>0, <2>3, <3>1
      <4>2. QED BY <1>4, <2>7, <4>1
    <3>4. e \in E
      <4> HIDE DEF Ends
      <4> QED BY <1>e, <2>3, <3>1, <3>2, <3>3
    <3>5. ASSUME NEW j \in E PROVE e <= j
      <4>1. j \in t + 1..n /\ b[j] = ">"
        BY <2>5
      <4>2. j \notin t + 1..e - 1
        BY <2>7, <4>1
      <4>3. QED BY <1>0, <2>3, <3>1, <4>1, <4>2
    <3>6. Min(E) = e
      <4>1. E \in SUBSET Nat /\ E # {}
        <5>1. E \subseteq 1..n
          BY <1>e
        <5>2. QED BY <1>0, <3>4, <5>1
      <4>2. Min(E) \in E /\ \A x \in E : Min(E) <= x
        BY <4>1, MinOf
      <4>3. Min(E) \in Nat /\ e <= Min(E) /\ Min(E) <= e
        BY <3>4, <3>5, <4>1, <4>2
      <4>4. QED BY <3>1, <4>3
    <3>7. ~CommentOpen(doc, e)
      BY <3>2 DEF Outside
    <3>8. QED BY <2>2, <3>1, <3>4, <3>6, <3>7 DEF E, b, n
  <2>8. QED BY <2>4, <2>6, <2>7
<1>9. QED BY <1>7, <1>8

\* The bridge is placed by the rule in a document, however long it is.
LEMMA PlacedWell ==
    ASSUME NEW doc \in Seq(Tokens) PROVE PlacedByRule(doc, BridgeOffset(doc))
<1> DEFINE m == IF Len(doc) < ScanTokens THEN Len(doc) ELSE ScanTokens
           s == Scanned(doc)
           b == BlankComments(s)
           End(name) == OpeningTagEnd(b, name)
           off == BridgeOffset(doc)
           bom == IF IsPrefix(<<"BOM">>, doc) THEN 1 ELSE 0
<1>0. Len(doc) \in Nat /\ m \in 0..Len(doc) /\ m \in Nat
  BY BridgeAssumption
<1>1. s = SubSeq(doc, 1, m)
  BY DEF Scanned
<1> HIDE DEF m
<1>2. s \in Seq(Tokens) /\ Len(s) = m
  <2> HIDE DEF s
  <2> QED BY <1>0, <1>1
<1>3. off = IF End("<head") > 0 THEN End("<head")
            ELSE IF End("<html") > 0 THEN End("<html")
            ELSE IF End("<!doctype") > 0 THEN End("<!doctype")
            ELSE bom
  BY DEF BridgeOffset, OffsetIn
<1>4. bom \in 0..Len(doc) /\ ~CommentOpen(doc, bom)
  <2>1. PICK O : /\ OpenSet(doc, Len(doc), O)
                 /\ \A n \in 0..Len(doc) : CommentOpen(doc, n) <=> n \in O
    BY OpenEverywhere
  <2>2. ~CommentOpen(doc, 0)
    <3>1. 0 \in 0..Len(doc) /\ 0 \notin O
      BY <1>0, <2>1 DEF OpenSet
    <3>2. QED BY <2>1, <3>1
  <2>3. CASE IsPrefix(<<"BOM">>, doc)
    <3>1. Len(<<"BOM">>) = 1 /\ 1 <= Len(doc)
      BY <2>3 DEF IsPrefix
    <3>2. SubSeq(<<"BOM">>, 1, 1)[1] = "BOM" /\ SubSeq(doc, 1, 1)[1] = doc[1]
      BY <1>0, <3>1
    <3>3. doc[1] = "BOM"
      BY <2>3, <3>1, <3>2 DEF IsPrefix
    <3>4. 1 \in 0..Len(doc) /\ 0 \in 0..Len(doc) - 1 /\ 0 + 1 = 1 /\ 0 \notin O
      BY <1>0, <2>1, <3>1 DEF OpenSet
    <3>5. 1 \notin O
      BY <2>1, <3>3, <3>4 DEF OpenSet
    <3>6. ~CommentOpen(doc, 1)
      BY <2>1, <3>4, <3>5
    <3>7. QED BY <2>3, <3>4, <3>6
  <2>4. CASE ~IsPrefix(<<"BOM">>, doc)
    <3>1. 0 \in 0..Len(doc)
      BY <1>0
    <3>2. QED BY <2>2, <2>4, <3>1
  <2>5. QED BY <2>3, <2>4
<1>5. ASSUME NEW name \in {"<head", "<html", "<!doctype"}
      PROVE  \/ TagEnds(s, name) = {} /\ End(name) = 0
             \/ /\ TagEnds(s, name) # {}
                /\ End(name) = Min(TagEnds(s, name))
                /\ End(name) > 0
                /\ End(name) \in 0..Len(doc)
                /\ ~CommentOpen(doc, End(name))
  <2> HIDE DEF s
  <2>1. CASE TagEnds(s, name) = {}
    BY <1>2, <2>1, TagFound
  <2>2. CASE TagEnds(s, name) # {}
    <3>1. /\ End(name) = Min(TagEnds(s, name))
          /\ End(name) \in 1..Len(s)
          /\ ~CommentOpen(s, End(name))
      BY <1>2, <2>2, TagFound
    <3> DEFINE e == End(name)
    <3> HIDE DEF End
    <3>2. e \in 0..m /\ e > 0 /\ e \in 0..Len(doc)
      BY <1>0, <1>2, <3>1
    <3>3. CommentOpen(SubSeq(doc, 1, m), e) <=> CommentOpen(doc, e)
      BY <1>0, <3>2, OpenInPrefix
    <3>4. ~CommentOpen(doc, e)
      BY <1>1, <3>1, <3>3
    <3>5. QED BY <2>2, <3>1, <3>2, <3>4
  <2>3. QED BY <2>1, <2>2
<1> HIDE DEF s, End, off, bom
<1> DEFINE head == TagEnds(s, "<head")
           root == TagEnds(s, "<html")
           doctype == TagEnds(s, "<!doctype")
<1>6. SUFFICES /\ off \in 0..Len(doc)
               /\ ~CommentOpen(doc, off)
               /\ head # {} => off = Min(head)
               /\ head = {} /\ root # {} => off = Min(root)
               /\ head = {} /\ root = {} /\ doctype # {} => off = Min(doctype)
  BY DEF PlacedByRule, s, off
<1>7. CASE head # {}
  <2>1. off = End("<head")
    BY <1>3, <1>5, <1>7
  <2>2. QED BY <1>5, <1>7, <2>1
<1>8. CASE head = {} /\ root # {}
  <2>1. off = End("<html")
    <3>1. ~(End("<head") > 0) /\ End("<html") > 0
      BY <1>5, <1>8
    <3>2. QED BY <1>3, <3>1
  <2>2. QED BY <1>5, <1>8, <2>1
<1>9. CASE head = {} /\ root = {} /\ doctype # {}
  <2>1. off = End("<!doctype")
    <3>1. ~(End("<head") > 0) /\ ~(End("<html") > 0) /\ End("<!doctype") > 0
      BY <1>5, <1>9
    <3>2. QED BY <1>3, <3>1
  <2>2. QED BY <1>5, <1>9, <2>1
<1>10. CASE head = {} /\ root = {} /\ doctype = {}
  <2>1. off = bom
    <3>1. ~(End("<head") > 0) /\ ~(End("<html") > 0) /\ ~(End("<!doctype") > 0)
      BY <1>5, <1>10
    <3>2. QED BY <1>3, <3>1
  <2>2. QED BY <1>4, <1>10, <2>1
<1>11. QED BY <1>7, <1>8, <1>9, <1>10

-----------------------------------------------------------------------------
(* The name of the page.                                                   *)

\* A page is being answered for a name that opens a file.
PageNamed ==
    page.step # "idle" => page.name \in Names /\ CleanRelative(page.name) # None

\* Only a request gives the page a name.
LEMMA NameKept ==
    ContentInv /\ PageNamed /\ [Next]_vars => PageNamed'
<1> SUFFICES ASSUME ContentInv, PageNamed, [Next]_vars PROVE PageNamed'
  OBVIOUS
<1>1. page \in Pages
  BY DEF ContentInv, PageInv
<1>2. ASSUME page.step # "idle", page'.name = page.name PROVE PageNamed'
  BY <1>2 DEF PageNamed
<1>3. CASE UNCHANGED page
  BY <1>3 DEF PageNamed
<1>4. ASSUME NEW step, Goto(step), page.step # "idle" PROVE PageNamed'
  BY <1>1, <1>2, <1>4 DEF Goto, Pages
<1>5. ASSUME NEW step, Collect(step), page.step # "idle" PROVE PageNamed'
  BY <1>1, <1>2, <1>5 DEF Collect, Pages
<1>6. ASSUME NEW name \in Names, NEW comments \in BOOLEAN,
             NEW type \in {"html", "other", "unknown"}, Request(name, comments, type)
      PROVE  PageNamed'
  <2>1. page'.name = name /\ CleanRelative(name) # None
    BY <1>6 DEF Request, NoPage
  <2>2. QED BY <2>1 DEF PageNamed
<1>7. CASE Inject
  BY <1>5, <1>7 DEF Inject
<1>8. CASE Measured \/ Rewind \/ Sniff
  BY <1>3, <1>4, <1>8 DEF Measured, Rewind, Sniff
<1>9. CASE ServeWhole \/ ServeRanges
  <2>1. page.step # "idle" /\ page'.name = page.name
    BY <1>1, <1>9 DEF ServeWhole, ServeRanges, Pages
  <2>2. QED BY <1>2, <2>1
<1>10. ASSUME NEW start \in 0..MaxBytes, NEW length \in 0..MaxBytes,
              ServeRange(start, length) \/ ServePart(start, length)
       PROVE  PageNamed'
  <2>1. /\ page.step # "idle"
        /\ Goto("error") \/ Goto("partial") \/ page'.name = page.name
    BY <1>1, <1>10 DEF ServeRange, ServePart, Pages
  <2>2. QED BY <1>2, <1>4, <2>1
<1>11. CASE Copy \/ Copied
  <2>1. page.step # "idle" /\ \E step : Collect(step) \/ Goto(step)
    BY <1>11 DEF Copy, Copied
  <2>2. QED BY <1>4, <1>5, <2>1
<1>12. CASE Finished
  <2>1. page'.step = "idle"
    BY <1>12 DEF Finished, NoPage
  <2>2. QED BY <2>1 DEF PageNamed
<1>13. CASE StageStep \/ UNCHANGED vars
  BY <1>3, <1>13 DEF StageStep, vars
<1>14. ASSUME NEW p \in Paths,
              PublishFile(p) \/ \E size \in 0..MaxBytes : Overwrite(p, size)
       PROVE  PageNamed'
  BY <1>3, <1>14 DEF PublishFile, Overwrite
<1>15. QED BY <1>6, <1>7, <1>8, <1>9, <1>10, <1>11, <1>12, <1>13, <1>14
           DEF Next, Content

-----------------------------------------------------------------------------
(* The theorems.                                                           *)

\* The invariant holds initially.
LEMMA ContentStarts == Init => ContentInv
<1> SUFFICES ASSUME Init PROVE ContentInv
  OBVIOUS
<1>1. IntakeInv
  BY IntakeStarts DEF Init
<1>2. ReaderInv
  BY ReaderFacts
     DEF Init, ReaderInit, ReaderInv, ReaderTypeOK, BodyAligned, NoReader, Readers,
         NoResult, Results, NoObject, Objects
<1>3. PageInv
  <2>1. 0 \in 0..MaxPuts /\ 0 \in 0..MaxBytes
    BY ReaderFacts
  <2>2. /\ page \in Pages /\ page.step = "idle" /\ page.start = 0
        /\ page.bytes = 0 /\ page.puts = {} /\ page.ordered
    BY <2>1 DEF Init, NoPage, Pages
  <2>3. QED BY <2>1, <2>2 DEF PageInv
<1>4. QED BY <1>1, <1>2, <1>3 DEF ContentInv

\* The invariant holds always.
LEMMA ContentHolds == Spec => []ContentInv
<1>1. ContentInv /\ [Next]_vars => ContentInv'
  <2> SUFFICES ASSUME ContentInv, [Next]_vars PROVE ContentInv'
    OBVIOUS
  <2>1. (Stage \/ UNCHANGED intakeVars) /\ ReaderStep
    BY StepOfAPart
  <2>2. IntakeInv'
    <3>1. CASE Stage
      BY <3>1, StageKeeps DEF ContentInv
    <3>2. CASE UNCHANGED intakeVars
      BY <3>2 DEF ContentInv, IntakeInv, IntakeTypeOK, ExpansionBounded, intakeVars
    <3>3. QED BY <2>1, <3>1, <3>2
  <2>3. ReaderInv'
    BY <2>1, ReaderKeeps DEF ContentInv
  <2>4. PageInv'
    BY PageKeeps
  <2>5. QED BY <2>2, <2>3, <2>4 DEF ContentInv
<1>2. QED BY ContentStarts, <1>1, PTL DEF Spec

\* Every variable keeps to its type (BundleIntake, ObjectReader, content).
THEOREM TypeCorrect == Spec => []TypeOK
<1>1. ContentInv => TypeOK
  BY DEF ContentInv, IntakeInv, ReaderInv, PageInv, TypeOK
<1>2. QED BY ContentHolds, <1>1, PTL

\* What an archive declares and what it expands to never takes more than one byte
\* over the bundle limit on disk, whatever the limit (StageZIP).
THEOREM ExpansionBound == Spec => []ExpansionBounded
<1>1. ContentInv => ExpansionBounded
  BY DEF ContentInv, IntakeInv
<1>2. QED BY ContentHolds, <1>1, PTL

\* A body that is kept stands where the reader does, whatever is read, sought or
\* put in the object's place (s3ReadSeeker).
THEOREM ReaderAligned == Spec => []BodyAligned
<1>1. ContentInv => BodyAligned
  BY DEF ContentInv, ReaderInv
<1>2. QED BY ContentHolds, <1>1, PTL

\* A response, or each part of one with several ranges, is a stretch of one
\* object, in order, within what it promised (content over s3ReadSeeker).
THEOREM ResponseIsIntact == Spec => []ResponseIntact
<1>1. ContentInv => ResponseIntact
  <2> SUFFICES ASSUME ContentInv PROVE ResponseIntact
    OBVIOUS
  <2>1. PICK put \in 0..MaxPuts : page.puts \subseteq {put}
    BY DEF ContentInv, PageInv
  <2>2. Cardinality(page.puts) <= 1
    <3>1. page.puts = {} \/ page.puts = {put}
      BY <2>1
    <3>2. Cardinality({}) = 0 /\ Cardinality({put}) = 1
      BY FS_EmptySet, FS_Singleton
    <3>3. QED BY <3>1, <3>2
  <2>3. QED BY <2>2 DEF ContentInv, PageInv, ResponseIntact
<1>2. QED BY ContentHolds, <1>1, PTL

\* In every document, of whatever length and scanned as far as you like, the
\* bridge's script is where the rule of comments-design.md puts it (injectBridge).
THEOREM BridgeFollowsRule == Spec => []BridgePlaced
<1>1. EveryDocumentByRule
  <2>1. ASSUME NEW doc \in Documents PROVE doc \in Seq(Tokens)
    BY BridgeAssumption DEF Documents, SeqOf
  <2>2. QED BY <2>1, PlacedWell DEF EveryDocumentByRule
<1>2. BridgePlaced
  BY <1>1 DEF BridgePlaced
<1>3. QED BY <1>2, PTL

\* Whatever a client calls a file, with "." and ".." anywhere, the response is of
\* one inside the version's files, and what the intake stored under a path is what
\* a request for it opens (cleanRelative, in StageZIP and in Open).
THEOREM OpensOnlyInside == Spec => []OpensInside
<1>1. Init => PageNamed
  BY DEF Init, NoPage, PageNamed
<1>2. PageNamed => OpensInside
  <2> SUFFICES ASSUME PageNamed PROVE OpensInside
    OBVIOUS
  <2>1. page.step # "idle" => ~Escapes(page.name)
    BY OpenedInside DEF PageNamed
  <2>2. QED BY <2>1, PathsClean DEF OpensInside
<1>3. QED BY ContentHolds, <1>1, <1>2, NameKept, PTL DEF Spec

\* The reader behaves as a file, whatever is put into the bucket (s3ReadSeeker as
\* an io.ReadSeekCloser).
THEOREM ReaderImplementsFile == Spec => ImplementsFile
<1>1. Init => File!Init
  BY DEF Init, ReaderInit, NoReader, NoResult, File!Init, File!Nothing
<1>2. ContentInv /\ [Next]_vars =>
        [File!Next]_<<reader.size, reader.position, ~reader.closed,
                      [from |-> result.from, count |-> result.count,
                       err |-> result.err]>>
  BY StepOfAPart, ReaderIsFile DEF ContentInv
<1>3. QED BY ContentHolds, <1>1, <1>2, PTL DEF Spec, ImplementsFile, File!Spec
=============================================================================
