---------------------------- MODULE ObjectReader ----------------------------
(***************************************************************************)
(* S3Store.Open and s3ReadSeeker: an object of the bucket read as a file.  *)
(* Opening asks for the object's size only; the body is fetched by the     *)
(* first read, from the position on, and again after a seek.  Meanwhile    *)
(* another object may be put under the same key.                           *)
(*                                                                         *)
(* A body delivers the bytes of the object it was fetched from: at is the  *)
(* offset of the next one, left how many there are and put tells which     *)
(* PutObject wrote it.                                                     *)
(***************************************************************************)
EXTENDS BundlePaths

CONSTANTS
    MaxPuts,   \* bound on the objects put under one key
    MaxObject  \* bound on the size of an object

ASSUME ReaderAssumption ==
    /\ MaxPuts \in Nat /\ MaxObject \in Nat
    /\ None \notin [at : Int, left : Int, put : Int]

VARIABLES
    object, \* the bucket: size and number of the last PutObject of each key
    reader, \* the s3ReadSeeker
    result  \* what its last Read returned, and which object it came from

readerVars == <<object, reader, result>>

Objects == [size : 0..MaxObject, put : 0..MaxPuts]
NoObject == [size |-> 0, put |-> 0]
Bodies == [at : Nat, left : Nat, put : 0..MaxPuts]
NoReader == [key |-> None, size |-> 0, position |-> 0, body |-> None, closed |-> TRUE]
Readers == [key : Paths \cup {None}, size : 0..MaxBytes, position : Nat,
            body : Bodies \cup {None}, closed : BOOLEAN]
NoResult == [from |-> 0, count |-> 0, err |-> "none", put |-> 0]
Results == [from : Nat, count : Nat, err : {"none", "eof", "failed", "closed"},
            put : 0..MaxPuts]

ReaderTypeOK ==
    /\ object \in [Paths -> Objects]
    /\ reader \in Readers
    /\ result \in Results

ReaderInit ==
    /\ object = [p \in Paths |-> NoObject]
    /\ reader = NoReader
    /\ result = NoResult

Exists(p) == object[p].put > 0

\* PutObject, by PublishUpload.
PutObject(p, size) ==
    /\ object[p].put < MaxPuts
    /\ object' = [object EXCEPT ![p] = [size |-> size, put |-> @.put + 1]]
    /\ UNCHANGED <<reader, result>>

-----------------------------------------------------------------------------

\* Open: HeadObject, and a reader that has fetched nothing yet.
OpenObject(p) ==
    /\ reader.closed
    /\ Exists(p) /\ object[p].size <= MaxBytes
    /\ reader' = [key |-> p, size |-> object[p].size, position |-> 0,
                  body |-> None, closed |-> FALSE]
    /\ result' = NoResult
    /\ UNCHANGED object

\* Read fails before it has a body: the request fails, or the length S3
\* announces is not what is left of the size.
ReadFails ==
    /\ ~reader.closed /\ reader.position < reader.size
    /\ reader.body = None
    /\ result' = [NoResult EXCEPT !.from = reader.position, !.err = "failed"]
    /\ UNCHANGED <<object, reader>>

ReadAtEnd ==
    /\ reader.closed \/ reader.position >= reader.size
    /\ result' = [NoResult EXCEPT !.from = reader.position,
                                  !.err = IF reader.closed THEN "closed" ELSE "eof"]
    /\ UNCHANGED <<object, reader>>

\* GetObject of the range from the position on.
Fetched == LET fetched == object[reader.key] IN
    [at |-> reader.position, left |-> fetched.size - reader.position,
     put |-> fetched.put]

\* The body Read uses: the one it has, or one that is fetched, whose length must
\* be what is left of the size.
Body ==
    IF reader.body # None THEN {reader.body}
    ELSE IF Exists(reader.key) /\ Fetched.left = reader.size - reader.position
      THEN {Fetched}
    ELSE {}

Consume(body, count, err) ==
    /\ ~reader.closed /\ reader.position < reader.size
    /\ count <= Least(body.left, reader.size - reader.position)
    /\ reader' = [reader EXCEPT !.position = @ + count,
                    !.body = IF err = "none"
                      THEN [body EXCEPT !.at = @ + count, !.left = @ - count]
                      ELSE None]
    /\ UNCHANGED object

\* Variant: a body that ends early ends the file.
ReadBodyShort(count, err) ==
    \E body \in Body :
        /\ Consume(body, count, err)
        /\ result' = [from |-> body.at, count |-> count, put |-> body.put, err |-> err]

\* One read of the body: at most what is left of the size, and possibly an
\* error.  The end of the body before the end of the object is
\* io.ErrUnexpectedEOF.
ReadBody(count, err) ==
    \E body \in Body :
        /\ Consume(body, count, err)
        /\ result' = [from |-> body.at, count |-> count, put |-> body.put,
                      err |-> IF err = "eof" /\ reader'.position < reader.size
                                THEN "failed" ELSE err]

Read(max) ==
    \/ ReadFails \/ ReadAtEnd
    \/ \E count \in 1..max : ReadBody(count, "none")
    \/ \E count \in 0..max, err \in {"eof", "failed"} : ReadBody(count, err)

\* Variant: the body is kept.
SeekKeeping(target) ==
    /\ ~reader.closed
    /\ reader' = [reader EXCEPT !.position = target]
    /\ UNCHANGED <<object, result>>

\* Seek to an offset that whence makes target of.  To stay keeps the body; to
\* move closes it, and where that fails nothing has changed.
Seek(target) ==
    /\ ~reader.closed
    /\ reader' = [reader EXCEPT !.position = target,
                                !.body = IF target = reader.position THEN @ ELSE None]
    /\ UNCHANGED <<object, result>>

\* A negative target, or a body that cannot be closed.
SeekFails == ~reader.closed /\ UNCHANGED readerVars

\* Close; a closed reader is not used again.
Close ==
    /\ reader' = NoReader
    /\ result' = NoResult
    /\ UNCHANGED object

ReaderNext ==
    \/ \E p \in Paths :
         \/ OpenObject(p)
         \/ \E size \in 0..MaxObject : PutObject(p, size)
    \/ Read(MaxBytes)
    \/ \E target \in 0..MaxBytes + 1 : Seek(target)
    \/ Close

ReaderSpec == ReaderInit /\ [][ReaderNext]_readerVars

-----------------------------------------------------------------------------
(* Properties.                                                             *)

\* A body that is kept stands where the reader does and holds what is left of the
\* size: no order of reads, failed reads and seeks, and no object put meanwhile,
\* makes the next read return bytes from elsewhere or miss some (s3ReadSeeker).
BodyAligned ==
    reader.body # None =>
        /\ reader.body.at = reader.position
        /\ reader.body.left = reader.size - reader.position

File == INSTANCE SeekableFile
    WITH size <- reader.size, position <- reader.position,
         open <- ~reader.closed,
         result <- [from |-> result.from, count |-> result.count, err |-> result.err]

\* Whatever S3 does, the reader behaves as a file (s3ReadSeeker as the
\* io.ReadSeekCloser that content and http.ServeContent use).
ImplementsFile == File!Spec
=============================================================================
