--------------------------- MODULE BundleContent ---------------------------
(***************************************************************************)
(* From a ZIP to the bytes a browser gets, with the S3 object store:       *)
(* StageZIP accepts a bundle (BundleIntake), PublishUpload puts its files  *)
(* into the bucket, and the content handler opens one of them and reads it *)
(* (ObjectReader), whole for an HTML page that gets the comment bridge and *)
(* through http.ServeContent otherwise.  A session's link accepts another  *)
(* archive after a commit, so an object may be overwritten while it is     *)
(* being read.                                                             *)
(***************************************************************************)
EXTENDS BundleIntake, ObjectReader, BridgeInjection

CONSTANT MaxInject \* maxBridgeInjectBytes

ASSUME MaxInjectAssumption == MaxInject \in Nat
ASSUME MaxObjectAssumption == MaxBytes <= MaxObject

VARIABLE page \* the content handler's request and its response

vars == <<intakeVars, readerVars, page>>

\* The response body, or the part that is being sent of one with several ranges
\* (multi).  bytes: how much of it there is; start: its first offset in the file;
\* promised: its length; puts: the objects its bytes came from; ordered: they came
\* in the order they have in the file; spare: how long further parts may be.
NoPage == [step |-> "idle", name |-> None, typed |-> TRUE, start |-> 0,
           promised |-> 0, bytes |-> 0, puts |-> {}, ordered |-> TRUE,
           multi |-> FALSE, spare |-> 0]
Pages == [step : {"idle", "inject", "measure", "rewind", "sniff", "range", "part",
                  "copy", "whole", "partial", "error"},
          name : Names \cup {None}, typed : BOOLEAN, start : 0..MaxBytes,
          promised : 0..MaxBytes, bytes : 0..MaxBytes, puts : SUBSET (0..MaxPuts),
          ordered : BOOLEAN, multi : BOOLEAN, spare : 0..MaxBytes]

TypeOK == IntakeTypeOK /\ ReaderTypeOK /\ page \in Pages

Init == IntakeInit /\ ReaderInit /\ page = NoPage

Goto(step) == page' = [page EXCEPT !.step = step]

-----------------------------------------------------------------------------
(* Publishing the accepted bundle, file by file (putFile); and, later, a    *)
(* file of another bundle that was accepted for the same session.          *)

PublishFile(p) ==
    /\ phase = "accepted"
    /\ files[p] # None
    /\ ~Exists(p)
    /\ PutObject(p, files[p])
    /\ UNCHANGED <<intakeVars, page>>

Overwrite(p, size) ==
    /\ Exists(p)
    /\ PutObject(p, size)
    /\ UNCHANGED <<intakeVars, page>>

StageStep == Stage /\ UNCHANGED <<readerVars, page>>

-----------------------------------------------------------------------------
(* content.                                                                *)

\* A valid ticket, for comments or not, and a file that opens; the page gets the
\* bridge if it is HTML and not too large.  Everything else is a 404.
Request(name, comments, type) ==
    LET path == CleanRelative(name) IN
    /\ page.step = "idle"
    /\ path # None
    /\ OpenObject(path)
    /\ page' = [NoPage EXCEPT
         !.name = name,
         !.typed = type # "unknown",
         !.step = IF comments /\ type = "html" /\ object[path].size <= MaxInject
                    THEN "inject" ELSE "measure"]
    /\ UNCHANGED intakeVars

\* The bytes of one Read added to those the response has.
Collect(step) ==
    page' = [page EXCEPT
      !.step = step,
      !.bytes = @ + result'.count,
      !.puts = IF result'.count > 0 THEN @ \cup {result'.put} ELSE @,
      !.ordered = @ /\ result'.from = page.start + page.bytes]

\* io.ReadAll, then injectBridge and one Write; or 500.
Inject ==
    /\ page.step = "inject"
    /\ Read(MaxInject + 1)
    /\ Collect(CASE result'.err = "none" -> "inject"
                 [] result'.err = "eof" -> "whole"
                 [] OTHER -> "error")
    /\ UNCHANGED intakeVars

\* http.ServeContent: the size by seeking to the end, and back ...
Measured ==
    /\ page.step = "measure"
    /\ \/ Seek(reader.size) /\ Goto("rewind")
       \/ SeekFails /\ Goto("error")
    /\ UNCHANGED intakeVars

Rewind ==
    /\ page.step = "rewind"
    /\ \/ Seek(0) /\ Goto(IF page.typed THEN "range" ELSE "sniff")
       \/ SeekFails /\ Goto("error")
    /\ UNCHANGED intakeVars

\* ... the type from the first bytes, if the name does not tell it ...
Sniff ==
    /\ page.step = "sniff"
    /\ \/ Read(MaxBytes) /\ UNCHANGED page
       \/ Seek(0) /\ Goto("range")
       \/ SeekFails /\ Goto("error")
    /\ UNCHANGED intakeVars

\* ... the whole file, a range of it, ...
ServeWhole ==
    /\ page.step = "range"
    /\ page' = [page EXCEPT !.step = "copy", !.promised = reader.size]
    /\ UNCHANGED <<intakeVars, readerVars>>

\* A range lies in the file; one of no bytes ("-0") at its end.
InFile(start, length) ==
    /\ start + length <= reader.size
    /\ length = 0 => start = reader.size

ServeRange(start, length) ==
    /\ page.step = "range"
    /\ InFile(start, length)
    /\ \/ /\ Seek(start)
          /\ page' = [page EXCEPT !.step = "copy", !.start = start,
                                  !.promised = length]
       \/ SeekFails /\ Goto("error")
    /\ UNCHANGED intakeVars

\* ... or several, in any order, that are not longer together than the file:
\* a seek, and after a move another GetObject, for each.  An error ends the
\* response, whose header has been sent.
ServeRanges ==
    /\ page.step = "range"
    /\ page' = [page EXCEPT !.step = "part", !.multi = TRUE, !.spare = reader.size]
    /\ UNCHANGED <<intakeVars, readerVars>>

ServePart(start, length) ==
    /\ page.step = "part"
    /\ InFile(start, length) /\ length <= page.spare
    /\ \/ /\ Seek(start)
          /\ page' = [page EXCEPT !.step = "copy", !.start = start,
               !.promised = length, !.bytes = 0, !.puts = {}, !.spare = @ - length]
       \/ SeekFails /\ Goto("partial")
    /\ UNCHANGED intakeVars

\* ... and io.CopyN.
Copy ==
    /\ page.step = "copy"
    /\ page.bytes < page.promised
    /\ Read(page.promised - page.bytes)
    /\ Collect(IF result'.err = "none" THEN "copy" ELSE "partial")
    /\ UNCHANGED intakeVars

Copied ==
    /\ page.step = "copy" /\ page.bytes = page.promised
    /\ \/ Goto("partial")
       \/ page.multi /\ Goto("part")
    /\ UNCHANGED <<intakeVars, readerVars>>

\* The response has ended; the deferred Close.
Finished ==
    /\ page.step \in {"whole", "partial", "error"}
    /\ Close
    /\ page' = NoPage
    /\ UNCHANGED intakeVars

Content ==
    \/ \E name \in Names, comments \in BOOLEAN, type \in {"html", "other", "unknown"} :
         Request(name, comments, type)
    \/ Inject
    \/ Measured \/ Rewind \/ Sniff
    \/ ServeWhole \/ ServeRanges \/ Copy \/ Copied
    \/ \E start, length \in 0..MaxBytes :
         ServeRange(start, length) \/ ServePart(start, length)
    \/ Finished

Next ==
    \/ StageStep
    \/ \E p \in Paths :
         \/ PublishFile(p)
         \/ \E size \in 0..MaxBytes : Overwrite(p, size)
    \/ Content

Spec == Init /\ [][Next]_vars

-----------------------------------------------------------------------------
(* Properties.                                                             *)

\* The bytes of a response with the whole file or one range of it, and those of
\* each part of a response with several, are a stretch of one object, in order,
\* never more than was promised, and a page with the bridge is sent only when all
\* of it was read: no object put in its place meanwhile, of another size or not,
\* and no connection that breaks off shows in the middle of what claims to be
\* complete (content, s3ReadSeeker, which compares lengths and turns an early end
\* into an error).  Two parts of one response may be from two objects: each part
\* is a GetObject of its own, and only the size is compared.
ResponseIntact ==
    /\ page.ordered
    /\ Cardinality(page.puts) <= 1
    /\ page.step = "copy" => page.bytes <= page.promised
    /\ page.step = "whole" => page.bytes = reader.size

\* Into every document that is sent whole the bridge's script goes where the rule
\* of comments-design.md puts it, though injectBridge overwrites comments and
\* then searches: behind the head's tag before the root's before the doctype, of
\* the first bytes only, never taken in by a tag in a comment and never itself in
\* a comment (injectBridge).  What a file says is not part of the state: it may be
\* any document.
BridgePlaced == page.step = "whole" => EveryDocumentByRule

\* A name leads out of files/ when at some segment it has gone up more often
\* than down.
Escapes(name) ==
    \E last \in DOMAIN name :
        LET ups == {i \in 1..last : name[i] = ".."}
            downs == {i \in 1..last : name[i] \notin {"..", ".", ""}}
        IN  Cardinality(ups) > Cardinality(downs)

\* No name a client makes up, with "." and ".." anywhere, opens a file outside
\* the version's files, and what the intake stored under a path is what a
\* request for that path opens (cleanRelative, in StageZIP and in Open).
OpensInside ==
    /\ page.step # "idle" => ~Escapes(page.name)
    /\ \A p \in Paths : files[p] # None => CleanRelative(p) = p
=============================================================================
