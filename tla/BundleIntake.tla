---------------------------- MODULE BundleIntake ----------------------------
(***************************************************************************)
(* Store.StageZIP from the inside: how one PUT's archive is measured,      *)
(* checked and expanded into the staging directory.  Publishing has the    *)
(* handlers that compete for that directory; here one handler holds it.    *)
(*                                                                         *)
(* An archive is met entry by entry: its name, what the header declares    *)
(* and what the entry turns out to expand to are chosen when the loop gets *)
(* to it.  Every return but the last runs the deferred RemoveAll, and the  *)
(* client may then try again with another archive.                         *)
(***************************************************************************)
EXTENDS BundlePaths

CONSTANTS
    Entrypoint, \* the session's entrypoint, cleaned
    MaxFiles,   \* RENDERCASE_MAX_BUNDLE_FILES
    Word,       \* 2^64: sizes are compared as uint64
    Archives,   \* the sizes of the archives that are sent
    MaxSize     \* bound on the sizes of their entries

ASSUME IntakeAssumption ==
    /\ MaxFiles \in Nat \ {0}
    /\ Word \in Nat /\ Word > MaxBytes
    /\ Archives \subseteq Nat
    /\ MaxSize \in Nat /\ MaxSize < Word
    /\ None \notin Int

VARIABLES
    phase,   \* where StageZIP is, or how it ended
    zip,     \* bytes of bundle.zip in the staging directory
    pending, \* entries the loop has not got to
    entry,   \* the entry being expanded
    part,    \* bytes of its file so far
    total,   \* bytes of the files before it
    files    \* the size of each expanded file

intakeVars == <<phase, zip, pending, entry, part, total, files>>

NoFiles == [p \in Paths |-> None]
NoEntry == [path |-> None, declared |-> 0]
Entries == [path : Paths \cup {None}, declared : 0..MaxSize]

Phases == {"ready", "archive", "entries", "expand", "measure",
           "accepted", "too large", "invalid", "failed"}

IntakeTypeOK ==
    /\ phase \in Phases
    /\ zip \in 0..MaxBytes + 1
    /\ pending \in 0..MaxFiles
    /\ entry \in Entries
    /\ part \in 0..MaxBytes + 1
    /\ total \in Int
    /\ files \in [Paths -> Int \cup {None}]

IntakeInit ==
    /\ phase = "ready"
    /\ zip = 0 /\ pending = 0 /\ part = 0 /\ total = 0
    /\ entry = NoEntry
    /\ files = NoFiles

\* Variant: every entry may fill the whole bundle.
RemainingFresh == MaxBytes

Remaining == MaxBytes - total

\* uint64(x)
Unsigned(x) == x % Word

\* An early return: the deferred RemoveAll takes the whole stage away.
Return(how) ==
    /\ phase' = how
    /\ zip' = 0 /\ pending' = 0 /\ part' = 0 /\ total' = 0
    /\ entry' = NoEntry
    /\ files' = NoFiles

-----------------------------------------------------------------------------

\* Mkdir, and io.Copy of at most MaxBundleBytes+1 bytes of the request body.
Receive(bytes) ==
    /\ phase \in {"ready", "too large", "invalid", "failed"}
    /\ phase' = "archive"
    /\ zip' = Least(bytes, MaxBytes + 1)
    /\ UNCHANGED <<pending, entry, part, total, files>>

\* Variant: the entries are not counted.
OpenArchiveAny(count) ==
    /\ phase = "archive"
    /\ \/ zip > MaxBytes /\ Return("too large")
       \/ /\ zip <= MaxBytes
          /\ phase' = "entries"
          /\ pending' = count
          /\ UNCHANGED <<zip, entry, part, total, files>>

\* SizeLimitError, a file that is no archive or that has too many entries; or
\* the loop begins.
OpenArchive(count) ==
    /\ phase = "archive"
    /\ \/ zip > MaxBytes /\ Return("too large")
       \/ zip <= MaxBytes /\ Return("invalid")
       \/ /\ zip <= MaxBytes
          /\ count <= MaxFiles
          /\ phase' = "entries"
          /\ pending' = count
          /\ UNCHANGED <<zip, entry, part, total, files>>

\* A directory's entry is passed over once its name has been checked.
SkipDirectory(name) ==
    /\ phase = "entries" /\ pending > 0
    /\ ~Dotted(name) /\ CleanRelative(name) # None
    /\ pending' = pending - 1
    /\ UNCHANGED <<phase, zip, entry, part, total, files>>

\* A bad name, a symbolic link, a path met before, a size that does not fit.
RejectEntry(name, declared, regular) ==
    LET path == CleanRelative(name) IN
    /\ phase = "entries" /\ pending > 0
    /\ \/ Dotted(name) \/ path = None
       \/ /\ ~Directory(name)
          /\ \/ ~regular
             \/ path # None /\ files[path] # None
             \/ declared > Unsigned(Remaining)
    /\ Return("invalid")

\* MkdirAll and the exclusive create.
CreateFile(name, declared) ==
    LET path == CleanRelative(name) IN
    /\ phase = "entries" /\ pending > 0
    /\ ~Dotted(name) /\ ~Directory(name)
    /\ path # None
    /\ files[path] = None
    /\ declared <= Unsigned(Remaining)
    /\ \A p \in Paths : files[p] # None => ~IsPrefix(p, path) /\ ~IsPrefix(path, p)
    /\ phase' = "expand"
    /\ entry' = [path |-> path, declared |-> declared]
    /\ pending' = pending - 1
    /\ UNCHANGED <<zip, part, total, files>>

\* io.Copy of at most remaining+1 bytes.
Expand(actual) ==
    /\ phase = "expand"
    /\ phase' = "measure"
    /\ part' = Least(actual, Remaining + 1)
    /\ UNCHANGED <<zip, pending, entry, total, files>>

\* The copied size against what remains and what was declared.
Measure ==
    /\ phase = "measure"
    /\ IF part > Remaining \/ part # entry.declared
         THEN Return("invalid")
         ELSE /\ phase' = "entries"
              /\ files' = [files EXCEPT ![entry.path] = part]
              /\ total' = total + part
              /\ part' = 0
              /\ entry' = NoEntry
              /\ UNCHANGED <<zip, pending>>

\* The entrypoint must be there; manifest.json is written, bundle.zip removed.
Finish ==
    /\ phase = "entries" /\ pending = 0
    /\ IF files[Entrypoint] = None
         THEN Return("invalid")
         ELSE /\ phase' = "accepted"
              /\ zip' = 0
              /\ UNCHANGED <<pending, entry, part, total, files>>

\* The disk, the decompressor, a file where a directory is needed, or a request
\* that was cancelled.
Fail ==
    /\ phase \in {"archive", "entries", "expand", "measure"}
    /\ Return("failed")

Stage ==
    \/ \E bytes \in Archives : Receive(bytes)
    \/ \E actual \in 0..MaxSize : Expand(actual)
    \/ \E count \in 0..MaxFiles + 1 : OpenArchive(count)
    \/ \E name \in Names, declared \in 0..MaxSize :
         \/ CreateFile(name, declared)
         \/ \E regular \in BOOLEAN : RejectEntry(name, declared, regular)
    \/ \E name \in Names : SkipDirectory(name)
    \/ Measure \/ Finish \/ Fail

IntakeSpec == IntakeInit /\ [][Stage]_intakeVars

-----------------------------------------------------------------------------
(* Properties.                                                             *)

\* Whatever an archive declares and whatever it expands to, its files never take
\* more than one byte over the bundle limit on disk, and the archive itself no
\* more than that; the files that are kept keep to the limit together (StageZIP's
\* LimitReaders and its running total, which is compared as an unsigned number).
ExpansionBounded ==
    /\ zip <= MaxBytes + 1
    /\ total + part <= MaxBytes + 1
    /\ total \in 0..MaxBytes
    /\ \A p \in Paths : files[p] # None => files[p] \in 0..total
=============================================================================
