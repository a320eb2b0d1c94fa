----------------------------- MODULE EntryStore -----------------------------
(***************************************************************************)
(* The two files of a cache entry, <key>.meta and <key>.body, in the       *)
(* directory that storage.Local keeps (internal/storage/local.go), and the *)
(* system calls that cache.Cache (internal/cache/cache.go) makes on them.  *)
(*                                                                         *)
(* Local.Put is os.Create, which truncates, and then one write.  Local.Get *)
(* opens a file that is read later.  Local.Delete unlinks a name; a client *)
(* that has the file open keeps the unlinked file.  No lock orders the     *)
(* calls of two clients on one key: each call is an atomic step here and   *)
(* the steps of several clients interleave.                                *)
(*                                                                         *)
(* The archive that offline mode mounts (internal/cache/archive_storage.go)*)
(* is the same store with ReadOnly set: Put and Delete always fail.        *)
(***************************************************************************)
EXTENDS Integers

CONSTANTS
    Clients,        \* the goroutines that serve requests
    Keys,           \* the cache keys
    Metas,          \* the entry metadata that can be written
    Contents,       \* complete response bodies of at least one byte
    NoObject,       \* there is no such file
    Empty,          \* the file or the body has zero bytes
    Damaged,        \* a part of a body, or a mixture of two
    NoFile,         \* the client has no file open
    ReadOnly,       \* BOOLEAN: the store is an archive
    StorageFaults   \* BOOLEAN: a system call may fail (disk full, I/O error)

VARIABLES
    meta,           \* the <key>.meta files
    body,           \* the <key>.body files
    handle,         \* the file each client has open
    held            \* the bytes of an unlinked file a reader still has open

storeVars == <<meta, body, handle, held>>

Bodies      == Contents \cup {Empty, Damaged}
BodyObjects == Bodies \cup {NoObject}
MetaObjects == Metas \cup {NoObject, Empty, Damaged}

ASSUME StoreFlagsAssumption == ReadOnly \in BOOLEAN /\ StorageFaults \in BOOLEAN

\* An absent, an empty and a damaged file are told apart from each other and
\* from complete ones.  (A damaged .meta file does not unmarshal.)
ASSUME SentinelAssumption ==
    /\ NoObject \notin Metas \cup Contents \cup {Empty, Damaged}
    /\ Empty \notin Metas \cup Contents \cup {Damaged}
    /\ Damaged \notin Metas \cup Contents

-----------------------------------------------------------------------------
(* Open files.  A reader's mode turns from "read" to "torn" when the file is *)
(* truncated or written under it: io.ReadAll may then return a mixture.      *)

Parts   == {"meta", "body"}
Handles == [key : Keys, part : Parts, mode : {"read", "torn", "write"}, linked : BOOLEAN]

ASSUME NoFileAssumption == NoFile \notin Handles

Opened(k, part, mode) == [key |-> k, part |-> part, mode |-> mode, linked |-> TRUE]

\* The client's open file is the one that the key's name denotes.
IsLinked(c, k, part) ==
    /\ handle[c] # NoFile
    /\ handle[c].linked
    /\ handle[c].key = k
    /\ handle[c].part = part

\* All handles after client c truncated or wrote the file, keeping h itself.
Disturbed(c, k, part, h) ==
    [d \in Clients |-> IF d = c THEN h
                       ELSE IF IsLinked(d, k, part) /\ handle[d].mode = "read"
                            THEN [handle[d] EXCEPT !.mode = "torn"]
                            ELSE handle[d]]

\* What a file may hold after new is written over old from offset 0: a write
\* shorter than old leaves old's tail behind it.
Overlay(old, new) == IF old \in {Empty, new} THEN {new} ELSE {new, Damaged}

-----------------------------------------------------------------------------
(* Local.Put, first call: os.Create truncates the file or makes a new one.   *)

CreateMeta(c, k) ==
    /\ ~ReadOnly
    /\ meta' = [meta EXCEPT ![k] = Empty]
    /\ handle' = Disturbed(c, k, "meta", Opened(k, "meta", "write"))
    /\ UNCHANGED <<body, held>>

CreateBody(c, k) ==
    /\ ~ReadOnly
    /\ body' = [body EXCEPT ![k] = Empty]
    /\ handle' = Disturbed(c, k, "body", Opened(k, "body", "write"))
    /\ UNCHANGED <<meta, held>>

CreateFails(c) ==
    /\ ReadOnly \/ StorageFaults
    /\ UNCHANGED storeVars

(* Local.Put, second call: io.Copy of an in-memory reader is one write.  It  *)
(* goes to the open file, whatever the name now denotes; then f.Close.       *)

WriteMeta(c, k, m) ==
    /\ IF IsLinked(c, k, "meta")
       THEN /\ \E v \in Overlay(meta[k], m) : meta' = [meta EXCEPT ![k] = v]
            /\ handle' = Disturbed(c, k, "meta", NoFile)
       ELSE /\ handle' = [handle EXCEPT ![c] = NoFile]
            /\ UNCHANGED meta
    /\ UNCHANGED <<body, held>>

WriteBody(c, k, b) ==
    /\ IF IsLinked(c, k, "body")
       THEN /\ \E v \in Overlay(body[k], b) : body' = [body EXCEPT ![k] = v]
            /\ handle' = Disturbed(c, k, "body", NoFile)
       ELSE /\ handle' = [handle EXCEPT ![c] = NoFile]
            /\ UNCHANGED body
    /\ UNCHANGED <<meta, held>>

\* A write that fails leaves a prefix of the bytes, possibly none, in the file.
WriteMetaFails(c, k) ==
    /\ StorageFaults
    /\ IF IsLinked(c, k, "meta")
       THEN /\ \E v \in {meta[k], Damaged} : meta' = [meta EXCEPT ![k] = v]
            /\ handle' = Disturbed(c, k, "meta", NoFile)
       ELSE /\ handle' = [handle EXCEPT ![c] = NoFile]
            /\ UNCHANGED meta
    /\ UNCHANGED <<body, held>>

WriteBodyFails(c, k) ==
    /\ StorageFaults
    /\ IF IsLinked(c, k, "body")
       THEN /\ \E v \in {body[k], Damaged} : body' = [body EXCEPT ![k] = v]
            /\ handle' = Disturbed(c, k, "body", NoFile)
       ELSE /\ handle' = [handle EXCEPT ![c] = NoFile]
            /\ UNCHANGED body
    /\ UNCHANGED <<meta, held>>

-----------------------------------------------------------------------------
(* Local.Get.  The metadata is read and unmarshalled where it is opened.     *)

\* Mutant: the error of json.Unmarshal is dropped.
UnmarshalsAny(m) == m # NoObject

Unmarshals(m) == m \in Metas

\* Opening the body.  cache.Get returns the open file; ReadAll comes later.
OpenBody(c, k) ==
    /\ body[k] # NoObject
    /\ handle' = [handle EXCEPT ![c] = Opened(k, "body", "read")]
    /\ UNCHANGED <<meta, body, held>>

\* What io.ReadAll may return to a client that opened the body of k.  Its
\* error is dropped, so a failed read looks like a short file.
ReadResults(c, k) ==
    {IF handle[c].linked THEN body[k] ELSE held[c]}
        \cup (IF handle[c].mode = "torn" \/ StorageFaults THEN {Damaged} ELSE {})

CloseFile(c) ==
    /\ handle' = [handle EXCEPT ![c] = NoFile]
    /\ held' = [held EXCEPT ![c] = Empty]
    /\ UNCHANGED <<meta, body>>

-----------------------------------------------------------------------------
(* Local.Delete: os.Remove, idempotent.  Open files survive unlinked.        *)

Unlinked(k, part) ==
    [d \in Clients |-> IF IsLinked(d, k, part)
                       THEN [handle[d] EXCEPT !.linked = FALSE]
                       ELSE handle[d]]

RemoveMeta(k) ==
    /\ ~ReadOnly
    /\ meta' = [meta EXCEPT ![k] = NoObject]
    /\ handle' = Unlinked(k, "meta")
    /\ UNCHANGED <<body, held>>

RemoveBody(k) ==
    /\ ~ReadOnly
    /\ held' = [d \in Clients |-> IF IsLinked(d, k, "body") /\ handle[d].mode # "write"
                                 THEN body[k] ELSE held[d]]
    /\ body' = [body EXCEPT ![k] = NoObject]
    /\ handle' = Unlinked(k, "body")
    /\ UNCHANGED meta

RemoveFails ==
    /\ ReadOnly \/ StorageFaults
    /\ UNCHANGED storeVars

\* The process dies: its open files are closed, the directory stays.
CloseAll ==
    /\ handle' = [c \in Clients |-> NoFile]
    /\ held' = [c \in Clients |-> Empty]
    /\ UNCHANGED <<meta, body>>

StoreTypeOK ==
    /\ meta \in [Keys -> MetaObjects]
    /\ body \in [Keys -> BodyObjects]
    /\ handle \in [Clients -> Handles \cup {NoFile}]
    /\ held \in [Clients -> BodyObjects]
=============================================================================
