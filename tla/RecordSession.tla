---------------------------- MODULE RecordSession ----------------------------
(***************************************************************************)
(* The record command: requests store entries through the Recorder         *)
(* (internal/cache/recorder.go); on a signal Finalize reads the recorded   *)
(* entries back and adds them to an archive of one of three formats        *)
(* (internal/archive), which the offline command opens later.              *)
(*                                                                         *)
(* Sessions follow each other and may end in a crash at any step.  A call  *)
(* on the cache's storage is one step here (EntryStore takes them apart).  *)
(* A file of the archive is written in two steps, os.WriteFile's truncate  *)
(* and its write.  A digest is the content it is the digest of.            *)
(***************************************************************************)
EXTENDS Integers, Sequences, FiniteSets

CONSTANTS
    Keys,               \* the cache keys
    Clients,            \* the goroutines that serve requests
    Versions,           \* what is stored: a version stands for a response
    Formats,            \* the formats to record in, of "tgz", "cas" and "oci"
    Reuse,              \* those whose destination an earlier session may have used
    EntriesPerLayer,    \* --oci-entries-per-layer
    Damaged,            \* content that is only partly there
    NoObject,           \* the storage has no such object
    StorageFaults,      \* BOOLEAN: calls on the cache's storage may fail
    ArchiveFaults,      \* BOOLEAN: writes to the archive may fail
    InitialStores,      \* what the storage may hold at the start
    MaxSessions,        \* bound: the record commands that are run
    MaxCalls            \* bound: the Puts and Deletes of all sessions

Parts == {"meta", "body"}

ASSUME RecordAssumption ==
    /\ Formats \subseteq {"tgz", "cas", "oci"}
    /\ Reuse \subseteq {"cas", "oci"}
    /\ EntriesPerLayer \in Nat \ {0}
    /\ StorageFaults \in BOOLEAN /\ ArchiveFaults \in BOOLEAN
    /\ MaxSessions \in Nat /\ MaxCalls \in Nat
    /\ InitialStores \subseteq [Keys -> [Parts -> Versions \cup {NoObject}]]
    /\ Damaged \notin Versions \cup {NoObject} /\ NoObject \notin Versions

VARIABLES
    format,     \* the archive's format
    store,      \* key -> part -> what the cache's storage holds
    client,     \* client -> the cache operation it is in
    keys,       \* Recorder.keys, by base key and without repetitions
    run,        \* where the process is, and what Finalize has in hand
    writer,     \* the archive.Writer: entries added, pending ones, layers
    dest,       \* file of the archive -> its content
    sessions,   \* how many were started
    calls,      \* how many Puts and Deletes were started
    put,        \* history: the keys stored by this session's Puts that began before Finalize
    last        \* history: the entries of the last session that wrote all its files here

recordVars == <<format, keys, run, writer, dest, sessions, calls, last>>
vars == <<format, store, client, keys, run, writer, dest, sessions, calls, put, last>>

Entry(k, m, b) == [key |-> k, meta |-> m, body |-> b]

\* The files of an archive.
Index       == <<"index">>
Blob(b)     == <<"blob", b>>
Meta(k)     == <<"meta", k>>
Layer(l)    == <<"layer", l>>
Config(ks)  == <<"config", ks>>
Manifest(m) == <<"manifest", m>>

Elements(s) == {s[i] : i \in DOMAIN s}
File(f, v)  == [file |-> f, data |-> v]

Entries   == [key : Keys, meta : Versions \cup {Damaged}, body : Versions \cup {Damaged}]
Manifests == [layers : Seq(Seq(Entries)), config : SUBSET Keys]

\* A file of an archive that is only partly there is told from a whole one.
ASSUME DamagedAssumption ==
    /\ \A S \in SUBSET Entries : S # Damaged
    /\ \A S \in SUBSET (Keys \X (Versions \cup {Damaged})) : S # Damaged
    /\ \A S \in SUBSET Keys : S # Damaged
    /\ Damaged \notin Seq(Entries) /\ Damaged \notin Manifests

\* at     off, serving, or the step of Finalize
\* todo   the keys still to be read
\* meta   the metadata read
\* writes the files still to be written
\* closing  the files being written are those of writer.Close
\* result how the last session ended
\* quiet  history: while Finalize runs, no client changes the store and every read works
Off == [at |-> "off", todo |-> <<>>, meta |-> NoObject, writes |-> <<>>,
        closing |-> FALSE, result |-> "none", quiet |-> FALSE]

NewWriter == [added |-> {}, pending |-> <<>>, layers |-> <<>>]
IdleClient == [at |-> "idle"]
NoFiles   == [f \in {} |-> Damaged]

Init ==
    /\ format \in Formats
    /\ store \in InitialStores
    /\ client = [c \in Clients |-> IdleClient]
    /\ keys = <<>>
    /\ run = Off
    /\ writer = NewWriter
    /\ dest = NoFiles
    /\ sessions = 0
    /\ calls = 0
    /\ put = {}
    /\ last = {}

-----------------------------------------------------------------------------
(* The command starts: a tar.gz is truncated, a directory is made.  It ends  *)
(* after Finalize or in a crash, and its goroutines with it.                 *)

Record ==
    /\ run.at = "off"
    /\ sessions < MaxSessions
    /\ sessions' = sessions + 1
    /\ run' = [Off EXCEPT !.at = "serving"]
    /\ writer' = NewWriter
    /\ keys' = <<>>
    /\ put' = {}
    /\ IF format \in Reuse THEN UNCHANGED <<dest, last>>
       ELSE /\ dest' = IF format = "tgz" THEN [f \in {Index} |-> Damaged] ELSE NoFiles
            /\ last' = {}
    /\ UNCHANGED <<format, store, client, calls>>

Exit(r) ==
    /\ run' = [Off EXCEPT !.result = r, !.quiet = run.quiet]
    /\ client' = [c \in Clients |-> IdleClient]

Crash ==
    /\ run.at # "off"
    /\ Exit("crashed")
    /\ UNCHANGED <<format, store, keys, writer, dest, sessions, calls, put, last>>

-----------------------------------------------------------------------------
(* cache.Put and Delete through recordingStorage, in serving and, for as long *)
(* as the process lives, during Finalize: Shutdown does not end requests.     *)

Busy(c, at) == client[c].at = at /\ run.at # "off"

Go(c, at)   == client' = [client EXCEPT ![c].at = at]
Leave(c)    == client' = [client EXCEPT ![c] = IdleClient]

\* From here on Finalize is no longer undisturbed.
StartCall(c, op) ==
    /\ Busy(c, "idle")
    /\ calls < MaxCalls
    /\ calls' = calls + 1
    /\ client' = [client EXCEPT ![c] = op]
    /\ run' = [run EXCEPT !.quiet = FALSE]
    /\ UNCHANGED <<format, store, keys, writer, dest, sessions, put, last>>

StartPut(c, k, v) ==
    StartCall(c, [at |-> "meta", key |-> k, version |-> v, early |-> run.at = "serving"])

StartDelete(c, k) == StartCall(c, [at |-> "exists", key |-> k])

\* inner.Put has worked; recordEntry follows.
PutObject(c, p) ==
    /\ Busy(c, p)
    /\ store' = [store EXCEPT ![client[c].key][p] = client[c].version]
    /\ Go(c, IF p = "meta" THEN "recordMeta" ELSE "recordBody")
    /\ UNCHANGED recordVars
    /\ UNCHANGED put

PutObjectFails(c, p) ==
    /\ StorageFaults
    /\ Busy(c, p)
    /\ \E v \in {store[client[c].key][p], Damaged} :
          store' = [store EXCEPT ![client[c].key][p] = v]
    /\ Leave(c)
    /\ UNCHANGED recordVars
    /\ UNCHANGED put

\* Finalize only looks at the first occurrence of a base key.
recordEntry(k) == keys' = IF k \in Elements(keys) THEN keys ELSE Append(keys, k)

RecordMeta(c) ==
    /\ Busy(c, "recordMeta")
    /\ recordEntry(client[c].key)
    /\ Go(c, "body")
    /\ UNCHANGED <<format, store, run, writer, dest, sessions, calls, put, last>>

RecordBody(c) ==
    /\ Busy(c, "recordBody")
    /\ recordEntry(client[c].key)
    /\ put' = IF client[c].early THEN put \cup {client[c].key} ELSE put
    /\ Leave(c)
    /\ UNCHANGED <<format, store, run, writer, dest, sessions, calls, last>>

DeleteExists(c) ==
    /\ Busy(c, "exists")
    /\ IF store[client[c].key]["meta"] = NoObject THEN Leave(c) ELSE Go(c, "deleteMeta")
    /\ UNCHANGED recordVars
    /\ UNCHANGED <<store, put>>

DeleteMeta(c) ==
    /\ Busy(c, "deleteMeta")
    /\ store' = [store EXCEPT ![client[c].key]["meta"] = NoObject]
    /\ Go(c, "deleteBody")
    /\ UNCHANGED recordVars
    /\ UNCHANGED put

DeleteBody(c) ==
    /\ Busy(c, "deleteBody")
    /\ store' = [store EXCEPT ![client[c].key]["body"] = NoObject]
    /\ Leave(c)
    /\ UNCHANGED recordVars
    /\ UNCHANGED put

DeleteFails(c) ==
    /\ StorageFaults
    /\ Busy(c, "exists") \/ Busy(c, "deleteMeta") \/ Busy(c, "deleteBody")
    /\ Leave(c)
    /\ UNCHANGED recordVars
    /\ UNCHANGED <<store, put>>

-----------------------------------------------------------------------------
(* The three writers: the files that Add and Close write, in their order.    *)

\* The body under its digest, unless that file exists, and the metadata.
CASAdd(e) ==
    (IF Blob(e.body) \in DOMAIN dest THEN <<>> ELSE <<File(Blob(e.body), e.body)>>)
    \o <<File(Meta(e.key), e.meta)>>

\* A layer once enough entries are pending.
OCIAdd(e) ==
    LET pending == Append(writer.pending, e)
    IN IF Len(pending) >= EntriesPerLayer THEN <<File(Layer(pending), pending)>> ELSE <<>>

\* All of a tar.gz goes to the one file, which is not whole before it is closed.
AddWrites(e) ==
    CASE format = "tgz" -> <<>>
      [] format = "cas" -> CASAdd(e)
      [] format = "oci" -> OCIAdd(e)

\* The writer once e is added; flushLayer moves what is pending into a layer.
Added(e) ==
    LET pending == Append(writer.pending, e)
        flushed == Len(pending) >= EntriesPerLayer
    IN [added   |-> writer.added \cup {e},
        pending |-> IF flushed \/ format # "oci" THEN <<>> ELSE pending,
        layers  |-> IF flushed /\ format = "oci" THEN Append(writer.layers, pending)
                    ELSE writer.layers]

\* Mutant: Close does not flush the entries that do not fill a layer.
FullLayersOnly == writer.layers

AllLayers == IF writer.pending = <<>> THEN writer.layers
             ELSE Append(writer.layers, writer.pending)

ArchivedKeys == {e.key : e \in writer.added}

\* Mutant: the index is written before what it points to.
IndexFirst ==
    LET manifest == [layers |-> AllLayers, config |-> ArchivedKeys]
    IN <<File(Index, manifest), File(Config(ArchivedKeys), ArchivedKeys),
         File(Manifest(manifest), manifest)>>
       \o (IF Len(AllLayers) > Len(writer.layers)
           THEN <<File(Layer(writer.pending), writer.pending)>> ELSE <<>>)

OCIClose ==
    LET rest == IF Len(AllLayers) > Len(writer.layers)
                THEN <<File(Layer(writer.pending), writer.pending)>> ELSE <<>>
        manifest == [layers |-> AllLayers, config |-> ArchivedKeys]
    IN rest \o <<File(Config(ArchivedKeys), ArchivedKeys),
                 File(Manifest(manifest), manifest),
                 File(Index, manifest)>>

CASClose == <<File(Index, {<<e.key, e.body>> : e \in writer.added})>>

CloseWrites ==
    CASE format = "tgz" -> <<File(Index, writer.added)>>
      [] format = "cas" -> CASClose
      [] format = "oci" -> OCIClose

-----------------------------------------------------------------------------
(* Finalize. *)

Finalize ==
    /\ run.at = "serving"
    /\ run' = [run EXCEPT !.at = "readMeta", !.todo = keys,
                          !.quiet = \A c \in Clients : client[c] = IdleClient]
    /\ UNCHANGED <<format, store, client, keys, writer, dest, sessions, calls, put, last>>

\* Mutant: the loop ends at the first entry that is not there.
StopAtMissing(p) ==
    /\ run.todo # <<>>
    /\ LET absent == store[Head(run.todo)][p] = NoObject
       IN /\ absent \/ StorageFaults
          /\ run' = [run EXCEPT !.at = "readMeta", !.todo = <<>>, !.quiet = @ /\ absent]
    /\ UNCHANGED <<format, store, client, keys, writer, dest, sessions, calls, put, last>>

\* The first key of todo has no such object, or it cannot be read: continue.
Continue(p) ==
    /\ run.todo # <<>>
    /\ LET absent == store[Head(run.todo)][p] = NoObject
       IN /\ absent \/ StorageFaults
          /\ run' = [run EXCEPT !.at = "readMeta", !.todo = Tail(@), !.quiet = @ /\ absent]
    /\ UNCHANGED <<format, store, client, keys, writer, dest, sessions, calls, put, last>>

SkipMeta == run.at = "readMeta" /\ Continue("meta")
SkipBody == run.at = "readBody" /\ Continue("body")

\* The error of reading the metadata to its end is dropped.
ReadMeta ==
    /\ run.at = "readMeta"
    /\ run.todo # <<>>
    /\ LET m == store[Head(run.todo)]["meta"]
       IN /\ m # NoObject
          /\ \E r \in {m} \cup (IF StorageFaults THEN {Damaged} ELSE {}) :
                run' = [run EXCEPT !.at = "readBody", !.meta = r, !.quiet = @ /\ r = m]
    /\ UNCHANGED <<format, store, client, keys, writer, dest, sessions, calls, put, last>>

\* Get of the body, and writer.Add up to the files it has to write.
Add ==
    /\ run.at = "readBody"
    /\ LET k == Head(run.todo)
           e == Entry(k, run.meta, store[k]["body"])
       IN /\ e.body # NoObject
          /\ writer' = Added(e)
          /\ run' = [run EXCEPT !.at = "write", !.todo = Tail(@), !.writes = AddWrites(e)]
    /\ UNCHANGED <<format, store, client, keys, dest, sessions, calls, put, last>>

\* The body cannot be read to its end, or a write fails: Finalize returns the
\* error, and the writer is never closed.
AddFails ==
    /\ run.at = "readBody"
    /\ run.todo # <<>>
    /\ store[Head(run.todo)]["body"] # NoObject
    /\ StorageFaults \/ (ArchiveFaults /\ format = "tgz")
    /\ Exit("failed")
    /\ UNCHANGED <<format, store, keys, writer, dest, sessions, calls, put, last>>

Truncate ==
    /\ run.at = "write"
    /\ run.writes # <<>>
    /\ dest' = [f \in DOMAIN dest \cup {Head(run.writes).file} |->
                  IF f = Head(run.writes).file THEN Damaged ELSE dest[f]]
    /\ run' = [run EXCEPT !.at = "written"]
    /\ UNCHANGED <<format, store, client, keys, writer, sessions, calls, put, last>>

Write ==
    /\ run.at = "written"
    /\ dest' = [dest EXCEPT ![Head(run.writes).file] = Head(run.writes).data]
    /\ run' = [run EXCEPT !.at = "write", !.writes = Tail(@)]
    /\ last' = IF run.closing /\ Tail(run.writes) = <<>> THEN writer.added ELSE last
    /\ UNCHANGED <<format, store, client, keys, writer, sessions, calls, put>>

\* A file cannot be created or written.
WriteFails ==
    /\ ArchiveFaults
    /\ run.writes # <<>>
    /\ run.at \in {"write", "written"}
    /\ Exit("failed")
    /\ UNCHANGED <<format, store, keys, writer, dest, sessions, calls, put, last>>

NextKey ==
    /\ run.at = "write"
    /\ run.writes = <<>>
    /\ ~run.closing
    /\ run' = [run EXCEPT !.at = "readMeta"]
    /\ UNCHANGED <<format, store, client, keys, writer, dest, sessions, calls, put, last>>

Close ==
    /\ run.at = "readMeta"
    /\ run.todo = <<>>
    /\ run' = [run EXCEPT !.at = "write", !.closing = TRUE, !.writes = CloseWrites]
    /\ UNCHANGED <<format, store, client, keys, writer, dest, sessions, calls, put, last>>

Finalized ==
    /\ run.at = "write"
    /\ run.writes = <<>>
    /\ run.closing
    /\ Exit("ok")
    /\ UNCHANGED <<format, store, keys, writer, dest, sessions, calls, put, last>>

ClientStep(c) ==
    \/ \E k \in Keys : StartDelete(c, k) \/ \E v \in Versions : StartPut(c, k, v)
    \/ \E p \in Parts : PutObject(c, p) \/ PutObjectFails(c, p)
    \/ RecordMeta(c) \/ RecordBody(c)
    \/ DeleteExists(c) \/ DeleteMeta(c) \/ DeleteBody(c) \/ DeleteFails(c)

FinalizeStep ==
    \/ Finalize \/ SkipMeta \/ SkipBody \/ ReadMeta \/ Add \/ AddFails
    \/ Truncate \/ Write \/ WriteFails \/ NextKey \/ Close \/ Finalized

Next == Record \/ Crash \/ FinalizeStep \/ \E c \in Clients : ClientStep(c)

Spec == Init /\ [][Next]_vars

-----------------------------------------------------------------------------
(* NewReader and Get: what an offline proxy may see of the archive, as a set *)
(* of entries; none if it does not open.                                     *)

\* A truncated layer is read up to where it breaks, without an error: the last
\* entry may have its metadata and no body.
LayerViews(l) ==
    IF dest[Layer(l)] # Damaged THEN {Elements(l)}
    ELSE UNION {{Elements(SubSeq(l, 1, n))} \cup
                (IF n = Len(l) THEN {} ELSE
                    {Elements(SubSeq(l, 1, n)) \cup {[l[n + 1] EXCEPT !.body = Damaged]}})
                : n \in 0..Len(l)}

OCIViews ==
    LET m == dest[Index]
        n == Len(m.layers)
        Readable(f) == f \in DOMAIN dest /\ dest[f] # Damaged
    IN IF \/ ~Readable(Manifest(m))
          \/ ~Readable(Config(m.config))
          \/ \E i \in 1..n : Layer(m.layers[i]) \notin DOMAIN dest
       THEN {}
       ELSE {UNION Elements(p) : p \in
                {q \in [1..n -> UNION {LayerViews(m.layers[i]) : i \in 1..n}] :
                    \A i \in 1..n : q[i] \in LayerViews(m.layers[i])}}

CASView ==
    {Entry(x[1], dest[Meta(x[1])], dest[Blob(x[2])]) :
        x \in {y \in dest[Index] : {Meta(y[1]), Blob(y[2])} \subseteq DOMAIN dest}}

Views ==
    IF Index \notin DOMAIN dest THEN {}
    ELSE IF dest[Index] = Damaged THEN {}
    ELSE CASE format = "tgz" -> {dest[Index]}
           [] format = "cas" -> {CASView}
           [] format = "oci" -> OCIViews

-----------------------------------------------------------------------------
(* Properties. *)

\* A session that reports its archive as finalized leaves one that opens and
\* gives exactly the entries that Finalize read, whatever an earlier session
\* left at the destination (NewReader after Close).
FinalizedReplays == run.at = "off" /\ run.result = "ok" => Views = {writer.added}

\* If no request was under way when Finalize began and none came, every entry
\* that the session stored and that is still whole is in the archive as the
\* cache holds it, although puts have failed and entries were deleted before
\* (Recorder, Finalize).
QuietComplete ==
    run.at = "off" /\ run.result = "ok" /\ run.quiet =>
        \A k \in put : (\A p \in Parts : store[k][p] # NoObject) =>
            \A v \in Views : Entry(k, store[k]["meta"], store[k]["body"]) \in v

\* A session that crashed or failed on the way leaves nothing of its own to be
\* opened, unless all its files were written: what opens is the archive of the last
\* session of which they were (Close writes the index last).  The exception is a
\* layer of both, which the unfinished one may have truncated: entries may be
\* missing from it, or the body of one.
UnfinishedStaysOut ==
    run.at = "off" /\ run.result # "ok" => \A v \in Views : \A e \in v :
        \/ e \in last
        \/ format = "oci" /\ e.body = Damaged /\ \E o \in last : o.key = e.key /\ o.meta = e.meta

=============================================================================
