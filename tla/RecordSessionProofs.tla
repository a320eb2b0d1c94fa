------------------------ MODULE RecordSessionProofs ------------------------
(***************************************************************************)
(* Proofs about recording, for any number of keys, clients, sessions,      *)
(* stored versions and entries in a layer: what a finished archive holds,  *)
(* and what one may see of the archive that an unfinished session leaves.  *)
(*                                                                         *)
(* The argument is about the files.  All the files of a session's archive  *)
(* are on disk or still in its list of writes, the index is the last of    *)
(* the list, and the index on disk describes the last archive that was     *)
(* completed.                                                              *)
(***************************************************************************)
EXTENDS RecordSession, SequenceTheorems, TLAPS

-----------------------------------------------------------------------------
(* Sequences and names of files.                                             *)

Once(s) == \A i, j \in DOMAIN s : s[i] = s[j] => i = j

LEMMA ElementsFacts ==
    ASSUME NEW S, NEW s \in Seq(S)
    PROVE  /\ DOMAIN s = 1..Len(s) /\ Len(s) \in Nat
           /\ Elements(s) \subseteq S /\ s \in Seq(Elements(s))
           /\ s = <<>> <=> Len(s) = 0
<1>1. DOMAIN s = 1..Len(s) /\ Len(s) \in Nat /\ \A i \in 1..Len(s) : s[i] \in S
  BY LenProperties, ElementOfSeq
<1>2. s \in Seq(Elements(s))
  BY <1>1 DEF Elements
<1> QED
  BY <1>1, <1>2, EmptySeq DEF Elements

\* What the sequences of ls hold together.
EntriesIn(ls) == UNION {Elements(l) : l \in Elements(ls)}

LEMMA EntriesInFacts ==
    ASSUME NEW ls, NEW x
    PROVE  x \in EntriesIn(ls) <=> \E l \in Elements(ls) : x \in Elements(l)
  BY DEF EntriesIn

LEMMA EntriesInAdd ==
    ASSUME NEW ls, NEW ms, NEW l, Elements(ms) = Elements(ls) \cup {l}
    PROVE  EntriesIn(ms) = EntriesIn(ls) \cup Elements(l)
<1>1. \A x : x \in EntriesIn(ms) <=> x \in EntriesIn(ls) \cup Elements(l)
  BY EntriesInFacts
<1> QED
  BY <1>1

LEMMA EmptyFacts == /\ Elements(<<>>) = {} /\ Once(<<>>) /\ EntriesIn(<<>>) = {}
                    /\ \A S : <<>> \in Seq(S)
  BY DEF Elements, Once, EntriesIn

LEMMA ConcatFacts ==
    ASSUME NEW S, NEW s \in Seq(S), NEW t \in Seq(S)
    PROVE  /\ s \o t \in Seq(S) /\ Len(s \o t) = Len(s) + Len(t)
           /\ Elements(s \o t) = Elements(s) \cup Elements(t)
<1>1. /\ s \o t \in Seq(S) /\ Len(s \o t) = Len(s) + Len(t)
      /\ \A i \in 1..Len(s) + Len(t) :
            (s \o t)[i] = IF i <= Len(s) THEN s[i] ELSE t[i - Len(s)]
  BY ConcatProperties
<1>2. /\ DOMAIN s = 1..Len(s) /\ DOMAIN t = 1..Len(t) /\ Len(s) \in Nat /\ Len(t) \in Nat
      /\ DOMAIN (s \o t) = 1..Len(s) + Len(t)
  BY <1>1, ElementsFacts
<1> DEFINE r == s \o t
<1> HIDE DEF r
<1>3. /\ DOMAIN r = 1..Len(s) + Len(t)
      /\ \A i \in 1..Len(s) + Len(t) : r[i] = IF i <= Len(s) THEN s[i] ELSE t[i - Len(s)]
  BY <1>1, <1>2 DEF r
<1>4. ASSUME NEW x \in Elements(r) PROVE x \in Elements(s) \cup Elements(t)
  <2>1. PICK i \in 1..Len(s) + Len(t) : r[i] = x
    BY <1>3, <1>4 DEF Elements
  <2>2. CASE i <= Len(s)
    BY <1>2, <1>3, <2>1, <2>2 DEF Elements
  <2>3. CASE i > Len(s)
    <3>1. i - Len(s) \in DOMAIN t /\ t[i - Len(s)] = x
      BY <1>2, <1>3, <2>1, <2>3
    <3> QED
      BY <3>1 DEF Elements
  <2> QED
    BY <1>2, <2>1, <2>2, <2>3
<1>5. ASSUME NEW x \in Elements(s) PROVE x \in Elements(r)
  <2>1. PICK i \in 1..Len(s) : s[i] = x
    BY <1>2, <1>5 DEF Elements
  <2>2. i \in DOMAIN r /\ r[i] = x
    BY <1>2, <1>3, <2>1
  <2> QED
    BY <2>2 DEF Elements
<1>6. ASSUME NEW x \in Elements(t) PROVE x \in Elements(r)
  <2>1. PICK i \in 1..Len(t) : t[i] = x
    BY <1>2, <1>6 DEF Elements
  <2>2. i + Len(s) \in DOMAIN r /\ r[i + Len(s)] = x
    BY <1>2, <1>3, <2>1
  <2> QED
    BY <2>2 DEF Elements
<1> QED
  BY <1>1, <1>4, <1>5, <1>6 DEF r

LEMMA AppendFacts ==
    ASSUME NEW S, NEW s \in Seq(S), NEW x \in S
    PROVE  /\ Append(s, x) \in Seq(S) /\ Append(s, x) # <<>>
           /\ Len(Append(s, x)) = Len(s) + 1
           /\ Elements(Append(s, x)) = Elements(s) \cup {x}
           /\ Once(s) /\ x \notin Elements(s) => Once(Append(s, x))
<1> DEFINE r == Append(s, x)
<1>1. /\ r \in Seq(S) /\ r # <<>> /\ Len(r) = Len(s) + 1
      /\ \A i \in 1..Len(s) : r[i] = s[i]
      /\ r[Len(s) + 1] = x
  BY AppendProperties
<1> HIDE DEF r
<1>2. /\ DOMAIN s = 1..Len(s) /\ Len(s) \in Nat /\ DOMAIN r = 1..Len(s) + 1
  BY <1>1, ElementsFacts
<1>3. Elements(r) = Elements(s) \cup {x}
  BY <1>1, <1>2 DEF Elements
<1>4. Once(s) /\ x \notin Elements(s) => Once(r)
  BY <1>1, <1>2 DEF Once, Elements
<1> QED
  BY <1>1, <1>3, <1>4 DEF r

LEMMA TailFacts ==
    ASSUME NEW S, NEW s \in Seq(S), s # <<>>
    PROVE  /\ Head(s) \in S /\ Tail(s) \in Seq(S) /\ Len(Tail(s)) = Len(s) - 1
           /\ Head(s) = s[1] /\ \A i \in 1..Len(s) - 1 : Tail(s)[i] = s[i + 1]
           /\ Elements(s) = Elements(Tail(s)) \cup {Head(s)}
           /\ Once(s) => Once(Tail(s)) /\ Head(s) \notin Elements(Tail(s))
<1> DEFINE t == Tail(s)
<1>1. /\ Head(s) \in S /\ t \in Seq(S) /\ Len(t) = Len(s) - 1 /\ Head(s) = s[1]
      /\ \A i \in 1..Len(t) : t[i] = s[i + 1]
  BY HeadTailProperties
<1> HIDE DEF t
<1>2. /\ DOMAIN s = 1..Len(s) /\ Len(s) \in Nat /\ Len(s) # 0
      /\ DOMAIN t = 1..Len(s) - 1
  BY <1>1, ElementsFacts
<1>3. ASSUME NEW x \in Elements(s) PROVE x \in Elements(t) \cup {Head(s)}
  <2>1. PICK i \in 1..Len(s) : s[i] = x
    BY <1>2, <1>3 DEF Elements
  <2>2. CASE i = 1
    BY <1>1, <2>1, <2>2
  <2>3. CASE i # 1
    <3>1. i - 1 \in DOMAIN t /\ t[i - 1] = x
      BY <1>1, <1>2, <2>1, <2>3
    <3> QED
      BY <3>1 DEF Elements
  <2> QED
    BY <2>2, <2>3
<1>4. Elements(t) \cup {Head(s)} \subseteq Elements(s)
  BY <1>1, <1>2 DEF Elements
<1>5. Once(s) => Once(t) /\ Head(s) \notin Elements(t)
  <2> SUFFICES ASSUME Once(s) PROVE Once(t) /\ Head(s) \notin Elements(t)
    OBVIOUS
  <2>1. \A i, j \in 1..Len(s) : s[i] = s[j] => i = j
    BY <1>2 DEF Once
  <2>2. ASSUME NEW i \in DOMAIN t PROVE t[i] = s[i + 1] /\ i + 1 \in 1..Len(s) /\ i + 1 # 1
    BY <1>1, <1>2
  <2>3. Once(t)
    BY <1>2, <2>1, <2>2 DEF Once
  <2>4. Head(s) \notin Elements(t)
    BY <1>1, <1>2, <2>1, <2>2 DEF Elements
  <2> QED
    BY <2>3, <2>4
<1> QED
  BY <1>1, <1>2, <1>3, <1>4, <1>5 DEF t

\* The names of an archive's files tell what is in them.
LEMMA FileNames ==
    /\ \A b : Blob(b) # Index /\ Blob(b)[1] = "blob" /\ Blob(b)[2] = b
    /\ \A k : Meta(k) # Index /\ Meta(k)[1] = "meta" /\ Meta(k)[2] = k
    /\ \A l : Layer(l) # Index /\ Layer(l)[1] = "layer" /\ Layer(l)[2] = l
    /\ \A ks : Config(ks) # Index /\ Config(ks)[1] = "config" /\ Config(ks)[2] = ks
    /\ \A m : Manifest(m) # Index /\ Manifest(m)[1] = "manifest" /\ Manifest(m)[2] = m
  BY DEF Index, Blob, Meta, Layer, Config, Manifest

-----------------------------------------------------------------------------
(* The inductive invariant.                                                  *)

Contents == Versions \cup {Damaged}
Objects  == Contents \cup {NoObject}

Operation == {IdleClient}
    \cup [at : {"meta", "recordMeta", "body", "recordBody"}, key : Keys, version : Versions,
          early : BOOLEAN]
    \cup [at : {"exists", "deleteMeta", "deleteBody"}, key : Keys]

Places == {"off", "serving", "readMeta", "readBody", "write", "written"}

Results == {"none", "ok", "failed", "crashed"}

Whole(w) == w.file \in DOMAIN dest /\ dest[w.file] = w.data

\* All writes of the session have been named, or done.
Closed == run.closing \/ (run.at = "off" /\ run.result = "ok")

\* The files of the entries that the writer has, as far as they are not pending.
EntryFiles ==
    CASE format = "tgz" -> {}
      [] format = "cas" -> {File(Blob(e.body), e.body) : e \in writer.added}
                             \cup {File(Meta(e.key), e.meta) : e \in writer.added}
      [] format = "oci" -> {File(Layer(l), l) : l \in Elements(writer.layers)}

\* The files of the session's archive.
Required == EntryFiles \cup (IF Closed THEN Elements(CloseWrites) ELSE {})

\* What the process has in hand, if R is the set of files it may have to write.
Runs(R) == [at : Places, todo : Seq(Keys), meta : Objects, writes : Seq(R),
            closing : BOOLEAN, result : Results, quiet : BOOLEAN]

RecordTypeOK ==
    /\ format \in Formats
    /\ store \in [Keys -> [Parts -> Objects]]
    /\ client \in [Clients -> Operation]
    /\ keys \in Seq(Keys) /\ Once(keys)
    /\ run \in Runs(Required)
    /\ writer \in [added : SUBSET Entries, pending : Seq(Entries), layers : Seq(Seq(Entries))]
    /\ dest = [f \in DOMAIN dest |-> dest[f]]
    /\ last \subseteq Entries

\* Where the process may be with what in hand.
InPlace ==
    /\ run.at \in {"off", "serving"} => ~run.closing /\ run.todo = <<>>
    /\ run.at = "serving" => writer = NewWriter
    /\ run.at \notin {"write", "written"} => run.writes = <<>> /\ ~run.closing
    /\ run.at = "readBody" => run.todo # <<>> /\ run.meta # NoObject
    /\ run.at = "written" => run.writes # <<>> /\ Head(run.writes).file \in DOMAIN dest
    /\ run.closing => run.todo = <<>>

\* Every key is read once.
ReadOnce ==
    /\ Once(run.todo)
    /\ \A e \in writer.added : e.key \notin Elements(run.todo)
    /\ \A d, e \in writer.added : d.key = e.key => d = e

\* A layer is flushed with all that was pending.
NoneLost ==
    format = "oci" =>
        writer.added = EntriesIn(writer.layers) \cup Elements(writer.pending)

\* While a session runs and once it has finished, its files are there or yet to
\* be written; a blob of a CAS directory that is there is not written again.
FilesKept ==
    run.at # "off" \/ run.result = "ok" =>
        /\ \A w \in Required : Whole(w) \/ w \in Elements(run.writes)
        /\ format = "cas" => \A b \in Contents : Blob(b) \in DOMAIN dest =>
              \/ dest[Blob(b)] = b
              \/ File(Blob(b), b) \in Elements(run.writes)

\* The index is the last of the files, and no other file of an archive is one.
IndexLast ==
    \A i \in DOMAIN run.writes :
        run.writes[i].file = Index <=> run.closing /\ i = Len(run.writes)

IndexWhole == Index \in DOMAIN dest /\ dest[Index] # Damaged

\* What an index says of a set of entries.
Describes(index, S) ==
    CASE format = "tgz" -> index = S
      [] format = "cas" -> index = {<<e.key, e.body>> : e \in S}
      [] format = "oci" -> /\ index \in Manifests
                           /\ EntriesIn(index.layers) = S

\* All files of the session are written.
Complete == Closed /\ run.writes = <<>>

\* The index is that of the last archive that was completed.  In a directory of
\* its own a session has no index before that.
IndexSound ==
    /\ IndexWhole => Describes(dest[Index], last)
    /\ Complete => last = writer.added
    /\ format # "oci" =>
          /\ run.at # "off" /\ ~Complete => ~IndexWhole
          /\ format = "cas" /\ IndexWhole => \A e \in last :
                Whole(File(Blob(e.body), e.body)) /\ Whole(File(Meta(e.key), e.meta))

FileInv == RecordTypeOK /\ InPlace /\ ReadOnce /\ NoneLost /\ FilesKept /\ IndexLast /\ IndexSound

\* What the archive has or will have of a key that was put, if nothing disturbs
\* Finalize: the entry as the storage holds it.
Gathered(k) ==
    \/ k \in Elements(run.todo)
    \/ \E p \in Parts : store[k][p] = NoObject
    \/ Entry(k, store[k]["meta"], store[k]["body"]) \in writer.added

QuietInv ==
    /\ put \subseteq Keys
    /\ run.at = "serving" => put \subseteq Elements(keys)
    /\ run.quiet /\ run.at \in {"readMeta", "readBody", "write", "written"} =>
          /\ \A c \in Clients : client[c] = IdleClient
          /\ run.at = "readBody" => run.meta = store[Head(run.todo)]["meta"]
    /\ run.quiet => run.at # "serving"
    /\ run.quiet /\ (run.at # "off" \/ run.result = "ok") => \A k \in put : Gathered(k)

-----------------------------------------------------------------------------
(* The files of an archive.                                                  *)

\* What Close puts into the index.
IndexData ==
    CASE format = "tgz" -> writer.added
      [] format = "cas" -> {<<e.key, e.body>> : e \in writer.added}
      [] format = "oci" -> [layers |-> AllLayers, config |-> ArchivedKeys]

LEMMA FormatCases ==
    ASSUME RecordTypeOK
    PROVE  /\ format \in {"tgz", "cas", "oci"}
           /\ writer.added \subseteq Entries
           /\ writer.pending \in Seq(Entries)
           /\ writer.layers \in Seq(Seq(Entries))
  BY RecordAssumption DEF RecordTypeOK

\* All layers are those that were flushed and what is pending.
LEMMA AllLayersFacts ==
    ASSUME RecordTypeOK
    PROVE  /\ AllLayers \in Seq(Seq(Entries))
           /\ Len(AllLayers) > Len(writer.layers) <=> writer.pending # <<>>
           /\ Elements(AllLayers) =
                 Elements(writer.layers)
                    \cup (IF writer.pending = <<>> THEN {} ELSE {writer.pending})
<1>1. writer.layers \in Seq(Seq(Entries)) /\ writer.pending \in Seq(Entries)
  BY FormatCases
<1>2. Len(writer.layers) \in Nat
  BY <1>1
<1>3. CASE writer.pending = <<>>
  BY <1>1, <1>2, <1>3 DEF AllLayers
<1>4. CASE writer.pending # <<>>
  <2>1. /\ Append(writer.layers, writer.pending) \in Seq(Seq(Entries))
        /\ Len(Append(writer.layers, writer.pending)) = Len(writer.layers) + 1
        /\ Elements(Append(writer.layers, writer.pending))
              = Elements(writer.layers) \cup {writer.pending}
    BY <1>1, AppendFacts
  <2> QED
    BY <1>2, <1>4, <2>1 DEF AllLayers
<1> QED
  BY <1>3, <1>4

LEMMA OneFile ==
    ASSUME NEW x
    PROVE  /\ <<x>> \in Seq({x}) /\ <<x>> # <<>> /\ Len(<<x>>) = 1
           /\ Elements(<<x>>) = {x} /\ DOMAIN <<x>> = {1} /\ <<x>>[1] = x
  BY DEF Elements

\* Close writes the index last, and all that an OCI layout needs before it.
LEMMA CloseFacts ==
    ASSUME RecordTypeOK
    PROVE  /\ CloseWrites \in Seq(Elements(CloseWrites)) /\ CloseWrites # <<>>
           /\ \A i \in DOMAIN CloseWrites :
                 CloseWrites[i].file = Index <=> i = Len(CloseWrites)
           /\ Elements(CloseWrites) = {File(Index, IndexData)}
                 \cup IF format = "oci"
                      THEN (IF writer.pending = <<>> THEN {}
                            ELSE {File(Layer(writer.pending), writer.pending)})
                            \cup {File(Config(ArchivedKeys), ArchivedKeys),
                                  File(Manifest(IndexData), IndexData)}
                      ELSE {}
<1> DEFINE index == File(Index, IndexData)
<1>1. CASE format # "oci"
  <2>1. CloseWrites = <<index>>
    BY <1>1, FormatCases DEF CloseWrites, CASClose, IndexData
  <2>2. index.file = Index
    BY DEF File
  <2> HIDE DEF index
  <2> QED
    BY <1>1, <2>1, <2>2, OneFile DEF index
<1>2. CASE format = "oci"
  <2> DEFINE rest == IF writer.pending # <<>>
                     THEN <<File(Layer(writer.pending), writer.pending)>> ELSE <<>>
             tail == <<File(Config(ArchivedKeys), ArchivedKeys),
                       File(Manifest(IndexData), IndexData), index>>
  <2>1. CloseWrites = rest \o tail
    BY <1>2, AllLayersFacts DEF CloseWrites, OCIClose, IndexData
  <2> DEFINE S == Elements(rest) \cup Elements(tail)
  <2>2. /\ tail \in Seq(Elements(tail)) /\ Len(tail) = 3
        /\ Elements(tail) = {File(Config(ArchivedKeys), ArchivedKeys),
                             File(Manifest(IndexData), IndexData), index}
        /\ tail[1].file # Index /\ tail[2].file # Index /\ tail[3].file = Index
    BY FileNames DEF Elements, File
  <2>3. /\ rest \in Seq(Elements(rest))
        /\ Len(rest) = 0 \/ (Len(rest) = 1 /\ rest[1].file # Index)
        /\ Elements(rest) = IF writer.pending = <<>> THEN {}
                            ELSE {File(Layer(writer.pending), writer.pending)}
    <3>1. CASE writer.pending = <<>>
      BY <3>1, EmptyFacts
    <3>2. CASE writer.pending # <<>>
      <4>1. rest = <<File(Layer(writer.pending), writer.pending)>>
        BY <3>2
      <4>2. File(Layer(writer.pending), writer.pending).file # Index
        BY FileNames DEF File
      <4>3. Len(rest) = 1 /\ rest[1].file # Index
        BY <4>1, <4>2, OneFile
      <4> HIDE DEF rest
      <4> QED
        BY <3>2, <4>1, <4>3, OneFile
    <3> QED
      BY <3>1, <3>2
  <2> HIDE DEF rest, tail, index
  <2>4. rest \in Seq(S) /\ tail \in Seq(S)
    BY <2>2, <2>3, SeqMonotonic
  <2>5. /\ rest \o tail \in Seq(S) /\ Len(rest \o tail) = Len(rest) + 3
        /\ Elements(rest \o tail) = S
        /\ \A i \in 1..Len(rest) + 3 :
              (rest \o tail)[i] = IF i <= Len(rest) THEN rest[i] ELSE tail[i - Len(rest)]
    <3>1. /\ rest \o tail \in Seq(S) /\ Len(rest \o tail) = Len(rest) + Len(tail)
          /\ Elements(rest \o tail) = S
      BY <2>4, ConcatFacts
    <3>2. \A i \in 1..Len(rest) + Len(tail) :
              (rest \o tail)[i] = IF i <= Len(rest) THEN rest[i] ELSE tail[i - Len(rest)]
      BY <2>4, ConcatProperties
    <3> QED
      BY <2>2, <3>1, <3>2
  <2>6. /\ DOMAIN (rest \o tail) = 1..Len(rest) + 3
        /\ rest \o tail # <<>>
    BY <2>3, <2>5, ElementsFacts
  <2>7. ASSUME NEW i \in 1..Len(rest) + 3
        PROVE  (rest \o tail)[i].file = Index <=> i = Len(rest) + 3
    BY <2>2, <2>3, <2>5
  <2> QED
    BY <1>2, <2>1, <2>2, <2>3, <2>5, <2>6, <2>7 DEF index
<1> QED
  BY <1>1, <1>2

LEMMA IndexDataFacts ==
    ASSUME RecordTypeOK, NoneLost
    PROVE  IndexData # Damaged /\ Describes(IndexData, writer.added)
<1>1. CASE format = "tgz"
  BY <1>1, FormatCases, DamagedAssumption DEF IndexData, Describes
<1>2. CASE format = "cas"
  <2>1. {<<e.key, e.body>> : e \in writer.added} \subseteq Keys \X (Versions \cup {Damaged})
    BY FormatCases DEF Entries
  <2>2. IndexData = {<<e.key, e.body>> : e \in writer.added}
    BY <1>2 DEF IndexData
  <2>3. Describes(IndexData, writer.added)
    BY <1>2, <2>2 DEF Describes
  <2>4. IndexData # Damaged
    <3> DEFINE pairs == {<<e.key, e.body>> : e \in writer.added}
    <3>1. pairs \in SUBSET (Keys \X (Versions \cup {Damaged}))
      BY <2>1
    <3> HIDE DEF pairs
    <3>2. pairs # Damaged
      BY <3>1, DamagedAssumption
    <3> QED
      BY <2>2, <3>2 DEF pairs
  <2> QED
    BY <2>3, <2>4
<1>3. CASE format = "oci"
  <2>1. ArchivedKeys \subseteq Keys
    BY FormatCases DEF ArchivedKeys, Entries
  <2>2. IndexData = [layers |-> AllLayers, config |-> ArchivedKeys]
    BY <1>3 DEF IndexData
  <2>3. IndexData \in Manifests
    BY <2>1, <2>2, AllLayersFacts DEF Manifests
  <2>4. EntriesIn(AllLayers) = writer.added
    <3>1. writer.added = EntriesIn(writer.layers) \cup Elements(writer.pending)
      BY <1>3 DEF NoneLost
    <3>2. CASE writer.pending = <<>>
      BY <3>1, <3>2, EmptyFacts DEF AllLayers
    <3>3. CASE writer.pending # <<>>
      <4>1. Elements(AllLayers) = Elements(writer.layers) \cup {writer.pending}
        BY <3>3, AllLayersFacts
      <4> QED
        BY <3>1, <4>1, EntriesInAdd
    <3> QED
      BY <3>2, <3>3
  <2>5. IndexData.layers = AllLayers
    BY <2>2
  <2> QED
    BY <1>3, <2>3, <2>4, <2>5, DamagedAssumption DEF Describes
<1> QED
  BY <1>1, <1>2, <1>3, FormatCases

\* Every file of an archive is of one of six kinds.
LEMMA RequiredShape ==
    ASSUME RecordTypeOK, NEW w \in Required
    PROVE  \/ w = File(Index, IndexData) /\ Closed
           \/ format = "cas" /\ \E e \in writer.added : w = File(Blob(e.body), e.body)
           \/ format = "cas" /\ \E e \in writer.added : w = File(Meta(e.key), e.meta)
           \/ \E l : w = File(Layer(l), l)
           \/ \E ks : w = File(Config(ks), ks)
           \/ \E m : w = File(Manifest(m), m)
<1>1. CASE w \in EntryFiles
  BY <1>1, FormatCases DEF EntryFiles
<1>2. CASE Closed /\ w \in Elements(CloseWrites)
  BY <1>2, CloseFacts
<1> QED
  BY <1>1, <1>2 DEF Required

\* A file has one content.
LEMMA OneContent ==
    ASSUME RecordTypeOK, ReadOnce, NEW v \in Required, NEW w \in Required, v.file = w.file
    PROVE  v = w
<1> DEFINE Kind(x) ==
        \/ x = File(Index, IndexData)
        \/ \E b : x = File(Blob(b), b)
        \/ \E e \in writer.added : x = File(Meta(e.key), e.meta)
        \/ \E l : x = File(Layer(l), l)
        \/ \E ks : x = File(Config(ks), ks)
        \/ \E m : x = File(Manifest(m), m)
<1>1. Kind(v) /\ Kind(w)
  BY RequiredShape
<1>2. \A f, x : File(f, x).file = f /\ File(f, x).data = x
  BY DEF File
<1>3. \A d, e \in writer.added : d.key = e.key => d = e
  BY DEF ReadOnce
<1> HIDE DEF Kind
<1>4. CASE v = File(Index, IndexData)
  <2>1. w.file = Index
    BY <1>2, <1>4
  <2> QED
    BY <1>1, <1>2, <1>4, <2>1, FileNames DEF Kind
<1>5. CASE \E b : v = File(Blob(b), b)
  <2>1. PICK b : v = File(Blob(b), b)
    BY <1>5
  <2>2. w.file = Blob(b) /\ w.file # Index /\ w.file[1] = "blob" /\ w.file[2] = b
    BY <1>2, <2>1, FileNames
  <2> QED
    BY <1>1, <1>2, <2>1, <2>2, FileNames DEF Kind
<1>6. CASE \E e \in writer.added : v = File(Meta(e.key), e.meta)
  <2>1. PICK e \in writer.added : v = File(Meta(e.key), e.meta)
    BY <1>6
  <2>2. w.file # Index /\ w.file[1] = "meta" /\ w.file[2] = e.key
    BY <1>2, <2>1, FileNames
  <2> QED
    BY <1>1, <1>2, <1>3, <2>1, <2>2, FileNames DEF Kind
<1>7. CASE \E l : v = File(Layer(l), l)
  <2>1. PICK l : v = File(Layer(l), l)
    BY <1>7
  <2>2. w.file # Index /\ w.file[1] = "layer" /\ w.file[2] = l
    BY <1>2, <2>1, FileNames
  <2> QED
    BY <1>1, <1>2, <2>1, <2>2, FileNames DEF Kind
<1>8. CASE \E ks : v = File(Config(ks), ks)
  <2>1. PICK ks : v = File(Config(ks), ks)
    BY <1>8
  <2>2. w.file # Index /\ w.file[1] = "config" /\ w.file[2] = ks
    BY <1>2, <2>1, FileNames
  <2> QED
    BY <1>1, <1>2, <2>1, <2>2, FileNames DEF Kind
<1>9. CASE \E m : v = File(Manifest(m), m)
  <2>1. PICK m : v = File(Manifest(m), m)
    BY <1>9
  <2>2. w.file # Index /\ w.file[1] = "manifest" /\ w.file[2] = m
    BY <1>2, <2>1, FileNames
  <2> QED
    BY <1>1, <1>2, <2>1, <2>2, FileNames DEF Kind
<1> QED
  BY <1>1, <1>4, <1>5, <1>6, <1>7, <1>8, <1>9 DEF Kind

-----------------------------------------------------------------------------
(* Steps that write no file.                                                 *)

\* A step that leaves the files, the writer and the list of writes alone keeps
\* all that is about them.
LEMMA FilesStay ==
    ASSUME FileInv, UNCHANGED <<format, writer, dest, last>>,
           run'.closing = run.closing, run'.writes = run.writes, run'.result = run.result,
           run'.at = "off" <=> run.at = "off"
    PROVE  Required' = Required /\ NoneLost' /\ FilesKept' /\ IndexLast' /\ IndexSound'
<1>1. Closed' = Closed
  BY DEF Closed
<1>2. EntryFiles' = EntryFiles /\ CloseWrites' = CloseWrites
  BY DEF EntryFiles, CloseWrites, CASClose, OCIClose, AllLayers, ArchivedKeys
<1>3. Required' = Required
  BY <1>1, <1>2 DEF Required
<1>4. NoneLost' /\ IndexLast'
  BY DEF FileInv, NoneLost, IndexLast
<1>5. \A w : Whole(w)' <=> Whole(w)
  BY DEF Whole
<1>6. FilesKept'
  BY <1>3, <1>5 DEF FileInv, FilesKept
<1>7. IndexSound'
  BY <1>1, <1>5 DEF FileInv, IndexSound, IndexWhole, Describes, Complete
<1> QED
  BY <1>3, <1>4, <1>6, <1>7

\* A step of a client may change the cache's storage and what is recorded, and
\* tells Finalize that it is not alone.
LEMMA ClientStays ==
    ASSUME FileInv, UNCHANGED <<format, writer, dest, last>>,
           run' = run \/ run' = [run EXCEPT !.quiet = FALSE],
           store' \in [Keys -> [Parts -> Objects]], client' \in [Clients -> Operation],
           keys' \in Seq(Keys) /\ Once(keys')
    PROVE  FileInv'
<1>1. run \in Runs(Required)
  BY DEF FileInv, RecordTypeOK
<1>2. /\ run' \in Runs(Required)
      /\ run'.at = run.at /\ run'.todo = run.todo /\ run'.meta = run.meta
      /\ run'.writes = run.writes /\ run'.closing = run.closing /\ run'.result = run.result
  BY <1>1 DEF Runs
<1>3. Required' = Required /\ NoneLost' /\ FilesKept' /\ IndexLast' /\ IndexSound'
  BY <1>2, FilesStay
<1>4. RecordTypeOK'
  BY <1>2, <1>3 DEF FileInv, RecordTypeOK
<1>5. InPlace' /\ ReadOnce'
  BY <1>2 DEF FileInv, InPlace, ReadOnce
<1> QED
  BY <1>3, <1>4, <1>5 DEF FileInv

\* What a client holds in an operation.
LEMMA BusyFacts ==
    ASSUME FileInv, NEW c \in Clients, client[c] # IdleClient
    PROVE  /\ client[c].key \in Keys
           /\ client[c].at \in {"meta", "recordMeta", "body", "recordBody"} =>
                 client[c].version \in Versions
           /\ \A at \in {"meta", "recordMeta", "body", "recordBody"} :
                 client[c].at \in {"meta", "recordMeta", "body", "recordBody"} =>
                    [client[c] EXCEPT !.at = at] \in Operation
           /\ client[c].at \in {"exists", "deleteMeta", "deleteBody"} =>
                 \A at \in {"exists", "deleteMeta", "deleteBody"} :
                    [client[c] EXCEPT !.at = at] \in Operation
<1>1. client[c] \in Operation
  BY DEF FileInv, RecordTypeOK
<1>2. CASE client[c] \in [at : {"meta", "recordMeta", "body", "recordBody"}, key : Keys,
                          version : Versions, early : BOOLEAN]
  <2>1. \A at \in {"meta", "recordMeta", "body", "recordBody"} :
           [client[c] EXCEPT !.at = at] \in
              [at : {"meta", "recordMeta", "body", "recordBody"}, key : Keys,
               version : Versions, early : BOOLEAN]
    BY <1>2
  <2> QED
    BY <1>2, <2>1 DEF Operation
<1>3. CASE client[c] \in [at : {"exists", "deleteMeta", "deleteBody"}, key : Keys]
  <2>1. \A at \in {"exists", "deleteMeta", "deleteBody"} :
           [client[c] EXCEPT !.at = at] \in
              [at : {"exists", "deleteMeta", "deleteBody"}, key : Keys]
    BY <1>3
  <2> QED
    BY <1>3, <2>1 DEF Operation
<1> QED
  BY <1>1, <1>2, <1>3 DEF Operation

LEMMA ClientStepKeeps ==
    ASSUME FileInv, NEW c \in Clients, ClientStep(c)
    PROVE  FileInv'
<1>1. /\ store \in [Keys -> [Parts -> Objects]] /\ client \in [Clients -> Operation]
      /\ keys \in Seq(Keys) /\ Once(keys)
  BY DEF FileInv, RecordTypeOK
<1>2. IdleClient \in Operation /\ Versions \subseteq Objects /\ NoObject \in Objects
      /\ Damaged \in Objects /\ Contents \subseteq Objects
  BY DEF Operation, Objects, Contents
<1>3. \A at : at # "idle" /\ Busy(c, at) => client[c] # IdleClient /\ client[c].at = at
  BY DEF Busy, IdleClient
<1>4. \A x \in Operation : [client EXCEPT ![c] = x] \in [Clients -> Operation]
  BY <1>1
<1>5. \A k, p : \A v \in Objects : [store EXCEPT ![k][p] = v] \in [Keys -> [Parts -> Objects]]
  BY <1>1
<1>6. ASSUME NEW op \in Operation, StartCall(c, op) PROVE FileInv'
  <2>1. client' = [client EXCEPT ![c] = op] /\ run' = [run EXCEPT !.quiet = FALSE]
        /\ UNCHANGED <<format, store, keys, writer, dest, last>>
    BY <1>6 DEF StartCall
  <2> QED
    BY <1>1, <1>4, <2>1, ClientStays
<1>7. ASSUME NEW k \in Keys, StartDelete(c, k) PROVE FileInv'
  <2>1. [at |-> "exists", key |-> k] \in Operation
    BY DEF Operation
  <2> QED
    BY <1>6, <1>7, <2>1 DEF StartDelete
<1>8. ASSUME NEW k \in Keys, NEW v \in Versions, StartPut(c, k, v) PROVE FileInv'
  <2>1. [at |-> "meta", key |-> k, version |-> v, early |-> run.at = "serving"] \in Operation
    BY DEF Operation
  <2> QED
    BY <1>6, <1>8, <2>1 DEF StartPut
<1>9. ASSUME NEW p \in Parts, PutObject(c, p) PROVE FileInv'
  <2>1. /\ client[c] # IdleClient /\ client[c].at = p
        /\ store' = [store EXCEPT ![client[c].key][p] = client[c].version]
        /\ client' = [client EXCEPT ![c] = [client[c] EXCEPT
                         !.at = IF p = "meta" THEN "recordMeta" ELSE "recordBody"]]
    BY <1>3, <1>9 DEF PutObject, Parts, Go
  <2>2. /\ client[c].version \in Objects
        /\ [client[c] EXCEPT !.at = IF p = "meta" THEN "recordMeta" ELSE "recordBody"]
              \in Operation
    BY <1>2, <2>1, BusyFacts DEF Parts
  <2>3. store' \in [Keys -> [Parts -> Objects]] /\ client' \in [Clients -> Operation]
    BY <1>4, <1>5, <2>1, <2>2
  <2> QED
    BY <1>1, <1>9, <2>3, ClientStays DEF PutObject, recordVars
<1>10. ASSUME NEW p \in Parts, PutObjectFails(c, p) PROVE FileInv'
  <2>1. client[c] # IdleClient
    BY <1>3, <1>10 DEF PutObjectFails, Parts
  <2>2. PICK v \in {store[client[c].key][p], Damaged} :
           store' = [store EXCEPT ![client[c].key][p] = v]
    BY <1>10 DEF PutObjectFails
  <2>3. v \in Objects
    <3>1. client[c].key \in Keys /\ p \in Parts
      BY <2>1, BusyFacts
    <3> QED
      BY <1>1, <1>2, <2>2, <3>1
  <2>4. store' \in [Keys -> [Parts -> Objects]] /\ client' \in [Clients -> Operation]
    BY <1>2, <1>4, <1>5, <1>10, <2>2, <2>3 DEF PutObjectFails, Leave
  <2> QED
    BY <1>1, <1>10, <2>4, ClientStays DEF PutObjectFails, recordVars
<1>11. ASSUME NEW k \in Keys, recordEntry(k) PROVE keys' \in Seq(Keys) /\ Once(keys')
  BY <1>1, <1>11, AppendFacts DEF recordEntry
<1>12. ASSUME RecordMeta(c) PROVE FileInv'
  <2>1. client[c] # IdleClient /\ client[c].at = "recordMeta"
    BY <1>3, <1>12 DEF RecordMeta
  <2>2. client' = [client EXCEPT ![c] = [client[c] EXCEPT !.at = "body"]]
    BY <1>12 DEF RecordMeta, Go
  <2>3. client' \in [Clients -> Operation] /\ client[c].key \in Keys
    BY <1>4, <2>1, <2>2, BusyFacts
  <2> QED
    BY <1>1, <1>11, <1>12, <2>3, ClientStays DEF RecordMeta
<1>13. ASSUME RecordBody(c) PROVE FileInv'
  <2>1. client[c] # IdleClient
    BY <1>3, <1>13 DEF RecordBody
  <2>2. client' \in [Clients -> Operation] /\ client[c].key \in Keys
    BY <1>2, <1>4, <1>13, <2>1, BusyFacts DEF RecordBody, Leave
  <2> QED
    BY <1>1, <1>11, <1>13, <2>2, ClientStays DEF RecordBody
<1>14. ASSUME DeleteExists(c) PROVE FileInv'
  <2>1. client[c] # IdleClient /\ client[c].at = "exists"
    BY <1>3, <1>14 DEF DeleteExists
  <2>2. [client[c] EXCEPT !.at = "deleteMeta"] \in Operation
    BY <2>1, BusyFacts
  <2>3. client' \in [Clients -> Operation]
    BY <1>2, <1>4, <1>14, <2>2 DEF DeleteExists, Leave, Go
  <2> QED
    BY <1>1, <1>14, <2>3, ClientStays DEF DeleteExists, recordVars
<1>15. ASSUME DeleteMeta(c) PROVE FileInv'
  <2>1. client[c] # IdleClient /\ client[c].at = "deleteMeta"
    BY <1>3, <1>15 DEF DeleteMeta
  <2>2. [client[c] EXCEPT !.at = "deleteBody"] \in Operation
    BY <2>1, BusyFacts
  <2>3. store' \in [Keys -> [Parts -> Objects]] /\ client' \in [Clients -> Operation]
    BY <1>2, <1>4, <1>5, <1>15, <2>2 DEF DeleteMeta, Go
  <2> QED
    BY <1>1, <1>15, <2>3, ClientStays DEF DeleteMeta, recordVars
<1>16. ASSUME DeleteBody(c) PROVE FileInv'
  <2>1. store' \in [Keys -> [Parts -> Objects]] /\ client' \in [Clients -> Operation]
    BY <1>2, <1>4, <1>5, <1>16 DEF DeleteBody, Leave
  <2> QED
    BY <1>1, <1>16, <2>1, ClientStays DEF DeleteBody, recordVars
<1>17. ASSUME DeleteFails(c) PROVE FileInv'
  <2>1. client' \in [Clients -> Operation]
    BY <1>2, <1>4, <1>17 DEF DeleteFails, Leave
  <2> QED
    BY <1>1, <1>17, <2>1, ClientStays DEF DeleteFails, recordVars
<1> QED
  BY <1>7, <1>8, <1>9, <1>10, <1>12, <1>13, <1>14, <1>15, <1>16, <1>17 DEF ClientStep

\* What an exit leaves of the process.
LEMMA ExitFacts ==
    ASSUME FileInv, NEW r \in Results, Exit(r)
    PROVE  /\ client' \in [Clients -> Operation]
           /\ run'.at = "off" /\ run'.todo = <<>> /\ run'.writes = <<>> /\ ~run'.closing
           /\ run'.result = r /\ run'.quiet = run.quiet
           /\ \A R : run' \in Runs(R)
<1>1. run.quiet \in BOOLEAN
  BY DEF FileInv, RecordTypeOK, Runs
<1>2. run' = [at |-> "off", todo |-> <<>>, meta |-> NoObject, writes |-> <<>>,
              closing |-> FALSE, result |-> r, quiet |-> run.quiet]
  BY DEF Exit, Off
<1>3. \A R : run' \in Runs(R)
  BY <1>1, <1>2, EmptyFacts DEF Runs, Places, Objects
<1>4. client' \in [Clients -> Operation]
  <2>1. IdleClient \in Operation
    BY DEF Operation
  <2> QED
    BY <2>1 DEF Exit
<1> QED
  BY <1>2, <1>3, <1>4

\* A crash and a failure leave the files as they are: the session's archive is
\* not there, unless the index was written before a crash.
LEMMA EndKeeps ==
    ASSUME FileInv, NEW r \in {"failed", "crashed"}, Exit(r),
           UNCHANGED <<format, store, keys, writer, dest, last>>
    PROVE  FileInv'
<1>1. /\ client' \in [Clients -> Operation]
      /\ run'.at = "off" /\ run'.todo = <<>> /\ run'.writes = <<>> /\ ~run'.closing
      /\ run'.result = r /\ \A R : run' \in Runs(R)
  BY ExitFacts DEF Results
<1>2. ~Closed' /\ ~Complete'
  BY <1>1 DEF Closed, Complete
<1>3. RecordTypeOK'
  BY <1>1 DEF FileInv, RecordTypeOK
<1>4. InPlace'
  BY <1>1 DEF InPlace
<1>5. ReadOnce'
  BY <1>1, EmptyFacts DEF FileInv, ReadOnce
<1>6. NoneLost'
  BY DEF FileInv, NoneLost
<1>7. FilesKept' /\ IndexLast'
  BY <1>1, EmptyFacts DEF FilesKept, IndexLast, Elements
<1>8. IndexSound'
  BY <1>1, <1>2 DEF FileInv, IndexSound, IndexWhole, Describes, Whole
<1> QED
  BY <1>3, <1>4, <1>5, <1>6, <1>7, <1>8 DEF FileInv

LEMMA FinalizedKeeps ==
    ASSUME FileInv, Finalized
    PROVE  FileInv'
<1>1. /\ run.at = "write" /\ run.writes = <<>> /\ run.closing /\ Exit("ok")
      /\ UNCHANGED <<format, store, keys, writer, dest, last>>
  BY DEF Finalized
<1>2. /\ client' \in [Clients -> Operation]
      /\ run'.at = "off" /\ run'.todo = <<>> /\ run'.writes = <<>> /\ ~run'.closing
      /\ run'.result = "ok" /\ \A R : run' \in Runs(R)
  BY <1>1, ExitFacts DEF Results
<1>3. Closed /\ Closed' /\ Complete /\ Complete'
  BY <1>1, <1>2 DEF Closed, Complete
<1>4. EntryFiles' = EntryFiles /\ CloseWrites' = CloseWrites
  BY <1>1 DEF EntryFiles, CloseWrites, CASClose, OCIClose, AllLayers, ArchivedKeys
<1>5. Required' = Required
  BY <1>3, <1>4 DEF Required
<1>6. RecordTypeOK'
  BY <1>1, <1>2 DEF FileInv, RecordTypeOK
<1>7. InPlace'
  BY <1>2 DEF InPlace
<1>8. ReadOnce' /\ NoneLost'
  BY <1>1, <1>2, EmptyFacts DEF FileInv, ReadOnce, NoneLost
<1>9. FilesKept' /\ IndexLast'
  BY <1>1, <1>2, <1>5, EmptyFacts DEF FileInv, FilesKept, IndexLast, Elements, Whole
<1>10. IndexSound'
  BY <1>1, <1>2, <1>3 DEF FileInv, IndexSound, IndexWhole, Describes, Whole
<1> QED
  BY <1>6, <1>7, <1>8, <1>9, <1>10 DEF FileInv

\* A new session forgets the last one; in a directory of its own it begins with
\* no archive.
LEMMA RecordKeeps ==
    ASSUME FileInv, Record, "cas" \notin Reuse
    PROVE  FileInv'
<1>1. /\ run' = [Off EXCEPT !.at = "serving"]
      /\ writer' = NewWriter /\ keys' = <<>> /\ UNCHANGED <<format, store, client>>
  BY DEF Record
<1>2. /\ run'.at = "serving" /\ run'.todo = <<>> /\ run'.writes = <<>> /\ ~run'.closing
      /\ run'.result = "none" /\ \A R : run' \in Runs(R)
  <2>1. run' = [at |-> "serving", todo |-> <<>>, meta |-> NoObject, writes |-> <<>>,
                closing |-> FALSE, result |-> "none", quiet |-> FALSE]
    BY <1>1 DEF Off
  <2> QED
    BY <2>1, EmptyFacts DEF Runs, Places, Objects, Results
<1>3. /\ writer'.added = {} /\ writer'.pending = <<>> /\ writer'.layers = <<>>
      /\ writer' \in [added : SUBSET Entries, pending : Seq(Entries), layers : Seq(Seq(Entries))]
  BY <1>1, EmptyFacts DEF NewWriter
<1>4. ~Closed' /\ ~Complete'
  BY <1>2 DEF Closed, Complete
<1>5. format \in {"tgz", "cas", "oci"}
  BY FormatCases DEF FileInv
<1>6. Required' = {}
  BY <1>1, <1>3, <1>4, <1>5, EmptyFacts DEF Required, EntryFiles
<1>7. \/ format = "oci" /\ UNCHANGED <<dest, last>>
      \/ format = "oci" /\ dest' = NoFiles /\ last' = {}
      \/ format = "tgz" /\ dest' = [f \in {Index} |-> Damaged] /\ last' = {}
      \/ format = "cas" /\ dest' = NoFiles /\ last' = {}
  BY <1>5, RecordAssumption DEF Record
<1>8. /\ dest' = [f \in DOMAIN dest' |-> dest'[f]]
      /\ format # "oci" => ~IndexWhole' /\ \A b : Blob(b) \notin DOMAIN dest'
      /\ IndexWhole' => format = "oci" /\ UNCHANGED <<dest, last>>
  <2>1. ASSUME dest' = NoFiles
        PROVE  dest' = [f \in DOMAIN dest' |-> dest'[f]] /\ DOMAIN dest' = {}
    BY <2>1 DEF NoFiles
  <2>2. ASSUME dest' = [f \in {Index} |-> Damaged]
        PROVE  /\ dest' = [f \in DOMAIN dest' |-> dest'[f]] /\ DOMAIN dest' = {Index}
               /\ dest'[Index] = Damaged
    BY <2>2
  <2>3. dest = [f \in DOMAIN dest |-> dest[f]]
    BY DEF FileInv, RecordTypeOK
  <2>4. \A b : Blob(b) # Index
    BY FileNames
  <2> QED
    BY <1>7, <2>1, <2>2, <2>3, <2>4 DEF IndexWhole
<1>9. RecordTypeOK'
  BY <1>1, <1>2, <1>3, <1>7, <1>8, EmptyFacts DEF FileInv, RecordTypeOK
<1>10. InPlace'
  BY <1>1, <1>2 DEF InPlace
<1>11. ReadOnce' /\ NoneLost'
  BY <1>2, <1>3, EmptyFacts DEF ReadOnce, NoneLost
<1>12. FilesKept' /\ IndexLast'
  BY <1>1, <1>2, <1>6, <1>8, EmptyFacts DEF FilesKept, IndexLast
<1>13. IndexSound'
  BY <1>1, <1>4, <1>8 DEF FileInv, IndexSound, IndexWhole, Describes
<1> QED
  BY <1>9, <1>10, <1>11, <1>12, <1>13 DEF FileInv

-----------------------------------------------------------------------------
(* Finalize, up to the files.                                                *)

\* Finalize goes on to read keys, or read one: it has nothing to write then.
LEMMA ReadingKeeps ==
    ASSUME FileInv, UNCHANGED <<format, store, client, keys, writer, dest, last>>,
           run.at # "off", run.writes = <<>>, ~run.closing,
           NEW at \in {"readMeta", "readBody"}, NEW todo \in Seq(Keys), NEW m \in Objects,
           run' \in Runs(Required),
           run'.at = at, run'.todo = todo, run'.writes = run.writes, ~run'.closing,
           run'.closing = run.closing, run'.result = run.result,
           Once(todo), \A e \in writer.added : e.key \notin Elements(todo),
           at = "readBody" => todo # <<>> /\ run'.meta # NoObject
    PROVE  FileInv'
<1>1. Required' = Required /\ NoneLost' /\ FilesKept' /\ IndexLast' /\ IndexSound'
  BY FilesStay
<1>2. RecordTypeOK'
  BY <1>1 DEF FileInv, RecordTypeOK
<1>3. InPlace'
  BY DEF InPlace
<1>4. ReadOnce'
  BY DEF FileInv, ReadOnce
<1> QED
  BY <1>1, <1>2, <1>3, <1>4 DEF FileInv

LEMMA FinalizeKeeps ==
    ASSUME FileInv, Finalize
    PROVE  FileInv'
<1>1. /\ run \in Runs(Required) /\ keys \in Seq(Keys) /\ Once(keys)
      /\ run.at = "serving" /\ run.writes = <<>> /\ ~run.closing /\ writer.added = {}
      /\ UNCHANGED <<format, store, client, keys, writer, dest, last>>
  BY DEF FileInv, RecordTypeOK, InPlace, Finalize, NewWriter
<1> DEFINE q == \A c \in Clients : client[c] = IdleClient
<1>2. run' = [run EXCEPT !.at = "readMeta", !.todo = keys, !.quiet = q] /\ q \in BOOLEAN
  BY DEF Finalize
<1> HIDE DEF q
<1>3. /\ run' \in Runs(Required) /\ run'.at = "readMeta" /\ run'.todo = keys
      /\ run'.writes = run.writes /\ run'.closing = run.closing /\ run'.result = run.result
      /\ run'.meta = run.meta /\ run.meta \in Objects
  BY <1>1, <1>2 DEF Runs, Places
<1> QED
  BY <1>1, <1>3, ReadingKeeps

LEMMA ContinueKeeps ==
    ASSUME FileInv, NEW p \in Parts, Continue(p), run.at \in {"readMeta", "readBody"}
    PROVE  FileInv'
<1>1. /\ run \in Runs(Required) /\ run.writes = <<>> /\ ~run.closing /\ run.at # "off"
      /\ UNCHANGED <<format, store, client, keys, writer, dest, last>>
      /\ run.todo \in Seq(Keys) /\ run.todo # <<>> /\ Once(run.todo)
      /\ \A e \in writer.added : e.key \notin Elements(run.todo)
  BY DEF FileInv, RecordTypeOK, InPlace, ReadOnce, Continue, Runs
<1> DEFINE q == run.quiet /\ store[Head(run.todo)][p] = NoObject
<1>2. /\ run' = [run EXCEPT !.at = "readMeta", !.todo = Tail(run.todo), !.quiet = q]
      /\ q \in BOOLEAN
  BY DEF Continue
<1> HIDE DEF q
<1>3. /\ Tail(run.todo) \in Seq(Keys) /\ Once(Tail(run.todo))
      /\ Elements(Tail(run.todo)) \subseteq Elements(run.todo)
  BY <1>1, TailFacts
<1>4. /\ run' \in Runs(Required) /\ run'.at = "readMeta" /\ run'.todo = Tail(run.todo)
      /\ run'.writes = run.writes /\ run'.closing = run.closing /\ run'.result = run.result
      /\ run'.meta = run.meta /\ run.meta \in Objects
  BY <1>1, <1>2, <1>3 DEF Runs, Places
<1>5. \A e \in writer.added : e.key \notin Elements(Tail(run.todo))
  BY <1>1, <1>3
<1> QED
  BY <1>1, <1>3, <1>4, <1>5, ReadingKeeps

LEMMA ReadMetaKeeps ==
    ASSUME FileInv, ReadMeta
    PROVE  FileInv'
<1>1. /\ run \in Runs(Required) /\ run.writes = <<>> /\ ~run.closing /\ run.at # "off"
      /\ UNCHANGED <<format, store, client, keys, writer, dest, last>>
      /\ run.todo \in Seq(Keys) /\ run.todo # <<>> /\ Once(run.todo)
      /\ \A e \in writer.added : e.key \notin Elements(run.todo)
      /\ store \in [Keys -> [Parts -> Objects]]
  BY DEF FileInv, RecordTypeOK, InPlace, ReadOnce, ReadMeta, Runs
<1> DEFINE m == store[Head(run.todo)]["meta"]
<1>2. m \in Objects /\ m # NoObject /\ Damaged \in Objects /\ Damaged # NoObject
  BY <1>1, TailFacts, RecordAssumption DEF ReadMeta, Parts, Objects, Contents
<1>3. PICK r \in {m} \cup (IF StorageFaults THEN {Damaged} ELSE {}) :
         run' = [run EXCEPT !.at = "readBody", !.meta = r, !.quiet = run.quiet /\ r = m]
  BY DEF ReadMeta
<1>4. r \in Objects /\ r # NoObject
  BY <1>2, <1>3
<1> DEFINE q == run.quiet /\ r = m
<1>5. run' = [run EXCEPT !.at = "readBody", !.meta = r, !.quiet = q] /\ q \in BOOLEAN
  BY <1>3
<1> HIDE DEF q, m
<1>6. /\ run' \in Runs(Required) /\ run'.at = "readBody" /\ run'.meta = r
      /\ run'.todo = run.todo
      /\ run'.writes = run.writes /\ run'.closing = run.closing /\ run'.result = run.result
  BY <1>1, <1>4, <1>5 DEF Runs, Places
<1> QED
  BY <1>1, <1>4, <1>6, ReadingKeeps

LEMMA NextKeyKeeps ==
    ASSUME FileInv, NextKey
    PROVE  FileInv'
<1>1. /\ run \in Runs(Required) /\ run.writes = <<>> /\ ~run.closing /\ run.at # "off"
      /\ UNCHANGED <<format, store, client, keys, writer, dest, last>>
      /\ run.todo \in Seq(Keys) /\ Once(run.todo) /\ run.meta \in Objects
      /\ \A e \in writer.added : e.key \notin Elements(run.todo)
  BY DEF FileInv, RecordTypeOK, InPlace, ReadOnce, NextKey, Runs
<1>2. run' = [run EXCEPT !.at = "readMeta"]
  BY DEF NextKey
<1>3. /\ run' \in Runs(Required) /\ run'.at = "readMeta" /\ run'.meta = run.meta
      /\ run'.todo = run.todo
      /\ run'.writes = run.writes /\ run'.closing = run.closing /\ run'.result = run.result
  BY <1>1, <1>2 DEF Runs, Places
<1> QED
  BY <1>1, <1>3, ReadingKeeps

\* The writer once e is added, and the files that are to be written for it.
LEMMA AddedFacts ==
    ASSUME RecordTypeOK, NoneLost, NEW e \in Entries, writer' = Added(e), UNCHANGED format
    PROVE  /\ writer' \in [added : SUBSET Entries, pending : Seq(Entries),
                           layers : Seq(Seq(Entries))]
           /\ writer'.added = writer.added \cup {e}
           /\ NoneLost'
           /\ format = "oci" =>
                 \/ writer'.layers = writer.layers /\ AddWrites(e) = <<>>
                 \/ \E l : /\ Elements(writer'.layers) = Elements(writer.layers) \cup {l}
                           /\ AddWrites(e) = <<File(Layer(l), l)>>
<1> DEFINE pending == Append(writer.pending, e)
           full    == Len(pending) >= EntriesPerLayer
<1>1. /\ writer'.added = writer.added \cup {e}
      /\ writer'.pending = IF full \/ format # "oci" THEN <<>> ELSE pending
      /\ writer'.layers = IF full /\ format = "oci" THEN Append(writer.layers, pending)
                          ELSE writer.layers
      /\ writer' = [added |-> writer'.added, pending |-> writer'.pending,
                    layers |-> writer'.layers]
  BY DEF Added
<1>2. /\ writer.added \subseteq Entries /\ writer.pending \in Seq(Entries)
      /\ writer.layers \in Seq(Seq(Entries))
  BY FormatCases
<1>3. /\ pending \in Seq(Entries) /\ Elements(pending) = Elements(writer.pending) \cup {e}
  BY <1>2, AppendFacts
<1> HIDE DEF pending, full
<1>4. /\ Append(writer.layers, pending) \in Seq(Seq(Entries))
      /\ Elements(Append(writer.layers, pending)) = Elements(writer.layers) \cup {pending}
  BY <1>2, <1>3, AppendFacts
<1>5. format = "oci" =>
         AddWrites(e) = IF full THEN <<File(Layer(pending), pending)>> ELSE <<>>
  BY DEF AddWrites, OCIAdd, pending, full
<1>6. /\ writer'.added \subseteq Entries /\ writer'.pending \in Seq(Entries)
      /\ writer'.layers \in Seq(Seq(Entries))
  BY <1>1, <1>2, <1>3, <1>4, EmptyFacts
<1>7. writer' \in [added : SUBSET Entries, pending : Seq(Entries), layers : Seq(Seq(Entries))]
  BY <1>1, <1>6
<1>8. ASSUME format = "oci"
      PROVE  writer'.added = EntriesIn(writer'.layers) \cup Elements(writer'.pending)
  <2>1. writer.added = EntriesIn(writer.layers) \cup Elements(writer.pending)
    BY <1>8 DEF NoneLost
  <2>2. CASE full
    <3>1. writer'.pending = <<>> /\ writer'.layers = Append(writer.layers, pending)
      BY <1>1, <1>8, <2>2
    <3>2. EntriesIn(writer'.layers) = EntriesIn(writer.layers) \cup Elements(pending)
      BY <1>4, <3>1, EntriesInAdd
    <3> QED
      BY <1>1, <1>3, <2>1, <3>1, <3>2, EmptyFacts
  <2>3. CASE ~full
    BY <1>1, <1>3, <1>8, <2>1, <2>3
  <2> QED
    BY <2>2, <2>3
<1>9. NoneLost'
  BY <1>8 DEF NoneLost
<1> QED
  BY <1>1, <1>4, <1>5, <1>7, <1>9

\* Every file that an added entry needs is there or to be written.
LEMMA AddWritesFacts ==
    ASSUME FileInv, NEW e \in Entries, writer' = Added(e), UNCHANGED <<format, dest>>,
           run.writes = <<>>, run.at # "off", ~run.closing, ~Closed'
    PROVE  /\ AddWrites(e) \in Seq(Required')
           /\ \A w \in Elements(AddWrites(e)) : w.file # Index
           /\ \A w \in Required' : Whole(w) \/ w \in Elements(AddWrites(e))
<1>1. /\ writer'.added = writer.added \cup {e}
      /\ format = "oci" =>
            \/ writer'.layers = writer.layers /\ AddWrites(e) = <<>>
            \/ \E l : /\ Elements(writer'.layers) = Elements(writer.layers) \cup {l}
                      /\ AddWrites(e) = <<File(Layer(l), l)>>
  BY AddedFacts DEF FileInv
<1>2. Required = EntryFiles /\ Required' = EntryFiles'
  BY DEF Required, Closed
<1>3. \A w \in Required : Whole(w)
  BY EmptyFacts DEF FileInv, FilesKept
<1>4. \A f, v : File(f, v).file = f /\ File(f, v).data = v
  BY DEF File
<1>5. CASE format = "tgz"
  BY <1>2, <1>5, EmptyFacts DEF EntryFiles, AddWrites
<1>6. CASE format = "cas"
  <2> DEFINE blob == File(Blob(e.body), e.body)
             meta == File(Meta(e.key), e.meta)
             old  == Blob(e.body) \in DOMAIN dest
             part == IF old THEN <<>> ELSE <<blob>>
  <2>1. Required' = Required \cup {blob, meta}
    BY <1>1, <1>2, <1>6 DEF EntryFiles
  <2>2. AddWrites(e) = part \o <<meta>>
    BY <1>6 DEF AddWrites, CASAdd
  <2>3. old => Whole(blob)
    <3>1. e.body \in Contents
      BY DEF Entries, Contents
    <3>2. \A b \in Contents : Blob(b) \in DOMAIN dest => dest[Blob(b)] = b
      BY <1>6, EmptyFacts DEF FileInv, FilesKept
    <3> QED
      BY <1>4, <3>1, <3>2 DEF Whole
  <2>4. blob.file # Index /\ meta.file # Index
    BY <1>4, FileNames
  <2> HIDE DEF blob, meta, old
  <2>5. part \in Seq({blob, meta}) /\ Elements(part) = IF old THEN {} ELSE {blob}
    <3>1. CASE old
      BY <3>1, EmptyFacts
    <3>2. CASE ~old
      <4>1. <<blob>> \in Seq({blob, meta})
        OBVIOUS
      <4> QED
        BY <3>2, <4>1, OneFile
    <3> QED
      BY <3>1, <3>2
  <2>6. <<meta>> \in Seq({blob, meta}) /\ Elements(<<meta>>) = {meta}
    <3>1. <<meta>> \in Seq({blob, meta})
      OBVIOUS
    <3> QED
      BY <3>1, OneFile
  <2> DEFINE whole == <<meta>>
  <2> HIDE DEF part, whole
  <2>7. AddWrites(e) \in Seq({blob, meta}) /\ Elements(AddWrites(e)) = Elements(part) \cup {meta}
    <3>1. AddWrites(e) = part \o whole
      BY <2>2 DEF whole
    <3>2. whole \in Seq({blob, meta}) /\ Elements(whole) = {meta}
      BY <2>6 DEF whole
    <3> QED
      BY <2>5, <3>1, <3>2, ConcatFacts
  <2>8. AddWrites(e) \in Seq(Required')
    BY <2>1, <2>7, SeqMonotonic
  <2> QED
    BY <1>3, <2>1, <2>3, <2>4, <2>5, <2>7, <2>8
<1>7. CASE format = "oci"
  <2>1. CASE writer'.layers = writer.layers /\ AddWrites(e) = <<>>
    <3>1. Required' = Required
      BY <1>2, <1>7, <2>1 DEF EntryFiles
    <3> QED
      BY <1>3, <2>1, <3>1, EmptyFacts
  <2>2. CASE \E l : /\ Elements(writer'.layers) = Elements(writer.layers) \cup {l}
                    /\ AddWrites(e) = <<File(Layer(l), l)>>
    <3>1. PICK l : /\ Elements(writer'.layers) = Elements(writer.layers) \cup {l}
                   /\ AddWrites(e) = <<File(Layer(l), l)>>
      BY <2>2
    <3> DEFINE layer == File(Layer(l), l)
    <3>2. Required' = Required \cup {layer}
      BY <1>2, <1>7, <3>1 DEF EntryFiles
    <3>3. layer.file # Index
      BY <1>4, FileNames
    <3> HIDE DEF layer
    <3>4. AddWrites(e) = <<layer>>
      BY <3>1 DEF layer
    <3>5. AddWrites(e) \in Seq({layer}) /\ Elements(AddWrites(e)) = {layer}
      BY <3>4, OneFile
    <3>6. AddWrites(e) \in Seq(Required')
      BY <3>2, <3>5, SeqMonotonic
    <3> QED
      BY <1>3, <3>2, <3>3, <3>5, <3>6
  <2> QED
    BY <1>1, <1>7, <2>1, <2>2
<1> QED
  BY <1>5, <1>6, <1>7, FormatCases DEF FileInv

LEMMA AddKeeps ==
    ASSUME FileInv, Add
    PROVE  FileInv'
<1> DEFINE k == Head(run.todo)
           e == Entry(k, run.meta, store[k]["body"])
<1>1. /\ run \in Runs(Required) /\ run.writes = <<>> /\ ~run.closing /\ run.at = "readBody"
      /\ run.todo \in Seq(Keys) /\ Once(run.todo) /\ run.todo # <<>>
      /\ run.meta \in Objects /\ run.meta # NoObject
      /\ \A d \in writer.added : d.key \notin Elements(run.todo)
      /\ \A c, d \in writer.added : c.key = d.key => c = d
      /\ store \in [Keys -> [Parts -> Objects]]
  BY DEF FileInv, RecordTypeOK, InPlace, ReadOnce, Add, Runs
<1>2. /\ e.body # NoObject /\ writer' = Added(e)
      /\ run' = [run EXCEPT !.at = "write", !.todo = Tail(run.todo), !.writes = AddWrites(e)]
      /\ UNCHANGED <<format, store, client, keys, dest, last>>
  BY DEF Add
<1>3. /\ k \in Keys /\ k \in Elements(run.todo)
      /\ Tail(run.todo) \in Seq(Keys) /\ Once(Tail(run.todo))
      /\ Elements(Tail(run.todo)) \subseteq Elements(run.todo)
      /\ k \notin Elements(Tail(run.todo))
  BY <1>1, TailFacts
<1>4. e \in Entries /\ e.key = k
  <2>1. /\ e.key = k /\ e.meta = run.meta /\ e.body = store[k]["body"]
        /\ e = [key |-> k, meta |-> run.meta, body |-> store[k]["body"]]
    BY DEF Entry
  <2>2. store[k]["body"] \in Contents /\ run.meta \in Contents
    BY <1>1, <1>2, <1>3, <2>1 DEF Parts, Objects
  <2> QED
    BY <1>3, <2>1, <2>2 DEF Entries, Contents
<1> HIDE DEF e, k
<1>5. /\ run'.at = "write" /\ run'.todo = Tail(run.todo) /\ run'.writes = AddWrites(e)
      /\ run'.closing = run.closing /\ run'.result = run.result
      /\ \A R : AddWrites(e) \in Seq(R) => run' \in Runs(R)
  BY <1>1, <1>2, <1>3 DEF Runs, Places
<1>6. ~Closed' /\ ~Complete'
  BY <1>1, <1>5 DEF Closed, Complete
<1>7. /\ AddWrites(e) \in Seq(Required')
      /\ \A w \in Elements(AddWrites(e)) : w.file # Index
      /\ \A w \in Required' : Whole(w) \/ w \in Elements(AddWrites(e))
  BY <1>1, <1>2, <1>4, <1>6, AddWritesFacts
<1>8. /\ writer' \in [added : SUBSET Entries, pending : Seq(Entries), layers : Seq(Seq(Entries))]
      /\ writer'.added = writer.added \cup {e} /\ NoneLost'
  BY <1>2, <1>4, AddedFacts DEF FileInv
<1>9. RecordTypeOK'
  BY <1>2, <1>5, <1>7, <1>8 DEF FileInv, RecordTypeOK
<1>10. InPlace'
  BY <1>1, <1>5 DEF InPlace
<1>11. ReadOnce'
  <2>1. \A d \in writer'.added : d.key \notin Elements(Tail(run.todo))
    BY <1>1, <1>3, <1>4, <1>8
  <2>2. \A c, d \in writer'.added : c.key = d.key => c = d
    BY <1>1, <1>3, <1>4, <1>8
  <2> QED
    BY <1>3, <1>5, <2>1, <2>2 DEF ReadOnce
<1>12. FilesKept'
  <2>1. \A w : Whole(w)' <=> Whole(w)
    BY <1>2 DEF Whole
  <2>2. format = "cas" => \A b \in Contents : Blob(b) \in DOMAIN dest => dest[Blob(b)] = b
    BY <1>1, EmptyFacts DEF FileInv, FilesKept
  <2> QED
    BY <1>2, <1>5, <1>7, <2>1, <2>2 DEF FilesKept
<1>13. IndexLast'
  BY <1>1, <1>5, <1>7 DEF IndexLast, Elements
<1>14. IndexSound'
  <2>1. ~Complete
    BY <1>1 DEF Complete, Closed
  <2>2. format # "oci" => ~IndexWhole
    BY <1>1, <2>1 DEF FileInv, IndexSound
  <2> QED
    BY <1>2, <1>6, <2>2 DEF FileInv, IndexSound, IndexWhole, Describes
<1> QED
  BY <1>8, <1>9, <1>10, <1>11, <1>12, <1>13, <1>14 DEF FileInv

LEMMA CloseKeeps ==
    ASSUME FileInv, Close
    PROVE  FileInv'
<1>1. /\ run \in Runs(Required) /\ run.writes = <<>> /\ ~run.closing /\ run.at = "readMeta"
      /\ run.todo = <<>>
      /\ UNCHANGED <<format, store, client, keys, writer, dest, last>>
      /\ run' = [run EXCEPT !.at = "write", !.closing = TRUE, !.writes = CloseWrites]
  BY DEF FileInv, RecordTypeOK, InPlace, Close
<1>2. /\ CloseWrites \in Seq(Elements(CloseWrites)) /\ CloseWrites # <<>>
      /\ \A i \in DOMAIN CloseWrites : CloseWrites[i].file = Index <=> i = Len(CloseWrites)
  BY CloseFacts DEF FileInv
<1>3. /\ run'.at = "write" /\ run'.todo = <<>> /\ run'.writes = CloseWrites
      /\ run'.closing /\ run'.result = run.result
      /\ \A R : CloseWrites \in Seq(R) => run' \in Runs(R)
  BY <1>1 DEF Runs, Places
<1>4. EntryFiles' = EntryFiles /\ CloseWrites' = CloseWrites
  BY <1>1 DEF EntryFiles, CloseWrites, CASClose, OCIClose, AllLayers, ArchivedKeys
<1>5. Required = EntryFiles /\ Required' = EntryFiles \cup Elements(CloseWrites)
  BY <1>1, <1>3, <1>4 DEF Required, Closed
<1>6. CloseWrites \in Seq(Required')
  BY <1>2, <1>5, SeqMonotonic
<1>7. ~Complete /\ ~Complete'
  BY <1>1, <1>2, <1>3 DEF Complete, Closed
<1>8. RecordTypeOK'
  BY <1>1, <1>3, <1>6 DEF FileInv, RecordTypeOK
<1>9. InPlace' /\ ReadOnce' /\ NoneLost'
  BY <1>1, <1>3 DEF FileInv, InPlace, ReadOnce, NoneLost
<1>10. FilesKept'
  <2>1. \A w : Whole(w)' <=> Whole(w)
    BY <1>1 DEF Whole
  <2>2. \A w \in Required : Whole(w)
    BY <1>1, EmptyFacts DEF FileInv, FilesKept
  <2>3. format = "cas" => \A b \in Contents : Blob(b) \in DOMAIN dest => dest[Blob(b)] = b
    BY <1>1, EmptyFacts DEF FileInv, FilesKept
  <2> QED
    BY <1>1, <1>3, <1>5, <2>1, <2>2, <2>3 DEF FilesKept
<1>11. IndexLast'
  BY <1>2, <1>3 DEF IndexLast
<1>12. IndexSound'
  <2>1. format # "oci" => ~IndexWhole
    BY <1>1, <1>7 DEF FileInv, IndexSound
  <2> QED
    BY <1>1, <1>7, <2>1 DEF FileInv, IndexSound, IndexWhole, Describes
<1> QED
  BY <1>8, <1>9, <1>10, <1>11, <1>12 DEF FileInv

-----------------------------------------------------------------------------
(* Steps that write a file.                                                  *)

LEMMA BlobContent ==
    ASSUME RecordTypeOK, NEW w \in Required, NEW b, w.file = Blob(b)
    PROVE  w = File(Blob(b), b)
<1>1. \A f, x : File(f, x).file = f /\ File(f, x).data = x
  BY DEF File
<1>2. w.file # Index /\ w.file[1] = "blob" /\ w.file[2] = b
  BY FileNames
<1>3. \/ w = File(Index, IndexData)
      \/ \E c : w = File(Blob(c), c)
      \/ \E k, m : w = File(Meta(k), m)
      \/ \E l : w = File(Layer(l), l)
      \/ \E ks : w = File(Config(ks), ks)
      \/ \E m : w = File(Manifest(m), m)
  BY RequiredShape
<1> QED
  BY <1>1, <1>2, <1>3, FileNames

\* The file at the head of the list is one of the archive, and nothing else of
\* the archive has its name.
LEMMA HeadFacts ==
    ASSUME FileInv, run.writes # <<>>
    PROVE  /\ Head(run.writes) \in Required /\ Head(run.writes) \in Elements(run.writes)
           /\ Tail(run.writes) \in Seq(Required) /\ run.writes \in Seq(Required)
           /\ Elements(run.writes) = Elements(Tail(run.writes)) \cup {Head(run.writes)}
           /\ \A w \in Required : w.file = Head(run.writes).file => w = Head(run.writes)
           /\ \A b : Blob(b) = Head(run.writes).file => Head(run.writes) = File(Blob(b), b)
           /\ Head(run.writes).file = Index <=> run.closing /\ Tail(run.writes) = <<>>
           /\ Head(run.writes).file = Index => Head(run.writes) = File(Index, IndexData)
           /\ run.at # "off" /\ ~Complete
           /\ format # "oci" => ~IndexWhole
<1>1. run.writes \in Seq(Required) /\ RecordTypeOK /\ ReadOnce
  BY DEF FileInv, RecordTypeOK, Runs
<1>2. /\ Head(run.writes) \in Required /\ Tail(run.writes) \in Seq(Required)
      /\ Len(Tail(run.writes)) = Len(run.writes) - 1 /\ Head(run.writes) = run.writes[1]
      /\ Elements(run.writes) = Elements(Tail(run.writes)) \cup {Head(run.writes)}
  BY <1>1, TailFacts
<1>3. /\ DOMAIN run.writes = 1..Len(run.writes) /\ Len(run.writes) \in Nat
      /\ Len(run.writes) # 0
      /\ Tail(run.writes) = <<>> <=> Len(Tail(run.writes)) = 0
  <2>1. /\ DOMAIN run.writes = 1..Len(run.writes) /\ Len(run.writes) \in Nat
        /\ run.writes = <<>> <=> Len(run.writes) = 0
    BY <1>1, ElementsFacts
  <2>2. Tail(run.writes) = <<>> <=> Len(Tail(run.writes)) = 0
    BY <1>2, ElementsFacts
  <2> QED
    BY <2>1, <2>2
<1>4. Head(run.writes).file = Index <=> run.closing /\ Tail(run.writes) = <<>>
  <2>1. 1 \in DOMAIN run.writes /\ (1 = Len(run.writes) <=> Tail(run.writes) = <<>>)
    BY <1>2, <1>3
  <2> QED
    BY <1>2, <2>1 DEF FileInv, IndexLast
<1>5. \A w \in Required : w.file = Head(run.writes).file => w = Head(run.writes)
  BY <1>1, <1>2, OneContent
<1>6. \A b : Blob(b) = Head(run.writes).file => Head(run.writes) = File(Blob(b), b)
  BY <1>1, <1>2, BlobContent
<1>7. ASSUME Head(run.writes).file = Index PROVE Head(run.writes) = File(Index, IndexData)
  <2>1. \A f, x : File(f, x).file = f
    BY DEF File
  <2> QED
    BY <1>1, <1>2, <1>7, <2>1, RequiredShape, FileNames
<1>8. run.at # "off" /\ ~Complete
  BY DEF FileInv, InPlace, Complete
<1>9. format # "oci" => ~IndexWhole
  BY <1>8 DEF FileInv, IndexSound
<1> QED
  BY <1>1, <1>2, <1>4, <1>5, <1>6, <1>7, <1>8, <1>9

LEMMA TruncateKeeps ==
    ASSUME FileInv, Truncate
    PROVE  FileInv'
<1> DEFINE h == Head(run.writes)
<1>1. /\ run \in Runs(Required) /\ run.writes # <<>> /\ run.at = "write"
      /\ run' = [run EXCEPT !.at = "written"]
      /\ dest' = [f \in DOMAIN dest \cup {h.file} |-> IF f = h.file THEN Damaged ELSE dest[f]]
      /\ UNCHANGED <<format, store, client, keys, writer, last>>
  BY DEF FileInv, RecordTypeOK, Truncate
<1>2. /\ h \in Required /\ h \in Elements(run.writes)
      /\ \A w \in Required : w.file = h.file => w = h
      /\ \A b : Blob(b) = h.file => h = File(Blob(b), b)
      /\ ~Complete /\ (format # "oci" => ~IndexWhole)
  BY <1>1, HeadFacts
<1> HIDE DEF h
<1>3. /\ DOMAIN dest' = DOMAIN dest \cup {h.file} /\ dest'[h.file] = Damaged
      /\ \A f \in DOMAIN dest : f # h.file => dest'[f] = dest[f]
      /\ dest' = [f \in DOMAIN dest' |-> dest'[f]]
  BY <1>1
<1>4. /\ run' \in Runs(Required) /\ run'.at = "written" /\ run'.writes = run.writes
      /\ run'.todo = run.todo /\ run'.closing = run.closing /\ run'.result = run.result
      /\ run'.meta = run.meta
  BY <1>1 DEF Runs, Places
<1>5. Closed' = Closed
  BY <1>1, <1>4 DEF Closed
<1>6. EntryFiles' = EntryFiles /\ CloseWrites' = CloseWrites
  BY <1>1 DEF EntryFiles, CloseWrites, CASClose, OCIClose, AllLayers, ArchivedKeys
<1>7. Required' = Required
  BY <1>5, <1>6 DEF Required
<1>8. RecordTypeOK'
  BY <1>1, <1>3, <1>4, <1>7 DEF FileInv, RecordTypeOK
<1>9. InPlace'
  BY <1>1, <1>3, <1>4 DEF FileInv, InPlace, h
<1>10. ReadOnce' /\ NoneLost' /\ IndexLast'
  BY <1>1, <1>4 DEF FileInv, ReadOnce, NoneLost, IndexLast
<1>11. FilesKept'
  <2>1. ASSUME NEW w \in Required PROVE Whole(w)' \/ w \in Elements(run.writes)
    <3>1. CASE w.file = h.file
      BY <1>2, <3>1
    <3>2. CASE w.file # h.file
      <4>1. Whole(w) \/ w \in Elements(run.writes)
        BY <1>1 DEF FileInv, FilesKept
      <4> QED
        BY <1>3, <3>2, <4>1 DEF Whole
    <3> QED
      BY <3>1, <3>2
  <2>2. ASSUME format = "cas", NEW b \in Contents, Blob(b) \in DOMAIN dest'
        PROVE  dest'[Blob(b)] = b \/ File(Blob(b), b) \in Elements(run.writes)
    <3>1. CASE Blob(b) = h.file
      BY <1>2, <3>1
    <3>2. CASE Blob(b) # h.file
      <4>1. Blob(b) \in DOMAIN dest
        BY <1>3, <2>2, <3>2
      <4>2. dest[Blob(b)] = b \/ File(Blob(b), b) \in Elements(run.writes)
        BY <1>1, <2>2, <4>1 DEF FileInv, FilesKept
      <4> QED
        BY <1>3, <3>2, <4>1, <4>2
    <3> QED
      BY <3>1, <3>2
  <2> QED
    BY <1>1, <1>4, <1>7, <2>1, <2>2 DEF FilesKept
<1>12. IndexSound'
  <2>1. ~Complete'
    BY <1>1, <1>4 DEF Complete
  <2>2. IndexWhole' => IndexWhole /\ dest'[Index] = dest[Index]
    BY <1>3 DEF IndexWhole
  <2> QED
    BY <1>1, <1>2, <2>1, <2>2 DEF FileInv, IndexSound, Describes
<1> QED
  BY <1>8, <1>9, <1>10, <1>11, <1>12 DEF FileInv

LEMMA WriteKeeps ==
    ASSUME FileInv, Write
    PROVE  FileInv'
<1> DEFINE h == Head(run.writes)
           t == Tail(run.writes)
<1>1. /\ run \in Runs(Required) /\ run.writes # <<>> /\ run.at = "written"
      /\ h.file \in DOMAIN dest /\ dest = [f \in DOMAIN dest |-> dest[f]]
      /\ run' = [run EXCEPT !.at = "write", !.writes = t]
      /\ dest' = [dest EXCEPT ![h.file] = h.data]
      /\ last' = IF run.closing /\ t = <<>> THEN writer.added ELSE last
      /\ UNCHANGED <<format, store, client, keys, writer>>
  BY DEF FileInv, RecordTypeOK, InPlace, Write
<1>2. /\ h \in Required /\ t \in Seq(Required) /\ run.writes \in Seq(Required)
      /\ Elements(run.writes) = Elements(t) \cup {h}
      /\ \A w \in Required : w.file = h.file => w = h
      /\ \A b : Blob(b) = h.file => h = File(Blob(b), b)
      /\ h.file = Index <=> run.closing /\ t = <<>>
      /\ h.file = Index => h = File(Index, IndexData)
      /\ ~Complete /\ (format # "oci" => ~IndexWhole)
  BY <1>1, HeadFacts
<1>3. /\ Len(t) = Len(run.writes) - 1 /\ Len(run.writes) \in Nat
      /\ DOMAIN t = 1..Len(t) /\ DOMAIN run.writes = 1..Len(run.writes)
      /\ \A i \in 1..Len(run.writes) - 1 : t[i] = run.writes[i + 1]
  BY <1>1, <1>2, TailFacts, ElementsFacts
<1> HIDE DEF h, t
<1>4. /\ DOMAIN dest' = DOMAIN dest /\ dest'[h.file] = h.data
      /\ \A f \in DOMAIN dest : f # h.file => dest'[f] = dest[f]
      /\ dest' = [f \in DOMAIN dest' |-> dest'[f]]
  BY <1>1
<1>5. /\ run' \in Runs(Required) /\ run'.at = "write" /\ run'.writes = t
      /\ run'.todo = run.todo /\ run'.closing = run.closing /\ run'.result = run.result
      /\ run'.meta = run.meta
  BY <1>1, <1>2 DEF Runs, Places
<1>6. Closed' = Closed
  BY <1>1, <1>5 DEF Closed
<1>7. EntryFiles' = EntryFiles /\ CloseWrites' = CloseWrites
  BY <1>1 DEF EntryFiles, CloseWrites, CASClose, OCIClose, AllLayers, ArchivedKeys
<1>8. Required' = Required
  BY <1>6, <1>7 DEF Required
<1>9. RecordTypeOK'
  BY <1>1, <1>4, <1>5, <1>8 DEF FileInv, RecordTypeOK
<1>10. InPlace' /\ ReadOnce' /\ NoneLost'
  BY <1>1, <1>5 DEF FileInv, InPlace, ReadOnce, NoneLost
<1>11. IndexLast'
  <2>1. ASSUME NEW i \in DOMAIN t PROVE t[i].file = Index <=> run.closing /\ i = Len(t)
    <3>1. /\ i + 1 \in DOMAIN run.writes /\ t[i] = run.writes[i + 1]
          /\ i + 1 = Len(run.writes) <=> i = Len(t)
      BY <1>3
    <3> QED
      BY <3>1 DEF FileInv, IndexLast
  <2> QED
    BY <1>5, <2>1 DEF IndexLast
<1>12. \A w \in Required : Whole(w)' \/ w \in Elements(t)
  <2> TAKE w \in Required
  <2>1. CASE w.file = h.file
    BY <1>1, <1>2, <1>4, <2>1 DEF Whole
  <2>2. CASE w.file # h.file
    <3>1. Whole(w) \/ w \in Elements(run.writes)
      BY <1>1 DEF FileInv, FilesKept
    <3> QED
      BY <1>2, <1>4, <2>2, <3>1 DEF Whole
  <2> QED
    BY <2>1, <2>2
<1>13. FilesKept'
  <2>1. ASSUME format = "cas", NEW b \in Contents, Blob(b) \in DOMAIN dest'
        PROVE  dest'[Blob(b)] = b \/ File(Blob(b), b) \in Elements(t)
    <3>1. dest[Blob(b)] = b \/ File(Blob(b), b) \in Elements(run.writes)
      BY <1>1, <1>4, <2>1 DEF FileInv, FilesKept
    <3>2. File(Blob(b), b).file = Blob(b) /\ File(Blob(b), b).data = b
      BY DEF File
    <3>3. CASE Blob(b) = h.file
      BY <1>2, <1>4, <3>2, <3>3
    <3>4. CASE Blob(b) # h.file
      BY <1>2, <1>4, <2>1, <3>1, <3>2, <3>4
    <3> QED
      BY <3>3, <3>4
  <2> QED
    BY <1>1, <1>5, <1>8, <1>12, <2>1 DEF FilesKept
<1>14. IndexSound'
  <2>1. CASE run.closing /\ t = <<>>
    <3>1. h = File(Index, IndexData) /\ h.file = Index /\ h.data = IndexData
      BY <1>2, <2>1 DEF File
    <3>2. dest'[Index] = IndexData /\ last' = writer.added
      BY <1>1, <1>4, <2>1, <3>1
    <3>3. Describes(IndexData, writer.added)
      BY IndexDataFacts DEF FileInv
    <3>4. Complete'
      BY <1>5, <2>1 DEF Complete, Closed
    <3>5. \A w \in Required : Whole(w)'
      BY <1>12, <2>1, EmptyFacts
    <3>6. ASSUME format = "cas", NEW e \in writer.added
          PROVE  Whole(File(Blob(e.body), e.body))' /\ Whole(File(Meta(e.key), e.meta))'
      <4>1. File(Blob(e.body), e.body) \in Required /\ File(Meta(e.key), e.meta) \in Required
        BY <3>6 DEF Required, EntryFiles
      <4> QED
        BY <3>5, <4>1
    <3> QED
      BY <1>1, <3>2, <3>3, <3>4, <3>6 DEF IndexSound, Describes
  <2>2. CASE ~(run.closing /\ t = <<>>)
    <3>1. h.file # Index /\ last' = last /\ ~Complete'
      BY <1>1, <1>2, <1>5, <2>2 DEF Complete, Closed
    <3>2. IndexWhole' => IndexWhole /\ dest'[Index] = dest[Index]
      BY <1>4, <3>1 DEF IndexWhole
    <3> QED
      BY <1>1, <1>2, <3>1, <3>2 DEF FileInv, IndexSound, Describes
  <2> QED
    BY <2>1, <2>2
<1> QED
  BY <1>9, <1>10, <1>11, <1>13, <1>14 DEF FileInv

-----------------------------------------------------------------------------
(* The invariant holds, in directories that CAS sessions do not share.       *)

LEMMA FileInvInit == Init => FileInv
<1> SUFFICES ASSUME Init PROVE FileInv
  OBVIOUS
<1>1. /\ format \in Formats /\ store \in InitialStores
      /\ client = [c \in Clients |-> IdleClient] /\ keys = <<>> /\ run = Off
      /\ writer = NewWriter /\ dest = NoFiles /\ last = {}
  BY DEF Init
<1>2. /\ run.at = "off" /\ run.todo = <<>> /\ run.meta = NoObject /\ run.writes = <<>>
      /\ run.closing = FALSE /\ run.result = "none" /\ run.quiet = FALSE
      /\ \A R : run \in Runs(R)
  BY <1>1, EmptyFacts DEF Off, Runs, Places, Objects, Results
<1>3. /\ writer.added = {} /\ writer.pending = <<>> /\ writer.layers = <<>>
      /\ writer \in [added : SUBSET Entries, pending : Seq(Entries), layers : Seq(Seq(Entries))]
  BY <1>1, EmptyFacts DEF NewWriter
<1>4. DOMAIN dest = {} /\ dest = [f \in DOMAIN dest |-> dest[f]]
  BY <1>1 DEF NoFiles
<1>5. ~Closed /\ ~Complete /\ ~IndexWhole
  BY <1>2, <1>4 DEF Closed, Complete, IndexWhole
<1>6. store \in [Keys -> [Parts -> Objects]]
  BY <1>1, RecordAssumption DEF Objects, Contents
<1>7. client \in [Clients -> Operation]
  BY <1>1 DEF Operation
<1>8. RecordTypeOK
  BY <1>1, <1>2, <1>3, <1>4, <1>6, <1>7, EmptyFacts DEF RecordTypeOK
<1>9. InPlace /\ ReadOnce /\ NoneLost
  BY <1>2, <1>3, EmptyFacts DEF InPlace, ReadOnce, NoneLost
<1>10. FilesKept /\ IndexLast /\ IndexSound
  BY <1>2, <1>5, EmptyFacts DEF FilesKept, IndexLast, IndexSound
<1> QED
  BY <1>8, <1>9, <1>10 DEF FileInv

LEMMA FileInvStep ==
    ASSUME FileInv, [Next]_vars, "cas" \notin Reuse
    PROVE  FileInv'
<1>1. CASE Record
  BY <1>1, RecordKeeps
<1>2. CASE Crash
  BY <1>2, EndKeeps DEF Crash
<1>3. CASE FinalizeStep
  <2>1. CASE SkipMeta \/ SkipBody
    BY <2>1, ContinueKeeps DEF SkipMeta, SkipBody, Parts
  <2>2. CASE AddFails \/ WriteFails
    BY <2>2, EndKeeps DEF AddFails, WriteFails
  <2> QED
    BY <1>3, <2>1, <2>2, FinalizeKeeps, ReadMetaKeeps, AddKeeps, TruncateKeeps, WriteKeeps,
       NextKeyKeeps, CloseKeeps, FinalizedKeeps DEF FinalizeStep
<1>4. CASE \E c \in Clients : ClientStep(c)
  BY <1>4, ClientStepKeeps
<1>5. CASE UNCHANGED vars
  <2>1. UNCHANGED <<format, writer, dest, last, run, store, client, keys>>
    BY <1>5 DEF vars
  <2> QED
    BY <2>1, ClientStays DEF FileInv, RecordTypeOK
<1> QED
  BY <1>1, <1>2, <1>3, <1>4, <1>5 DEF Next

\* The files of a session's archive are on disk or in its list of writes, with
\* the index last, and the index on disk is that of the last archive that was
\* completed (Add, flushLayer and Close of the three writers).
THEOREM FilesInvariance ==
    ASSUME "cas" \notin Reuse
    PROVE  Spec => []FileInv
<1>1. Init => FileInv
  BY FileInvInit
<1>2. FileInv /\ [Next]_vars => FileInv'
  BY FileInvStep
<1> QED
  BY <1>1, <1>2, PTL DEF Spec

-----------------------------------------------------------------------------
(* What an offline proxy may see.                                            *)

LEMMA CASViewIsLast ==
    ASSUME FileInv, format = "cas", IndexWhole
    PROVE  CASView = last
<1>1. dest[Index] = {<<e.key, e.body>> : e \in last}
  BY DEF FileInv, IndexSound, Describes
<1>2. \A e \in last : /\ Blob(e.body) \in DOMAIN dest /\ dest[Blob(e.body)] = e.body
                      /\ Meta(e.key) \in DOMAIN dest /\ dest[Meta(e.key)] = e.meta
  BY DEF FileInv, IndexSound, Whole, File
<1>3. \A e \in last : Entry(e.key, e.meta, e.body) = e
  BY DEF FileInv, RecordTypeOK, Entries, Entry
<1>4. ASSUME NEW e \in last PROVE e \in CASView
  <2> DEFINE y == <<e.key, e.body>>
  <2>1. y \in dest[Index] /\ y[1] = e.key /\ y[2] = e.body
    BY <1>1
  <2> HIDE DEF y
  <2>2. e = Entry(y[1], dest[Meta(y[1])], dest[Blob(y[2])])
    BY <1>2, <1>3, <2>1
  <2> QED
    BY <1>2, <2>1, <2>2 DEF CASView
<1>5. ASSUME NEW v \in CASView PROVE v \in last
  <2>1. PICK y \in dest[Index] : v = Entry(y[1], dest[Meta(y[1])], dest[Blob(y[2])])
    BY DEF CASView
  <2>2. PICK e \in last : y = <<e.key, e.body>>
    BY <1>1, <2>1
  <2> QED
    BY <1>2, <1>3, <2>1, <2>2
<1> QED
  BY <1>4, <1>5

\* A layer that is whole gives its entries; one that is not gives some of them,
\* and perhaps one without its body.
LEMMA LayerViewFacts ==
    ASSUME NEW l \in Seq(Entries)
    PROVE  /\ dest[Layer(l)] # Damaged => LayerViews(l) = {Elements(l)}
           /\ \A v \in LayerViews(l) : \A e \in v :
                 \/ e \in Elements(l)
                 \/ e.body = Damaged /\ \E o \in Elements(l) : o.key = e.key /\ o.meta = e.meta
<1>1. dest[Layer(l)] # Damaged => LayerViews(l) = {Elements(l)}
  BY DEF LayerViews
<1>2. CASE dest[Layer(l)] # Damaged
  BY <1>1, <1>2
<1>3. CASE dest[Layer(l)] = Damaged
  <2> DEFINE A(n) == Elements(SubSeq(l, 1, n))
             cut(n) == [l[n + 1] EXCEPT !.body = Damaged]
             views(n) == {A(n)} \cup (IF n = Len(l) THEN {} ELSE {A(n) \cup {cut(n)}})
  <2>1. LayerViews(l) = UNION {views(n) : n \in 0..Len(l)}
    BY <1>3 DEF LayerViews
  <2>2. DOMAIN l = 1..Len(l) /\ Len(l) \in Nat /\ \A i \in 1..Len(l) : l[i] \in Entries
    BY LenProperties, ElementOfSeq
  <2>3. ASSUME NEW n \in 0..Len(l) PROVE A(n) \subseteq Elements(l)
    <3> DEFINE r == SubSeq(l, 1, n)
    <3>1. /\ r \in Seq(Entries) /\ Len(r) = n /\ \A i \in 1..n : r[i] = l[i]
      <4>1. 1 \in Int /\ n \in Int /\ \A i \in 1..n : l[i] \in Entries
        BY <2>2
      <4>2. /\ r \in Seq(Entries) /\ Len(r) = IF 1 <= n THEN n - 1 + 1 ELSE 0
            /\ \A i \in 1..n - 1 + 1 : r[i] = l[1 + i - 1]
        BY <4>1, SubSeqProperties
      <4> HIDE DEF r
      <4> QED
        BY <2>2, <4>2
    <3> HIDE DEF r
    <3>2. DOMAIN r = 1..n
      BY <3>1, ElementsFacts
    <3>3. Elements(r) \subseteq Elements(l)
      BY <2>2, <3>1, <3>2 DEF Elements
    <3> QED
      BY <3>3 DEF r
  <2>4. ASSUME NEW n \in 0..Len(l), n # Len(l)
        PROVE  \E o \in Elements(l) :
                  cut(n).body = Damaged /\ o.key = cut(n).key /\ o.meta = cut(n).meta
    <3>1. l[n + 1] \in Entries /\ l[n + 1] \in Elements(l)
      <4>0. \A a \in Nat : \A i \in 0..a : i # a => i + 1 \in 1..a
        OBVIOUS
      <4>1. n + 1 \in 1..Len(l)
        BY <2>2, <2>4, <4>0
      <4> QED
        BY <2>2, <4>1 DEF Elements
    <3>2. cut(n).body = Damaged /\ l[n + 1].key = cut(n).key /\ l[n + 1].meta = cut(n).meta
      BY <3>1 DEF Entries
    <3> QED
      BY <3>1, <3>2
  <2> HIDE DEF A, cut
  <2>5. ASSUME NEW v \in LayerViews(l), NEW e \in v
        PROVE  \/ e \in Elements(l)
               \/ e.body = Damaged /\ \E o \in Elements(l) : o.key = e.key /\ o.meta = e.meta
    <3>1. PICK n \in 0..Len(l) : v \in views(n)
      BY <2>1
    <3>2. e \in A(n) \/ (n # Len(l) /\ e = cut(n))
      BY <3>1
    <3> QED
      BY <2>3, <2>4, <3>2
  <2> QED
    BY <1>3, <2>5
<1> QED
  BY <1>2, <1>3

\* What an OCI layout shows comes from the entries that its index describes.
LEMMA OCIViewFacts ==
    ASSUME FileInv, format = "oci", IndexWhole, NEW v \in OCIViews, NEW e \in v
    PROVE  \/ e \in last
           \/ e.body = Damaged /\ \E o \in last : o.key = e.key /\ o.meta = e.meta
<1> DEFINE m == dest[Index]
           n == Len(m.layers)
<1>1. m \in Manifests /\ EntriesIn(m.layers) = last
  BY DEF FileInv, IndexSound, Describes
<1>2. /\ m.layers \in Seq(Seq(Entries)) /\ n \in Nat /\ DOMAIN m.layers = 1..n
      /\ \A i \in 1..n : m.layers[i] \in Seq(Entries) /\ m.layers[i] \in Elements(m.layers)
  <2>1. m.layers \in Seq(Seq(Entries))
    BY <1>1 DEF Manifests
  <2>2. /\ n \in Nat /\ DOMAIN m.layers = 1..n
        /\ \A i \in 1..n : m.layers[i] \in Seq(Entries)
    BY <2>1, LenProperties, ElementOfSeq
  <2> QED
    BY <2>1, <2>2 DEF Elements
<1>3. PICK q \in [1..n -> UNION {LayerViews(m.layers[i]) : i \in 1..n}] :
         /\ \A i \in 1..n : q[i] \in LayerViews(m.layers[i])
         /\ v = UNION Elements(q)
  BY DEF OCIViews
<1> HIDE DEF m, n
<1>4. PICK i \in 1..n : e \in q[i]
  BY <1>3 DEF Elements
<1>5. Elements(m.layers[i]) \subseteq last
  BY <1>1, <1>2, EntriesInFacts
<1>6. \/ e \in Elements(m.layers[i])
      \/ /\ e.body = Damaged
         /\ \E o \in Elements(m.layers[i]) : o.key = e.key /\ o.meta = e.meta
  BY <1>2, <1>3, <1>4, LayerViewFacts
<1> QED
  BY <1>5, <1>6

LEMMA FinishedFiles ==
    ASSUME FileInv, run.at = "off", run.result = "ok"
    PROVE  /\ Closed /\ last = writer.added
           /\ \A w \in Required : Whole(w)
           /\ dest[Index] = IndexData /\ IndexWhole
<1>1. run.writes = <<>> /\ Closed /\ Complete
  BY DEF FileInv, InPlace, Closed, Complete
<1>2. \A w \in Required : Whole(w)
  BY <1>1, EmptyFacts DEF FileInv, FilesKept
<1>3. File(Index, IndexData) \in Required
  BY <1>1, CloseFacts DEF FileInv, Required
<1>4. dest[Index] = IndexData /\ Index \in DOMAIN dest
  <2>1. File(Index, IndexData).file = Index /\ File(Index, IndexData).data = IndexData
    BY DEF File
  <2> QED
    BY <1>2, <1>3, <2>1 DEF Whole
<1>5. IndexData # Damaged
  BY IndexDataFacts DEF FileInv
<1> QED
  BY <1>1, <1>2, <1>4, <1>5 DEF FileInv, IndexSound, IndexWhole

LEMMA FinishedOCIView ==
    ASSUME FileInv, run.at = "off", run.result = "ok", format = "oci"
    PROVE  OCIViews = {writer.added}
<1> DEFINE m == dest[Index]
           n == Len(m.layers)
           Readable(f) == f \in DOMAIN dest /\ dest[f] # Damaged
<1>1. /\ m = IndexData /\ IndexData = [layers |-> AllLayers, config |-> ArchivedKeys]
      /\ m.layers = AllLayers /\ m.config = ArchivedKeys
      /\ IndexData # Damaged /\ IndexData \in Manifests
      /\ EntriesIn(AllLayers) = writer.added
  BY FinishedFiles, IndexDataFacts DEF FileInv, IndexData, Describes
<1>2. \A f, x : File(f, x).file = f /\ File(f, x).data = x
  BY DEF File
<1>3. Readable(Manifest(m))
  <2>1. File(Manifest(IndexData), IndexData) \in Required
    BY FinishedFiles, CloseFacts DEF FileInv, Required
  <2> QED
    BY <1>1, <1>2, <2>1, FinishedFiles DEF Whole
<1>4. Readable(Config(m.config))
  <2>1. File(Config(ArchivedKeys), ArchivedKeys) \in Required
    BY FinishedFiles, CloseFacts DEF FileInv, Required
  <2>2. ArchivedKeys \in SUBSET Keys
    BY <1>1 DEF Manifests
  <2>3. ArchivedKeys # Damaged
    BY <2>2, DamagedAssumption
  <2> QED
    BY <1>1, <1>2, <2>1, <2>3, FinishedFiles DEF Whole
<1>5. /\ n \in Nat /\ DOMAIN m.layers = 1..n
      /\ \A i \in 1..n : m.layers[i] \in Seq(Entries) /\ m.layers[i] \in Elements(m.layers)
      /\ \A l \in Elements(m.layers) : l \in Seq(Entries) /\ \E i \in 1..n : l = m.layers[i]
  <2>1. m.layers \in Seq(Seq(Entries))
    BY <1>1 DEF Manifests
  <2>2. /\ n \in Nat /\ DOMAIN m.layers = 1..n
        /\ \A i \in 1..n : m.layers[i] \in Seq(Entries)
    BY <2>1, LenProperties, ElementOfSeq
  <2> QED
    BY <2>1, <2>2 DEF Elements
<1>6. ASSUME NEW i \in 1..n
      PROVE  Readable(Layer(m.layers[i])) /\ LayerViews(m.layers[i]) = {Elements(m.layers[i])}
  <2> DEFINE l == m.layers[i]
  <2>1. l \in Elements(AllLayers) /\ l \in Seq(Entries)
    BY <1>1, <1>5
  <2> HIDE DEF l
  <2>2. File(Layer(l), l) \in Required
    <3>1. CASE l \in Elements(writer.layers)
      BY <3>1 DEF Required, EntryFiles
    <3>2. CASE l \notin Elements(writer.layers)
      <4>1. l = writer.pending /\ writer.pending # <<>>
        BY <2>1, <3>2, AllLayersFacts DEF FileInv
      <4> QED
        BY <4>1, FinishedFiles, CloseFacts DEF FileInv, Required
    <3> QED
      BY <3>1, <3>2
  <2>3. l # Damaged
    BY <2>1, DamagedAssumption
  <2>4. Readable(Layer(l))
    BY <1>2, <2>2, <2>3, FinishedFiles DEF Whole
  <2>5. LayerViews(l) = {Elements(l)}
    BY <2>1, <2>4, LayerViewFacts
  <2> QED
    BY <2>4, <2>5 DEF l
<1> DEFINE Q == {q \in [1..n -> UNION {LayerViews(m.layers[i]) : i \in 1..n}] :
                    \A i \in 1..n : q[i] \in LayerViews(m.layers[i])}
<1>7. OCIViews = {UNION Elements(p) : p \in Q}
  BY <1>3, <1>4, <1>6 DEF OCIViews
<1> HIDE DEF m, n
<1>8. ASSUME NEW q \in Q PROVE UNION Elements(q) = writer.added
  <2>1. DOMAIN q = 1..n /\ \A i \in 1..n : q[i] = Elements(m.layers[i])
    BY <1>6
  <2>2. ASSUME NEW e \in UNION Elements(q) PROVE e \in EntriesIn(AllLayers)
    <3>1. PICK i \in 1..n : e \in q[i]
      BY <2>1 DEF Elements
    <3>2. m.layers[i] \in Elements(AllLayers) /\ e \in Elements(m.layers[i])
      BY <1>1, <1>5, <2>1, <3>1
    <3> QED
      BY <3>2, EntriesInFacts
  <2>3. ASSUME NEW e \in EntriesIn(AllLayers) PROVE e \in UNION Elements(q)
    <3>1. PICK l \in Elements(AllLayers) : e \in Elements(l)
      BY EntriesInFacts
    <3>2. PICK i \in 1..n : l = m.layers[i]
      BY <1>1, <1>5
    <3>3. q[i] \in Elements(q) /\ e \in q[i]
      BY <2>1, <3>1, <3>2 DEF Elements
    <3> QED
      BY <3>3
  <2> QED
    BY <1>1, <2>2, <2>3
<1>9. [i \in 1..n |-> Elements(m.layers[i])] \in Q
  BY <1>6
<1> HIDE DEF Q
<1> QED
  BY <1>7, <1>8, <1>9

-----------------------------------------------------------------------------
(* What a Finalize that nothing disturbs reads.                              *)

Finalizing == {"readMeta", "readBody", "write", "written"}

\* A step that leaves store and put alone, of a process that Finalize has in
\* hand or that has ended: only what it does to the keys still to be read, the
\* metadata read and the entries added can matter.
LEMMA QuietStays ==
    ASSUME QuietInv, UNCHANGED <<store, put>>, run.at \in Finalizing,
           run'.at \in Finalizing, client' = client,
           run'.quiet => run.quiet,
           run'.quiet /\ run'.at = "readBody" => run'.meta = store[Head(run'.todo)]["meta"],
           run'.quiet => \A k \in put : Gathered(k) => Gathered(k)'
    PROVE  QuietInv'
  BY DEF QuietInv, Finalizing

\* A client in an operation is what quiet excludes; one that begins ends it.
LEMMA QuietClient ==
    ASSUME FileInv, QuietInv, NEW c \in Clients, ClientStep(c)
    PROVE  QuietInv'
<1>1. /\ run \in Runs(Required) /\ client \in [Clients -> Operation]
      /\ keys \in Seq(Keys)
  BY DEF FileInv, RecordTypeOK
<1>2. run.at \in Places
  BY <1>1 DEF Runs
<1>3. ASSUME NEW op, StartCall(c, op) PROVE QuietInv'
  <2>1. /\ run' = [run EXCEPT !.quiet = FALSE] /\ UNCHANGED <<keys, put>>
    BY <1>3 DEF StartCall
  <2>2. run'.at = run.at /\ ~run'.quiet
    BY <1>1, <2>1 DEF Runs
  <2> QED
    BY <2>1, <2>2 DEF QuietInv
<1>4. ASSUME NEW at, at # "idle", Busy(c, at) PROVE ~run.quiet
  <2>1. client[c] # IdleClient /\ run.at # "off"
    BY <1>4 DEF Busy, IdleClient
  <2>2. run.at = "serving" => ~run.quiet
    BY DEF QuietInv
  <2>3. run.at \in Finalizing => ~run.quiet
    BY <2>1 DEF QuietInv, Finalizing
  <2> QED
    BY <1>2, <2>1, <2>2, <2>3 DEF Places, Finalizing
<1>5. ASSUME ~run.quiet, run' = run, put' \subseteq Keys,
             run.at = "serving" => put' \subseteq Elements(keys')
      PROVE  QuietInv'
  BY <1>5 DEF QuietInv
<1>6. put \subseteq Keys /\ (run.at = "serving" => put \subseteq Elements(keys))
  BY DEF QuietInv
<1>7. ASSUME NEW k \in Keys, recordEntry(k)
      PROVE  Elements(keys') = Elements(keys) \cup {k}
  <2>1. CASE k \in Elements(keys)
    BY <1>7, <2>1 DEF recordEntry
  <2>2. CASE k \notin Elements(keys)
    BY <1>1, <1>7, <2>2, AppendFacts DEF recordEntry
  <2> QED
    BY <2>1, <2>2
<1>8. ASSUME NEW at, at # "idle", Busy(c, at) PROVE client[c].key \in Keys
  <2>1. client[c] # IdleClient
    BY <1>8 DEF Busy, IdleClient
  <2> QED
    BY <2>1, BusyFacts
<1>9. ASSUME RecordMeta(c) PROVE QuietInv'
  <2>1. Busy(c, "recordMeta") /\ recordEntry(client[c].key) /\ run' = run /\ put' = put
    BY <1>9 DEF RecordMeta
  <2>2. Elements(keys') = Elements(keys) \cup {client[c].key}
    BY <1>7, <1>8, <2>1
  <2> QED
    BY <1>4, <1>5, <1>6, <2>1, <2>2
<1>10. ASSUME RecordBody(c) PROVE QuietInv'
  <2>1. /\ Busy(c, "recordBody") /\ recordEntry(client[c].key) /\ run' = run
        /\ put' \subseteq put \cup {client[c].key}
    BY <1>10 DEF RecordBody
  <2>2. Elements(keys') = Elements(keys) \cup {client[c].key} /\ client[c].key \in Keys
    BY <1>7, <1>8, <2>1
  <2> QED
    BY <1>4, <1>5, <1>6, <2>1, <2>2
<1>11. ASSUME NEW at, at # "idle", Busy(c, at), UNCHANGED <<run, keys, put>>
       PROVE  QuietInv'
  BY <1>4, <1>5, <1>6, <1>11
<1>12. ASSUME NEW p \in Parts, PutObject(c, p) \/ PutObjectFails(c, p) PROVE QuietInv'
  <2>1. Busy(c, p) /\ p # "idle" /\ UNCHANGED <<run, keys, put>>
    BY <1>12 DEF PutObject, PutObjectFails, Parts, recordVars
  <2> QED
    BY <1>11, <2>1
<1>13. ASSUME DeleteExists(c) \/ DeleteMeta(c) \/ DeleteBody(c) \/ DeleteFails(c)
       PROVE  QuietInv'
  <2>1. /\ Busy(c, "exists") \/ Busy(c, "deleteMeta") \/ Busy(c, "deleteBody")
        /\ UNCHANGED <<run, keys, put>>
    BY <1>13 DEF DeleteExists, DeleteMeta, DeleteBody, DeleteFails, recordVars
  <2> QED
    BY <1>11, <2>1
<1> QED
  BY <1>3, <1>9, <1>10, <1>12, <1>13 DEF ClientStep, StartPut, StartDelete

LEMMA QuietFinalize ==
    ASSUME FileInv, QuietInv, Finalize
    PROVE  QuietInv'
<1> DEFINE q == \A c \in Clients : client[c] = IdleClient
<1>1. /\ run \in Runs(Required) /\ run.at = "serving" /\ UNCHANGED <<store, client, put>>
      /\ run' = [run EXCEPT !.at = "readMeta", !.todo = keys, !.quiet = q]
  BY DEF FileInv, RecordTypeOK, Finalize
<1>2. run'.at = "readMeta" /\ run'.todo = keys /\ (run'.quiet <=> q)
  BY <1>1 DEF Runs
<1>3. put \subseteq Keys /\ \A k \in put : Gathered(k)'
  BY <1>1, <1>2 DEF QuietInv, Gathered
<1> QED
  BY <1>1, <1>2, <1>3 DEF QuietInv

\* What is passed over is not there.
LEMMA QuietContinue ==
    ASSUME FileInv, QuietInv, NEW p \in Parts, Continue(p),
           run.at \in {"readMeta", "readBody"}
    PROVE  QuietInv'
<1>1. /\ run \in Runs(Required) /\ run.todo # <<>> /\ run.todo \in Seq(Keys)
      /\ UNCHANGED <<store, client, writer, put>>
  BY DEF FileInv, RecordTypeOK, Continue, Runs
<1> DEFINE q == run.quiet /\ store[Head(run.todo)][p] = NoObject
<1>2. run' = [run EXCEPT !.at = "readMeta", !.todo = Tail(run.todo), !.quiet = q]
  BY DEF Continue
<1>3. run'.at = "readMeta" /\ run'.todo = Tail(run.todo) /\ (run'.quiet <=> q)
  BY <1>1, <1>2 DEF Runs
<1>4. Elements(run.todo) = Elements(Tail(run.todo)) \cup {Head(run.todo)}
  BY <1>1, TailFacts
<1>5. ASSUME q, NEW k \in put, Gathered(k) PROVE Gathered(k)'
  BY <1>1, <1>3, <1>4, <1>5 DEF Gathered
<1> QED
  BY <1>1, <1>3, <1>5, QuietStays DEF Finalizing

LEMMA QuietReadMeta ==
    ASSUME FileInv, QuietInv, ReadMeta
    PROVE  QuietInv'
<1>1. run \in Runs(Required) /\ UNCHANGED <<store, client, writer, put>> /\ run.at = "readMeta"
  BY DEF FileInv, RecordTypeOK, ReadMeta
<1> DEFINE m == store[Head(run.todo)]["meta"]
<1>2. PICK r : run' = [run EXCEPT !.at = "readBody", !.meta = r, !.quiet = run.quiet /\ r = m]
  BY DEF ReadMeta
<1>3. /\ run'.at = "readBody" /\ run'.todo = run.todo /\ run'.meta = r
      /\ (run'.quiet <=> run.quiet /\ r = m)
  BY <1>1, <1>2 DEF Runs
<1>4. \A k : Gathered(k) => Gathered(k)'
  BY <1>1, <1>3 DEF Gathered
<1> QED
  BY <1>1, <1>3, <1>4, QuietStays DEF Finalizing

\* What is added is what the storage holds.
LEMMA QuietAdd ==
    ASSUME FileInv, QuietInv, Add
    PROVE  QuietInv'
<1> DEFINE k == Head(run.todo)
           e == Entry(k, run.meta, store[k]["body"])
<1>1. /\ run \in Runs(Required) /\ run.todo # <<>> /\ run.todo \in Seq(Keys)
      /\ run.at = "readBody" /\ UNCHANGED <<store, client, put>>
  BY DEF FileInv, RecordTypeOK, InPlace, Add, Runs
<1>2. /\ writer' = Added(e)
      /\ run' = [run EXCEPT !.at = "write", !.todo = Tail(run.todo), !.writes = AddWrites(e)]
  BY DEF Add
<1>3. writer'.added = writer.added \cup {e}
  BY <1>2 DEF Added
<1>4. run'.at = "write" /\ run'.todo = Tail(run.todo) /\ run'.quiet = run.quiet
  BY <1>1, <1>2 DEF Runs
<1>5. Elements(run.todo) = Elements(Tail(run.todo)) \cup {k}
  BY <1>1, TailFacts
<1>6. run.quiet => e = Entry(k, store[k]["meta"], store[k]["body"])
  BY <1>1 DEF QuietInv
<1> HIDE DEF k, e
<1>7. ASSUME run.quiet, NEW x \in put, Gathered(x) PROVE Gathered(x)'
  <2>1. CASE x = k
    BY <1>1, <1>3, <1>6, <1>7, <2>1 DEF Gathered
  <2>2. CASE x # k
    BY <1>1, <1>3, <1>4, <1>5, <1>7, <2>2 DEF Gathered
  <2> QED
    BY <2>1, <2>2
<1> QED
  BY <1>1, <1>4, <1>7, QuietStays DEF Finalizing

\* Writing takes nothing from what was gathered.
LEMMA QuietWriting ==
    ASSUME FileInv, QuietInv, Truncate \/ Write \/ NextKey \/ Close
    PROVE  QuietInv'
<1>1. /\ run \in Runs(Required) /\ UNCHANGED <<store, client, writer, put>>
      /\ run.at \in Finalizing
  BY DEF FileInv, RecordTypeOK, Truncate, Write, NextKey, Close, Finalizing
<1>2. /\ run'.at \in {"readMeta", "write", "written"}
      /\ run'.todo = run.todo /\ run'.quiet = run.quiet
  BY <1>1 DEF Truncate, Write, NextKey, Close, Runs
<1>3. \A k : Gathered(k) => Gathered(k)'
  BY <1>1, <1>2 DEF Gathered
<1> QED
  BY <1>1, <1>2, <1>3, QuietStays DEF Finalizing

\* A session that finishes has read all its keys.
LEMMA QuietEnd ==
    ASSUME FileInv, QuietInv, Crash \/ AddFails \/ WriteFails \/ Finalized
    PROVE  QuietInv'
<1>1. PICK r \in {"ok", "failed", "crashed"} :
         Exit(r) /\ (r = "ok" => run.closing /\ run.at = "write")
  BY DEF Crash, AddFails, WriteFails, Finalized
<1>2. UNCHANGED <<store, writer, put>>
  BY DEF Crash, AddFails, WriteFails, Finalized
<1>3. /\ run'.at = "off" /\ run'.todo = <<>> /\ run'.result = r /\ run'.quiet = run.quiet
  BY <1>1, ExitFacts DEF Results
<1>4. r = "ok" => run.todo = <<>>
  BY <1>1 DEF FileInv, InPlace
<1>5. ASSUME run.quiet, r = "ok", NEW k \in put PROVE Gathered(k)'
  <2>1. Gathered(k)
    BY <1>1, <1>5 DEF QuietInv
  <2> QED
    BY <1>2, <1>3, <1>4, <1>5, <2>1 DEF Gathered
<1> QED
  BY <1>2, <1>3, <1>5 DEF QuietInv

LEMMA QuietInvStep ==
    ASSUME FileInv, QuietInv, [Next]_vars
    PROVE  QuietInv'
<1>1. ASSUME Record PROVE QuietInv'
  <2>1. run' = [Off EXCEPT !.at = "serving"] /\ put' = {}
    BY <1>1 DEF Record
  <2>2. run'.at = "serving" /\ ~run'.quiet
    BY <2>1 DEF Off
  <2> QED
    BY <2>1, <2>2 DEF QuietInv
<1>2. ASSUME FinalizeStep PROVE QuietInv'
  <2>1. ASSUME SkipMeta \/ SkipBody PROVE QuietInv'
    BY <2>1, QuietContinue DEF SkipMeta, SkipBody, Parts
  <2> QED
    BY <1>2, <2>1, QuietFinalize, QuietReadMeta, QuietAdd, QuietWriting, QuietEnd
       DEF FinalizeStep
<1>3. ASSUME UNCHANGED vars PROVE QuietInv'
  BY <1>3 DEF vars, QuietInv, Gathered
<1> QED
  BY <1>1, <1>2, <1>3, QuietClient, QuietEnd DEF Next

-----------------------------------------------------------------------------
(* The theorems.                                                             *)

\* In a directory that no earlier CAS session has used, a session that says it
\* has finished leaves an archive that opens and holds what Finalize read,
\* whatever the format and however many crashed sessions went before it
\* (NewReader after Close).
THEOREM FinishedArchiveReplays ==
    ASSUME "cas" \notin Reuse
    PROVE  Spec => []FinalizedReplays
<1>1. FileInv => FinalizedReplays
  <2> SUFFICES ASSUME FileInv, run.at = "off", run.result = "ok"
               PROVE  Views = {writer.added}
    BY DEF FinalizedReplays
  <2>1. IndexWhole /\ last = writer.added
    BY FinishedFiles
  <2>2. CASE format = "tgz"
    <3>1. dest[Index] = last
      BY <2>1, <2>2 DEF FileInv, IndexSound, Describes
    <3> QED
      BY <2>1, <2>2, <3>1 DEF Views, IndexWhole
  <2>3. CASE format = "cas"
    BY <2>1, <2>3, CASViewIsLast DEF Views, IndexWhole
  <2>4. CASE format = "oci"
    BY <2>1, <2>4, FinishedOCIView DEF Views, IndexWhole
  <2> QED
    BY <2>2, <2>3, <2>4, FormatCases DEF FileInv
<1> QED
  BY <1>1, FilesInvariance, PTL

\* A session that did not finish adds nothing of its own to what opens, but an
\* OCI layer that it shares with the last finished one may have lost entries or
\* a body (Close writes the index last).
THEOREM UnfinishedAddsNothing ==
    ASSUME "cas" \notin Reuse
    PROVE  Spec => []UnfinishedStaysOut
<1>1. FileInv => UnfinishedStaysOut
  <2> SUFFICES ASSUME FileInv, NEW v \in Views, NEW e \in v
               PROVE  \/ e \in last
                      \/ /\ format = "oci" /\ e.body = Damaged
                         /\ \E o \in last : o.key = e.key /\ o.meta = e.meta
    BY DEF UnfinishedStaysOut
  <2>1. IndexWhole
    BY DEF Views, IndexWhole
  <2>2. CASE format = "tgz"
    <3>1. dest[Index] = last
      BY <2>1, <2>2 DEF FileInv, IndexSound, Describes
    <3> QED
      BY <2>1, <2>2, <3>1 DEF Views, IndexWhole
  <2>3. CASE format = "cas"
    BY <2>1, <2>3, CASViewIsLast DEF Views, IndexWhole
  <2>4. CASE format = "oci"
    BY <2>1, <2>4, OCIViewFacts DEF Views, IndexWhole
  <2> QED
    BY <2>2, <2>3, <2>4, FormatCases DEF FileInv
<1> QED
  BY <1>1, FilesInvariance, PTL

\* If no request was under way when Finalize began and none came, every entry
\* that the session stored and that is still whole is in what a finished archive
\* gives, as the cache holds it (Recorder, Finalize): while serving every key
\* that was put is in Recorder.keys, and from then on the key is still to be
\* read, or its entry is not whole, or the writer has it.
THEOREM QuietArchiveComplete ==
    ASSUME "cas" \notin Reuse
    PROVE  Spec => []QuietComplete
<1>1. Init => QuietInv
  BY DEF Init, Off, QuietInv
<1>2. FileInv /\ QuietInv /\ [Next]_vars => QuietInv'
  BY QuietInvStep
<1>3. FileInv /\ QuietInv /\ FinalizedReplays => QuietComplete
  <2> SUFFICES ASSUME FileInv, QuietInv, FinalizedReplays,
                      run.at = "off", run.result = "ok", run.quiet,
                      NEW k \in put, \A p \in Parts : store[k][p] # NoObject,
                      NEW v \in Views
               PROVE  Entry(k, store[k]["meta"], store[k]["body"]) \in v
    BY DEF QuietComplete
  <2>1. v = writer.added
    BY DEF FinalizedReplays
  <2>2. run.todo = <<>> /\ Gathered(k)
    BY DEF FileInv, InPlace, QuietInv
  <2> QED
    BY <2>1, <2>2, EmptyFacts DEF Gathered
<1> QED
  BY <1>1, <1>2, <1>3, FilesInvariance, FinishedArchiveReplays, PTL DEF Spec
=============================================================================
