------------------------- MODULE ProxyHandlerProofs -------------------------
(***************************************************************************)
(* Proofs that ProxyHandler keeps its safety properties for every set of   *)
(* clients, requests and contents, every configuration and every store.    *)
(*                                                                         *)
(* The inductive invariant says, for each client and each place of its     *)
(* goroutine, what its request's own state is (Local), and what the store  *)
(* may hold (StoreSound).  Local is an operator on values, so that a step  *)
(* of one client visibly leaves it alone for every other.                  *)
(***************************************************************************)
EXTENDS ProxyHandler, TLAPS

Looking  == {"readMeta", "openBody", "readBody"}
Deleting == {"delExists", "delMeta", "delBody"}
Putting  == {"createMeta", "writeMeta", "createBody", "writeBody"}

Digest(r) == PathDigest[r.url.name]

\* Where the goroutine is, against what it has in hand.
Flow(p, r, u, gm, gb, a, s, nm) ==
    /\ p \notin {"idle", "done"} => r.url # NoURL
    /\ s # NoResponse => r.url # NoURL
    /\ p \in {"openBody", "readBody"} \/ a => gm \in Metas /\ Cacheable(gm.status)
    /\ p \in {"openBody", "readBody"} \/ a => (r.method = "HEAD" => gm.length = "positive")
    /\ a => gb \in Bodies
    /\ p \in Looking \cup {"upstream"} => s = NoResponse
    /\ p \in Putting \cup {"response"} => s # NoResponse
    /\ p \in Looking \cup Deleting \cup Putting => u /\ ~bypass(r)
    /\ p = "upstream" => (u <=> ~bypass(r)) /\ (u \/ Mode # "offline")
    /\ p = "response" /\ u => ~bypass(r) /\ s.origin = "upstream"
    /\ p = "response" /\ u => (s.cut <=> s.body = Damaged)
    /\ p = "response" /\ ~u => (s.origin = "upstream" <=> bypass(r) /\ Mode # "offline")
    /\ p \in {"upstream", "response"} /\ a => u
    /\ p \in Deleting /\ s # NoResponse => s.origin # "cache"
    /\ p \in Looking => ~a
    /\ p \in Putting => nm \in Metas /\ Cacheable(nm.status) /\ nm.status = s.status
    /\ p \in Putting => (r.method = "HEAD" => nm.length = "positive")
    /\ p \in Putting => s.body # Damaged /\ s.origin = "upstream"

\* What has been counted so far.
Counted(p, r, u, s, rec, e) ==
    /\ p \in Looking \cup Deleting \cup Putting => rec = <<>>
    /\ p = "upstream" => rec = IF u THEN <<>> ELSE <<0>>
    /\ p = "response" => rec = IF u THEN <<>>
                               ELSE IF bypass(r) /\ Mode # "offline" THEN <<0>> ELSE <<s.status>>
    /\ p = "done" /\ s # NoResponse =>
          rec = IF bypass(r) /\ Mode # "offline" THEN <<0>> ELSE <<s.status>>
    /\ p \in Looking \cup {"upstream"} => e = 0
    /\ p \in Deleting /\ s = NoResponse => e = 0
    /\ p = "response" => e = IF s.marked THEN 1 ELSE 0
    /\ e \in {0, 1}

\* A pinned request never carries a wrong body past a verification site.
Verified(p, r, u, gb, a, s) ==
    (r.url # NoURL /\ Pinned(r.method, r.url) /\ ~bypass(r)) =>
        /\ a => gb = Digest(r)
        /\ p = "response" /\ ~u => s = Refusal \/ s.body = Digest(r)
        /\ p \in Deleting /\ s # NoResponse =>
              s = Refusal \/ (s.origin = "upstream" /\ OnMismatch = "passthrough")
        /\ p \in Putting => s.body = Digest(r)
        /\ p = "done" /\ s # NoResponse /\ Cacheable(s.status) =>
              \/ s.body = Digest(r)
              \/ s.origin = "upstream" /\ (s.body = Damaged \/ OnMismatch = "passthrough")

\* What a request with a fallback may be answered with.
Refreshed(p, r, gm, gb, a, s) ==
    /\ a /\ p \in Putting => Is2xx(s.status)
    /\ a /\ p \in Deleting =>
          \/ s = Refusal /\ Pinned(r.method, r.url)
          \/ s # NoResponse /\ s.origin = "upstream" /\ Is2xx(s.status) /\ s.body # Damaged
    /\ a /\ p = "done" /\ s # NoResponse =>
          \/ s = buildResponse(r, gm, gb)
          \/ s.origin = "upstream" /\ Is2xx(s.status) /\ s.body # Damaged
          \/ s = Refusal /\ Pinned(r.method, r.url)

HeadSound(p, r, s) ==
    p \in {"response", "done"} /\ s # NoResponse /\ r.method = "HEAD" /\ s.origin = "cache"
        => s.length = "positive"

Local(p, r, u, gm, gb, a, s, nm, rec, e) ==
    /\ Flow(p, r, u, gm, gb, a, s, nm)
    /\ Counted(p, r, u, s, rec, e)
    /\ Verified(p, r, u, gb, a, s)
    /\ Refreshed(p, r, gm, gb, a, s)
    /\ HeadSound(p, r, s)

LocalInv == \A c \in Clients :
    Local(pc[c], req[c], userData[c], gotMeta[c], gotBody[c], armed[c], resp[c],
          newMeta[c], records[c], errs[c])

StoreSound == \A k \in Keys :
    /\ Excluded(k.method, k.url) => meta[k] = NoObject /\ body[k] = NoObject
    /\ meta[k] \in Metas => /\ Cacheable(meta[k].status)
                            /\ k.method = "HEAD" => meta[k].length = "positive"

IndInv == TypeOK /\ LocalInv /\ StoreSound

-----------------------------------------------------------------------------
(* Lemmas about the operators. *)

\* bypass, which looks at the normalised URL, decides what the operator's
\* patterns mean.
LEMMA BypassIsExcluded ==
    ASSUME NEW r \in Requests, r.url # NoURL
    PROVE  /\ bypass(r) <=> Excluded(r.method, r.url)
           /\ ComputeCacheKey(r) \in Keys
           /\ ComputeCacheKey(r).method = r.method
           /\ ComputeCacheKey(r).url = r.url
<1>1. r.url \in [name : DOMAIN PathDigest, port : Ports]
  BY RequestAssumption
<1>2. normalizeMatchURL(r.url) = Canonical(r.url)
  BY <1>1 DEF normalizeMatchURL, Canonical, Host, String, Ports
<1>3. String(r.url) = r.url
  BY <1>1 DEF String
<1> QED
  BY <1>2, <1>3, RequestAssumption DEF bypass, Excluded, MatchAny, ComputeCacheKey

LEMMA DigestType ==
    ASSUME NEW r \in Requests, r.url # NoURL
    PROVE  Digest(r) \in Contents \cup {NoDigest}
BY RequestAssumption, DigestAssumption DEF Digest

\* A step of c that leaves every other client's request alone.
OthersSame(c) == \A d \in Clients : d # c =>
    /\ pc'[d] = pc[d] /\ req'[d] = req[d] /\ userData'[d] = userData[d]
    /\ gotMeta'[d] = gotMeta[d] /\ gotBody'[d] = gotBody[d] /\ armed'[d] = armed[d]
    /\ resp'[d] = resp[d] /\ newMeta'[d] = newMeta[d] /\ records'[d] = records[d]
    /\ errs'[d] = errs[d]

LocalAt(c) ==
    Local(pc[c], req[c], userData[c], gotMeta[c], gotBody[c], armed[c], resp[c],
          newMeta[c], records[c], errs[c])

LEMMA LocalFrame ==
    ASSUME LocalInv, NEW c \in Clients, OthersSame(c), LocalAt(c)'
    PROVE  LocalInv'
<1> SUFFICES ASSUME NEW d \in Clients PROVE LocalAt(d)'
  BY DEF LocalInv, LocalAt
<1>1. CASE d = c
  BY <1>1
<1>2. CASE d # c
  BY <1>2 DEF LocalInv, LocalAt, OthersSame
<1> QED
  BY <1>1, <1>2

\* What the invariant says of a client whose request is being handled.
LEMMA RequestFacts ==
    ASSUME IndInv, NEW c \in Clients
    PROVE  /\ LocalAt(c)
           /\ req[c] \in Requests
           /\ pc[c] \in PCs
           /\ pc[c] \notin {"idle", "done"} =>
                /\ req[c].url # NoURL
                /\ Key(c) \in Keys
                /\ Key(c).method = req[c].method
                /\ Key(c).url = req[c].url
                /\ bypass(req[c]) <=> Excluded(Key(c).method, Key(c).url)
<1>1. LocalAt(c)
  BY DEF IndInv, LocalInv, LocalAt
<1>2. req[c] \in Requests /\ pc[c] \in PCs
  BY DEF IndInv, TypeOK
<1>3. ASSUME pc[c] \notin {"idle", "done"} PROVE req[c].url # NoURL
  BY <1>1, <1>3 DEF LocalAt, Local, Flow
<1> QED
  BY <1>1, <1>2, <1>3, BypassIsExcluded DEF Key

LEMMA StatusIsInt == \A n \in Statuses \cup {BadGateway} : n \in Int
<1> SUFFICES ASSUME NEW n \in Statuses \cup {BadGateway} PROVE n \in Int
  OBVIOUS
<1>1. CASE n \in Statuses
  <2>1. n \in 100..599
    BY <1>1, StatusAssumption
  <2> QED
    BY <2>1
<1>2. CASE n = BadGateway
  BY <1>2 DEF BadGateway
<1> QED
  BY <1>1, <1>2

LEMMA RefusalFacts ==
    /\ Refusal \in Responses
    /\ Refusal # NoResponse
    /\ Refusal.status = BadGateway
    /\ Refusal.origin = "proxy"
    /\ Refusal.marked = FALSE
    /\ ~Cacheable(BadGateway)
<1>1. Refusal \in Responses
  BY DEF Refusal, Responses, Lengths, Origins, Bodies
<1>2. Refusal # NoResponse
  BY <1>1, NoResponseAssumption
<1>3. Refusal.status = BadGateway /\ Refusal.origin = "proxy" /\ Refusal.marked = FALSE
  BY DEF Refusal
<1>4. ~Cacheable(BadGateway)
  BY DEF BadGateway, Cacheable
<1> QED
  BY <1>1, <1>2, <1>3, <1>4

\* The transport's 502 and everything that upstream may send.
LEMMA UpstreamFacts ==
    ASSUME NEW r \in Requests, NEW s \in UpstreamResponses(r) \cup {UpstreamError}
    PROVE  /\ s \in Responses
           /\ s # NoResponse
           /\ s.origin = "upstream"
           /\ s.cut <=> s.body = Damaged
           /\ s.marked <=> s = UpstreamError
<1> USE DEF Responses, Lengths, Origins, Bodies
<1>1. CASE s = UpstreamError
  BY <1>1, NoResponseAssumption, SentinelAssumption DEF UpstreamError, Refusal
<1>2. CASE s \in UpstreamResponses(r)
  <2>1. /\ s \in Responses /\ s.origin = "upstream" /\ s.marked = FALSE
        /\ s.cut <=> s.body = Damaged
    BY <1>2, SentinelAssumption DEF UpstreamResponses
  <2>2. s # UpstreamError
    BY <2>1 DEF UpstreamError, Refusal
  <2> QED
    BY <2>1, <2>2, NoResponseAssumption
<1> QED
  BY <1>1, <1>2

LEMMA StrippedFacts ==
    ASSUME NEW s \in Responses
    PROVE  /\ Stripped(s) \in Responses
           /\ Stripped(s) # NoResponse
           /\ Stripped(s).status = s.status /\ Stripped(s).body = s.body
           /\ Stripped(s).origin = s.origin
           /\ Stripped(s).cut = s.cut /\ Stripped(s).length = s.length
           /\ setBufferedBody(s) \in Responses
           /\ setBufferedBody(s) # NoResponse
           /\ setBufferedBody(s).status = s.status /\ setBufferedBody(s).body = s.body
           /\ setBufferedBody(s).origin = s.origin
BY NoResponseAssumption DEF Stripped, setBufferedBody, Responses, Lengths, Origins

LEMMA BuildFacts ==
    ASSUME NEW r \in Requests, NEW m \in Metas, NEW b \in Bodies
    PROVE  /\ buildResponse(r, m, b) \in Responses
           /\ buildResponse(r, m, b) # NoResponse
           /\ buildResponse(r, m, b).status = m.status
           /\ m.status \in Statuses
           /\ buildResponse(r, m, b).body = b
           /\ buildResponse(r, m, b).origin = "cache"
           /\ buildResponse(r, m, b).marked = FALSE
           /\ r.method = "HEAD" => buildResponse(r, m, b).length = m.length
<1>1. m.status \in Statuses /\ m.length \in Lengths
  BY MetaAssumption
<1>2. buildResponse(r, m, b) \in Responses
  BY <1>1 DEF buildResponse, Responses, Lengths, Origins
<1>3. buildResponse(r, m, b) # NoResponse
  BY <1>2, NoResponseAssumption
<1> QED
  BY <1>1, <1>2, <1>3 DEF buildResponse

-----------------------------------------------------------------------------
(* The store. *)

LEMMA HandlesType ==
    ASSUME StoreTypeOK, NEW c \in Clients, NEW k \in Keys, NEW part \in Parts,
           NEW h \in Handles \cup {NoFile}
    PROVE  /\ Disturbed(c, k, part, h) \in [Clients -> Handles \cup {NoFile}]
           /\ Unlinked(k, part) \in [Clients -> Handles \cup {NoFile}]
           /\ \A mode \in {"read", "torn", "write"} : Opened(k, part, mode) \in Handles
<1>1. ASSUME NEW d \in Clients, handle[d] # NoFile
      PROVE  /\ [handle[d] EXCEPT !.mode = "torn"] \in Handles
             /\ [handle[d] EXCEPT !.linked = FALSE] \in Handles
  BY <1>1 DEF StoreTypeOK, Handles
<1>2. Disturbed(c, k, part, h) \in [Clients -> Handles \cup {NoFile}]
  BY <1>1 DEF StoreTypeOK, Disturbed, IsLinked
<1>3. Unlinked(k, part) \in [Clients -> Handles \cup {NoFile}]
  BY <1>1 DEF StoreTypeOK, Unlinked, IsLinked
<1>4. \A mode \in {"read", "torn", "write"} : Opened(k, part, mode) \in Handles
  BY DEF Opened, Handles
<1> QED
  BY <1>2, <1>3, <1>4

\* Storing metadata worth replaying, and any body, under a key that is not
\* excluded keeps the store sound, whichever call fails or interleaves.
LEMMA PutKeepsStore ==
    ASSUME StoreTypeOK, StoreSound, NEW c \in Clients, NEW k \in Keys,
           ~Excluded(k.method, k.url),
           NEW m \in Metas, Cacheable(m.status), k.method = "HEAD" => m.length = "positive",
           NEW b \in Bodies,
           \/ CreateMeta(c, k) \/ CreateBody(c, k) \/ CreateFails(c)
           \/ WriteMeta(c, k, m) \/ WriteBody(c, k, b)
           \/ WriteMetaFails(c, k) \/ WriteBodyFails(c, k)
    PROVE  StoreTypeOK' /\ StoreSound'
<1>0. /\ Opened(k, "meta", "write") \in Handles
      /\ Opened(k, "body", "write") \in Handles
      /\ \A h \in Handles \cup {NoFile}, part \in Parts :
            Disturbed(c, k, part, h) \in [Clients -> Handles \cup {NoFile}]
  BY HandlesType DEF Parts
<1> USE DEF StoreTypeOK, StoreSound, MetaObjects, BodyObjects, Bodies, Parts
<1>1. CASE CreateMeta(c, k)
  BY <1>0, <1>1, SentinelAssumption DEF CreateMeta, Unmarshals
<1>2. CASE CreateBody(c, k)
  BY <1>0, <1>2 DEF CreateBody
<1>3. CASE CreateFails(c)
  BY <1>3 DEF CreateFails, storeVars
<1>4. CASE WriteMeta(c, k, m)
  <2>1. CASE IsLinked(c, k, "meta")
    <3>1. PICK v \in {m, Damaged} : meta' = [meta EXCEPT ![k] = v]
      BY <1>4, <2>1 DEF WriteMeta, Overlay
    <3>2. body' = body /\ held' = held /\ handle' = Disturbed(c, k, "meta", NoFile)
      BY <1>4, <2>1 DEF WriteMeta
    <3> QED
      BY <1>0, <3>1, <3>2, SentinelAssumption DEF Unmarshals
  <2>2. CASE ~IsLinked(c, k, "meta")
    BY <1>4, <2>2 DEF WriteMeta
  <2> QED
    BY <2>1, <2>2
<1>5. CASE WriteBody(c, k, b)
  BY <1>0, <1>5 DEF WriteBody, Overlay
<1>6. CASE WriteMetaFails(c, k)
  BY <1>0, <1>6, SentinelAssumption DEF WriteMetaFails, Unmarshals
<1>7. CASE WriteBodyFails(c, k)
  BY <1>0, <1>7, SMTT(30) DEF WriteBodyFails
<1> QED
  BY <1>1, <1>2, <1>3, <1>4, <1>5, <1>6, <1>7

LEMMA ReadAndRemoveKeepStore ==
    ASSUME StoreTypeOK, StoreSound, NEW c \in Clients, NEW k \in Keys,
           \/ OpenBody(c, k) \/ CloseFile(c) \/ RemoveMeta(k) \/ RemoveBody(k)
           \/ RemoveFails \/ CloseAll
    PROVE  StoreTypeOK' /\ StoreSound'
<1>0. /\ Opened(k, "body", "read") \in Handles
      /\ \A part \in Parts : Unlinked(k, part) \in [Clients -> Handles \cup {NoFile}]
  BY HandlesType DEF Parts
<1> USE DEF StoreTypeOK, StoreSound, MetaObjects, BodyObjects, Bodies, Parts
<1>1. CASE OpenBody(c, k)
  BY <1>0, <1>1 DEF OpenBody
<1>2. CASE CloseFile(c)
  BY <1>2 DEF CloseFile
<1>3. CASE RemoveMeta(k)
  BY <1>0, <1>3, SentinelAssumption DEF RemoveMeta, Unmarshals
<1>4. CASE RemoveBody(k)
  BY <1>0, <1>4 DEF RemoveBody
<1>5. CASE RemoveFails
  BY <1>5 DEF RemoveFails, storeVars
<1>6. CASE CloseAll
  BY <1>6 DEF CloseAll
<1> QED
  BY <1>1, <1>2, <1>3, <1>4, <1>5, <1>6

-----------------------------------------------------------------------------
(* The handlers. *)

\* Counting a request.
LEMMA RecordOnce ==
    ASSUME TypeOK, NEW c \in Clients, NEW n \in Statuses \cup {BadGateway, 0}, recordRequest(c, n)
    PROVE  /\ records' \in [Clients -> Seq(Statuses \cup {BadGateway, 0})]
           /\ records[c] = <<>> => records'[c] = <<n>>
           /\ \A d \in Clients : d # c => records'[d] = records[d]
<1>1. Append(records[c], n) \in Seq(Statuses \cup {BadGateway, 0})
  BY DEF TypeOK
<1>2. Append(<<>>, n) = <<n>>
  OBVIOUS
<1> QED
  BY <1>1, <1>2 DEF TypeOK, recordRequest

LEMMA Assemble ==
    ASSUME IndInv, NEW c \in Clients, TypeOK', StoreSound', OthersSame(c), LocalAt(c)'
    PROVE  IndInv'
BY LocalFrame DEF IndInv

LEMMA MissKeeps ==
    ASSUME IndInv, NEW c \in Clients, Miss(c), pc[c] \in {"readMeta", "openBody"},
           StoreTypeOK', StoreSound'
    PROVE  IndInv'
<1>0. LocalAt(c) /\ req[c] \in Requests /\ TypeOK
  BY RequestFacts DEF IndInv
<1>1. OthersSame(c)
  BY <1>0 DEF Miss, requestVars, recordRequest, Goto, TypeOK, OthersSame
<1>2. CASE Mode = "offline"
  <2>0. /\ records' \in [Clients -> Seq(Statuses \cup {BadGateway, 0})]
        /\ records'[c] = <<BadGateway>>
    BY <1>0, <1>2, RecordOnce DEF Miss, LocalAt, Local, Counted, Looking
  <2>1. /\ pc'[c] = "response" /\ resp'[c] = Refusal /\ userData'[c] = FALSE
        /\ records'[c] = <<BadGateway>>
        /\ req'[c] = req[c] /\ gotMeta'[c] = gotMeta[c] /\ gotBody'[c] = gotBody[c]
        /\ armed'[c] = armed[c] /\ newMeta'[c] = newMeta[c] /\ errs'[c] = errs[c]
    BY <1>0, <1>2, <2>0 DEF Miss, Goto, TypeOK
  <2>2. TypeOK'
    BY <1>0, <1>2, <2>0, RefusalFacts, ZenonT(30) DEF Miss, Goto, TypeOK, PCs
  <2>3. LocalAt(c)'
    BY <1>0, <1>2, <2>1, RefusalFacts DEF LocalAt, Local, Flow, Counted, Verified, Refreshed, HeadSound, Looking, Deleting, Putting
  <2> QED
    BY <1>1, <2>2, <2>3, Assemble
<1>3. CASE Mode # "offline"
  <2>1. /\ pc'[c] = "upstream" /\ resp'[c] = resp[c] /\ userData'[c] = userData[c]
        /\ records'[c] = records[c]
        /\ req'[c] = req[c] /\ gotMeta'[c] = gotMeta[c] /\ gotBody'[c] = gotBody[c]
        /\ armed'[c] = armed[c] /\ newMeta'[c] = newMeta[c] /\ errs'[c] = errs[c]
    BY <1>0, <1>3 DEF Miss, Goto, requestVars, TypeOK
  <2>2. TypeOK'
    BY <1>0, <1>3 DEF Miss, Goto, requestVars, TypeOK, PCs
  <2>3. LocalAt(c)'
    BY <1>0, <2>1 DEF LocalAt, Local, Flow, Counted, Verified, Refreshed, HeadSound, Looking, Deleting, Putting
  <2> QED
    BY <1>1, <2>2, <2>3, Assemble
<1> QED
  BY <1>2, <1>3

\* HandleRequest after the key is computed.
LEMMA HandleRequestKeeps ==
    ASSUME IndInv, NEW c \in Clients, HandleRequestStep(c)
    PROVE  IndInv'
<1>0. /\ LocalAt(c)
      /\ req[c] \in Requests
      /\ TypeOK /\ StoreTypeOK /\ StoreSound
      /\ pc[c] \notin {"idle", "done"} =>
           /\ req[c].url # NoURL
           /\ Key(c) \in Keys
           /\ Key(c).method = req[c].method
           /\ Key(c).url = req[c].url
           /\ bypass(req[c]) <=> Excluded(Key(c).method, Key(c).url)
  BY RequestFacts DEF IndInv, TypeOK
<1>1. CASE ReadMeta(c)
  <2>0. /\ meta[Key(c)] \in Metas
        /\ Cacheable(meta[Key(c)].status)
        /\ req[c].method = "HEAD" => meta[Key(c)].length = "positive"
    BY <1>0, <1>1 DEF ReadMeta, Unmarshals, StoreSound, TypeOK
  <2>1. /\ pc[c] = "readMeta" /\ pc'[c] = "openBody" /\ gotMeta'[c] = meta[Key(c)]
        /\ req'[c] = req[c] /\ userData'[c] = userData[c] /\ gotBody'[c] = gotBody[c]
        /\ armed'[c] = armed[c] /\ resp'[c] = resp[c] /\ newMeta'[c] = newMeta[c]
        /\ records'[c] = records[c] /\ errs'[c] = errs[c]
    BY <1>0, <1>1 DEF ReadMeta, requestVars, Goto, TypeOK
  <2>2. StoreTypeOK' /\ StoreSound'
    BY <1>0, <1>1 DEF ReadMeta, storeVars, TypeOK, StoreTypeOK, StoreSound
  <2>3. OthersSame(c)
    BY <1>0, <1>1 DEF ReadMeta, requestVars, Goto, TypeOK, OthersSame
  <2>4. TypeOK'
    BY <1>0, <1>1, <2>1, <2>2, <2>0 DEF ReadMeta, requestVars, Goto, TypeOK, PCs, BodyObjects
  <2>5. LocalAt(c)'
    BY <1>0, <2>1, <2>0 DEF LocalAt, Local, Flow, Counted, Verified, Refreshed, HeadSound, Looking, Deleting, Putting
  <2> QED
    BY <2>2, <2>3, <2>4, <2>5, Assemble
<1>2. CASE MissMeta(c)
  <2>0. StoreTypeOK' /\ StoreSound'
    BY <1>2, <1>0 DEF MissMeta, storeVars, StoreTypeOK, StoreSound
  <2>1. Miss(c) /\ pc[c] = "readMeta"
    BY <1>2 DEF MissMeta
  <2> QED
    BY <1>0, <2>0, <2>1, MissKeeps
<1>3. CASE GetBody(c)
  <2>1. /\ pc[c] = "openBody" /\ pc'[c] = "readBody"
        /\ req'[c] = req[c] /\ userData'[c] = userData[c] /\ gotMeta'[c] = gotMeta[c]
        /\ gotBody'[c] = gotBody[c] /\ armed'[c] = armed[c] /\ resp'[c] = resp[c]
        /\ newMeta'[c] = newMeta[c] /\ records'[c] = records[c] /\ errs'[c] = errs[c]
    BY <1>0, <1>3 DEF GetBody, requestVars, Goto, TypeOK
  <2>2. StoreTypeOK' /\ StoreSound'
    BY <1>0, <1>3, ReadAndRemoveKeepStore DEF GetBody
  <2>3. OthersSame(c)
    BY <1>0, <1>3 DEF GetBody, requestVars, Goto, TypeOK, OthersSame
  <2>4. TypeOK'
    BY <1>0, <1>3, <2>1, <2>2 DEF GetBody, requestVars, Goto, TypeOK, PCs, BodyObjects
  <2>5. LocalAt(c)'
    BY <1>0, <2>1 DEF LocalAt, Local, Flow, Counted, Verified, Refreshed, HeadSound, Looking, Deleting, Putting
  <2> QED
    BY <2>2, <2>3, <2>4, <2>5, Assemble
<1>4. CASE MissBody(c)
  <2>0. StoreTypeOK' /\ StoreSound'
    BY <1>4, <1>0 DEF MissBody, storeVars, StoreTypeOK, StoreSound
  <2>1. Miss(c) /\ pc[c] = "openBody"
    BY <1>4 DEF MissBody
  <2> QED
    BY <1>0, <2>0, <2>1, MissKeeps
<1>5. CASE EvictMismatchedHit(c)
  <2>0. PICK b \in Bodies : ReadBody(c, b) /\ gotBody' = [gotBody EXCEPT ![c] = b]
    BY <1>5 DEF EvictMismatchedHit, ReadBody
  <2>1. /\ pc[c] = "readBody" /\ pc'[c] = "delExists" /\ gotBody'[c] = b
        /\ req'[c] = req[c] /\ userData'[c] = userData[c] /\ gotMeta'[c] = gotMeta[c]
        /\ armed'[c] = armed[c] /\ resp'[c] = resp[c] /\ newMeta'[c] = newMeta[c]
        /\ records'[c] = records[c] /\ errs'[c] = errs[c]
    BY <1>0, <1>5, <2>0 DEF EvictMismatchedHit, ReadBody, requestVars, Goto, TypeOK
  <2>2. StoreTypeOK' /\ StoreSound'
    BY <1>0, <1>5, ReadAndRemoveKeepStore DEF EvictMismatchedHit, ReadBody
  <2>3. OthersSame(c)
    BY <1>0, <1>5, <2>0 DEF EvictMismatchedHit, ReadBody, requestVars, Goto, TypeOK, OthersSame
  <2>4. TypeOK'
    BY <1>0, <1>5, <2>1, <2>2, <2>0 DEF EvictMismatchedHit, ReadBody, requestVars, Goto, TypeOK, PCs, BodyObjects
  <2>5. LocalAt(c)'
    BY <1>0, <2>1 DEF LocalAt, Local, Flow, Counted, Verified, Refreshed, HeadSound, Looking, Deleting, Putting
  <2> QED
    BY <2>2, <2>3, <2>4, <2>5, Assemble
<1>6. CASE DeferToUpstream(c)
  <2>0. PICK b \in Bodies : ReadBody(c, b) /\ ~Mismatch(req[c], b)
    BY <1>6 DEF DeferToUpstream
  <2>1. /\ pc[c] = "readBody" /\ pc'[c] = "upstream" /\ gotBody'[c] = b /\ armed'[c] = TRUE
        /\ req'[c] = req[c] /\ userData'[c] = userData[c] /\ gotMeta'[c] = gotMeta[c]
        /\ resp'[c] = resp[c] /\ newMeta'[c] = newMeta[c] /\ records'[c] = records[c]
        /\ errs'[c] = errs[c]
    BY <1>0, <1>6, <2>0 DEF DeferToUpstream, ReadBody, requestVars, Goto, TypeOK
  <2>2. StoreTypeOK' /\ StoreSound'
    BY <1>0, <1>6, ReadAndRemoveKeepStore DEF DeferToUpstream, ReadBody
  <2>3. OthersSame(c)
    BY <1>0, <1>6, <2>0 DEF DeferToUpstream, ReadBody, requestVars, Goto, TypeOK, OthersSame
  <2>4. TypeOK'
    BY <1>0, <1>6, <2>1, <2>2, <2>0 DEF DeferToUpstream, ReadBody, requestVars, Goto, TypeOK, PCs, BodyObjects
  <2>5. LocalAt(c)'
    BY <1>0, <2>1, <2>0 DEF LocalAt, Local, Flow, Counted, Verified, Refreshed, HeadSound, Looking, Deleting, Putting, Mismatch, VerifyDigest, ExtractOCIDigest, Digest, Pinned
  <2> QED
    BY <2>2, <2>3, <2>4, <2>5, Assemble
<1>7. CASE ServeHit(c)
  <2>0. PICK b \in Bodies :
           /\ ReadBody(c, b) /\ ~Mismatch(req[c], b)
           /\ resp' = [resp EXCEPT ![c] = buildResponse(req[c], gotMeta[c], b)]
           /\ recordRequest(c, gotMeta[c].status)
           /\ userData' = [userData EXCEPT ![c] = FALSE]
           /\ Goto(c, "response")
           /\ UNCHANGED <<clock, req, gotMeta, armed, newMeta, errs>>
    BY <1>7 DEF ServeHit
  <2>a. gotMeta[c] \in Metas /\ gotMeta[c].status \in Statuses
    BY <1>0, <1>7, MetaAssumption DEF ServeHit, ReadBody, LocalAt, Local, Flow
  <2>b. /\ records' \in [Clients -> Seq(Statuses \cup {BadGateway, 0})]
        /\ records'[c] = <<gotMeta[c].status>>
        /\ \A d \in Clients : d # c => records'[d] = records[d]
    BY <1>0, <1>7, <2>a, RecordOnce DEF ServeHit, ReadBody, LocalAt, Local, Counted, Looking
  <2>c. /\ buildResponse(req[c], gotMeta[c], b) \in Responses
        /\ buildResponse(req[c], gotMeta[c], b) # NoResponse
        /\ buildResponse(req[c], gotMeta[c], b).status = gotMeta[c].status
        /\ buildResponse(req[c], gotMeta[c], b).body = b
        /\ buildResponse(req[c], gotMeta[c], b).origin = "cache"
        /\ buildResponse(req[c], gotMeta[c], b).marked = FALSE
        /\ req[c].method = "HEAD" => buildResponse(req[c], gotMeta[c], b).length = gotMeta[c].length
    BY <1>0, <2>0, <2>a, BuildFacts
  <2>1. /\ pc[c] = "readBody" /\ pc'[c] = "response" /\ userData'[c] = FALSE /\ gotBody'[c] = b /\ resp'[c] = buildResponse(req[c], gotMeta[c], b) /\ records'[c] = <<gotMeta[c].status>>
        /\ req'[c] = req[c] /\ gotMeta'[c] = gotMeta[c] /\ armed'[c] = armed[c]
        /\ newMeta'[c] = newMeta[c] /\ errs'[c] = errs[c]
    BY <1>0, <1>7, <2>0, <2>b DEF ReadBody, requestVars, Goto, TypeOK
  <2>2. StoreTypeOK' /\ StoreSound'
    BY <1>0, <1>7, ReadAndRemoveKeepStore DEF ServeHit, ReadBody
  <2>3. OthersSame(c)
    BY <1>0, <1>7, <2>0, <2>b DEF ReadBody, requestVars, Goto, TypeOK, OthersSame
  <2>4. TypeOK'
    BY <1>0, <1>7, <2>1, <2>2, <2>0, <2>b, <2>c DEF ReadBody, requestVars, Goto, TypeOK, PCs, BodyObjects
  <2>5. LocalAt(c)'
    BY <1>0, <2>1, <2>0, <2>c DEF LocalAt, Local, Flow, Counted, Verified, Refreshed, HeadSound, Looking, Deleting, Putting, Mismatch, VerifyDigest, ExtractOCIDigest, Digest, Pinned
  <2> QED
    BY <2>2, <2>3, <2>4, <2>5, Assemble
<1> QED
  BY <1>1, <1>2, <1>3, <1>4, <1>5, <1>6, <1>7 DEF HandleRequestStep

\* The end of a Delete, on either path.
LEMMA AfterDeleteKeeps ==
    ASSUME IndInv, NEW c \in Clients, AfterDelete(c), pc[c] \in Deleting,
           StoreTypeOK', StoreSound'
    PROVE  IndInv'
<1>0. LocalAt(c) /\ req[c] \in Requests /\ TypeOK
  BY RequestFacts DEF IndInv
<1>1. CASE resp[c] = NoResponse
  <2>1. /\ pc'[c] = "upstream" /\ records'[c] = records[c]
        /\ req'[c] = req[c] /\ userData'[c] = userData[c] /\ gotMeta'[c] = gotMeta[c]
        /\ gotBody'[c] = gotBody[c] /\ armed'[c] = armed[c] /\ resp'[c] = resp[c]
        /\ newMeta'[c] = newMeta[c] /\ errs'[c] = errs[c]
    BY <1>0, <1>1 DEF AfterDelete, Goto, TypeOK
  <2>2. TypeOK'
    BY <1>0, <1>1 DEF AfterDelete, Goto, TypeOK, PCs
  <2>3. OthersSame(c)
    BY <1>0, <1>1 DEF AfterDelete, Goto, TypeOK, OthersSame
  <2>4. ~armed[c]
    BY <1>0, <1>1, RefusalFacts DEF LocalAt, Local, Refreshed
  <2>5. LocalAt(c)'
    BY <1>0, <1>1, <2>1, <2>4 DEF LocalAt, Local, Flow, Counted, Verified, Refreshed, HeadSound, Looking, Deleting, Putting
  <2> QED
    BY <2>2, <2>3, <2>5, Assemble
<1>2. CASE resp[c] # NoResponse
  <2>0. resp[c] \in Responses /\ resp[c].status \in Statuses \cup {BadGateway, 0}
    BY <1>0, <1>2 DEF TypeOK, Responses
  <2>1. recordRequest(c, resp[c].status)
    BY <1>2 DEF AfterDelete
  <2>2. records[c] = <<>>
    BY <1>0 DEF LocalAt, Local, Counted
  <2>3. /\ records' \in [Clients -> Seq(Statuses \cup {BadGateway, 0})]
        /\ records'[c] = <<resp[c].status>>
        /\ \A d \in Clients : d # c => records'[d] = records[d]
    BY <1>0, <2>0, <2>1, <2>2, RecordOnce
  <2>4. /\ pc'[c] = "done"
        /\ req'[c] = req[c] /\ userData'[c] = userData[c] /\ gotMeta'[c] = gotMeta[c]
        /\ gotBody'[c] = gotBody[c] /\ armed'[c] = armed[c] /\ resp'[c] = resp[c]
        /\ newMeta'[c] = newMeta[c] /\ errs'[c] = errs[c]
    BY <1>0, <1>2 DEF AfterDelete, Goto, TypeOK
  <2>5. TypeOK'
    BY <1>0, <1>2, <2>3 DEF AfterDelete, Goto, TypeOK, PCs
  <2>6. OthersSame(c)
    BY <1>0, <1>2, <2>3 DEF AfterDelete, Goto, TypeOK, OthersSame
  <2>7. LocalAt(c)'
    BY <1>0, <1>2, <2>3, <2>4, RefusalFacts DEF LocalAt, Local, Flow, Counted, Verified, Refreshed, HeadSound, Looking, Deleting, Putting
  <2> QED
    BY <2>5, <2>6, <2>7, Assemble
<1> QED
  BY <1>1, <1>2

\* cache.Delete.
LEMMA DeleteKeeps ==
    ASSUME IndInv, NEW c \in Clients, DeleteStep(c)
    PROVE  IndInv'
<1>0. /\ LocalAt(c) /\ TypeOK /\ StoreTypeOK /\ StoreSound
      /\ pc[c] \in Deleting => Key(c) \in Keys
  BY RequestFacts DEF IndInv, TypeOK, Deleting
<1>1. CASE DeleteExists(c)
  <2>1. /\ pc[c] = "delExists" /\ pc'[c] = "delMeta"
        /\ req'[c] = req[c] /\ userData'[c] = userData[c] /\ gotMeta'[c] = gotMeta[c]
        /\ gotBody'[c] = gotBody[c] /\ armed'[c] = armed[c] /\ resp'[c] = resp[c]
        /\ newMeta'[c] = newMeta[c] /\ records'[c] = records[c] /\ errs'[c] = errs[c]
    BY <1>0, <1>1 DEF DeleteExists, Goto, requestVars, TypeOK
  <2>2. TypeOK' /\ StoreSound'
    BY <1>0, <1>1 DEF DeleteExists, Goto, requestVars, storeVars, TypeOK, StoreTypeOK, StoreSound, PCs
  <2>3. OthersSame(c)
    BY <1>0, <1>1 DEF DeleteExists, Goto, requestVars, TypeOK, OthersSame
  <2>4. LocalAt(c)'
    BY <1>0, <2>1 DEF LocalAt, Local, Flow, Counted, Verified, Refreshed, HeadSound, Looking, Deleting, Putting
  <2> QED
    BY <2>2, <2>3, <2>4, Assemble
<1>2. CASE DeleteNotFound(c)
  <2>1. StoreTypeOK' /\ StoreSound'
    BY <1>0, <1>2 DEF DeleteNotFound, storeVars, StoreTypeOK, StoreSound
  <2> QED
    BY <1>2, <2>1, AfterDeleteKeeps DEF DeleteNotFound, Deleting
<1>3. CASE DeleteMeta(c)
  <2>1. /\ pc[c] = "delMeta" /\ pc'[c] = "delBody"
        /\ req'[c] = req[c] /\ userData'[c] = userData[c] /\ gotMeta'[c] = gotMeta[c]
        /\ gotBody'[c] = gotBody[c] /\ armed'[c] = armed[c] /\ resp'[c] = resp[c]
        /\ newMeta'[c] = newMeta[c] /\ records'[c] = records[c] /\ errs'[c] = errs[c]
    BY <1>0, <1>3 DEF DeleteMeta, Goto, requestVars, TypeOK
  <2>2. StoreTypeOK' /\ StoreSound'
    BY <1>0, <1>3, ReadAndRemoveKeepStore DEF DeleteMeta, Deleting
  <2>3. TypeOK'
    BY <1>0, <1>3, <2>2 DEF DeleteMeta, Goto, requestVars, TypeOK, PCs
  <2>4. OthersSame(c)
    BY <1>0, <1>3 DEF DeleteMeta, Goto, requestVars, TypeOK, OthersSame
  <2>5. LocalAt(c)'
    BY <1>0, <2>1 DEF LocalAt, Local, Flow, Counted, Verified, Refreshed, HeadSound, Looking, Deleting, Putting
  <2> QED
    BY <2>2, <2>3, <2>4, <2>5, Assemble
<1>4. CASE DeleteBody(c)
  <2>1. StoreTypeOK' /\ StoreSound'
    BY <1>0, <1>4, ReadAndRemoveKeepStore DEF DeleteBody, Deleting
  <2> QED
    BY <1>4, <2>1, AfterDeleteKeeps DEF DeleteBody, Deleting
<1>5. CASE DeleteFails(c)
  <2>1. StoreTypeOK' /\ StoreSound'
    BY <1>0, <1>5, ReadAndRemoveKeepStore DEF DeleteFails, Deleting
  <2> QED
    BY <1>5, <2>1, AfterDeleteKeeps DEF DeleteFails, Deleting
<1> QED
  BY <1>1, <1>2, <1>3, <1>4, <1>5 DEF DeleteStep

\* cache.Put.
LEMMA PutStepKeeps ==
    ASSUME IndInv, NEW c \in Clients, NEW at \in Putting, NEW next \in Putting,
           PutStep(c, at, next), StoreTypeOK', StoreSound'
    PROVE  IndInv'
<1>0. LocalAt(c) /\ TypeOK
  BY RequestFacts DEF IndInv
<1>1. /\ pc[c] \in Putting /\ pc'[c] \in Putting
      /\ req'[c] = req[c] /\ userData'[c] = userData[c] /\ gotMeta'[c] = gotMeta[c]
      /\ gotBody'[c] = gotBody[c] /\ armed'[c] = armed[c] /\ resp'[c] = resp[c]
      /\ newMeta'[c] = newMeta[c] /\ records'[c] = records[c] /\ errs'[c] = errs[c]
  BY <1>0 DEF PutStep, Goto, requestVars, TypeOK
<1>2. TypeOK'
  BY <1>0 DEF PutStep, Goto, requestVars, TypeOK, PCs, Putting
<1>3. OthersSame(c)
  BY <1>0 DEF PutStep, Goto, requestVars, TypeOK, OthersSame
<1>4. LocalAt(c)'
  BY <1>0, <1>1 DEF LocalAt, Local, Flow, Counted, Verified, Refreshed, HeadSound, Looking, Deleting, Putting
<1> QED
  BY <1>2, <1>3, <1>4, Assemble

LEMMA PutEndsKeeps ==
    ASSUME IndInv, NEW c \in Clients, NEW at \in Putting,
           PutEnds(c, at), StoreTypeOK', StoreSound'
    PROVE  IndInv'
<1>0. LocalAt(c) /\ TypeOK /\ pc[c] \in Putting
  BY RequestFacts DEF IndInv, PutEnds
<1>1. resp[c] \in Responses /\ resp[c].status \in Statuses \cup {BadGateway, 0}
  BY <1>0 DEF TypeOK, Responses, LocalAt, Local, Flow
<1>2. /\ records' \in [Clients -> Seq(Statuses \cup {BadGateway, 0})]
      /\ records'[c] = <<resp[c].status>>
      /\ \A d \in Clients : d # c => records'[d] = records[d]
  BY <1>0, <1>1, RecordOnce DEF PutEnds, LocalAt, Local, Counted
<1>3. /\ pc'[c] = "done"
      /\ req'[c] = req[c] /\ userData'[c] = userData[c] /\ gotMeta'[c] = gotMeta[c]
      /\ gotBody'[c] = gotBody[c] /\ armed'[c] = armed[c] /\ resp'[c] = resp[c]
      /\ newMeta'[c] = newMeta[c] /\ errs'[c] = errs[c]
  BY <1>0 DEF PutEnds, Goto, TypeOK
<1>4. TypeOK'
  BY <1>0, <1>2 DEF PutEnds, Goto, TypeOK, PCs
<1>5. OthersSame(c)
  BY <1>0, <1>2 DEF PutEnds, Goto, TypeOK, OthersSame
<1>6. LocalAt(c)'
  BY <1>0, <1>2, <1>3 DEF LocalAt, Local, Flow, Counted, Verified, Refreshed, HeadSound, Looking, Deleting, Putting
<1> QED
  BY <1>4, <1>5, <1>6, Assemble

LEMMA PutKeeps ==
    ASSUME IndInv, NEW c \in Clients, PutMove(c)
    PROVE  IndInv'
<1>1. pc[c] \in Putting
  BY DEF PutMove, PutMetaCreate, PutMetaWrite, PutBodyCreate, PutBodyWrite, PutFails, PutStep,
         PutEnds, Putting
<1>2. /\ StoreTypeOK /\ StoreSound /\ LocalAt(c) /\ TypeOK
      /\ Key(c) \in Keys /\ Key(c).method = req[c].method
      /\ bypass(req[c]) <=> Excluded(Key(c).method, Key(c).url)
  BY <1>1, RequestFacts DEF IndInv, TypeOK, Putting
<1>3. /\ ~Excluded(Key(c).method, Key(c).url)
      /\ newMeta[c] \in Metas /\ Cacheable(newMeta[c].status)
      /\ Key(c).method = "HEAD" => newMeta[c].length = "positive"
      /\ resp[c].body \in Bodies
  BY <1>1, <1>2 DEF LocalAt, Local, Flow, TypeOK, Responses
<1>4. CASE PutMetaCreate(c)
  BY <1>2, <1>3, <1>4, PutKeepsStore, PutStepKeeps DEF PutMetaCreate, Putting
<1>5. CASE PutMetaWrite(c)
  BY <1>2, <1>3, <1>5, PutKeepsStore, PutStepKeeps DEF PutMetaWrite, Putting
<1>6. CASE PutBodyCreate(c)
  BY <1>2, <1>3, <1>6, PutKeepsStore, PutStepKeeps DEF PutBodyCreate, Putting
<1>7. CASE PutBodyWrite(c)
  BY <1>2, <1>3, <1>7, PutKeepsStore, PutEndsKeeps DEF PutBodyWrite, Putting
<1>8. CASE PutFails(c)
  BY <1>2, <1>3, <1>8, PutKeepsStore, PutEndsKeeps DEF PutFails, Putting
<1> QED
  BY <1>4, <1>5, <1>6, <1>7, <1>8 DEF PutMove

\* A new request: HandleRequest up to the cache lookup.
LEMMA ArriveKeeps ==
    ASSUME IndInv, NEW c \in Clients, Arrive(c)
    PROVE  IndInv'
<1>0. TypeOK /\ StoreTypeOK /\ StoreSound
  BY DEF IndInv, TypeOK
<1>1. PICK r \in Requests : DropNilURL(c, r) \/ RefuseBypass(c, r) \/ ForwardBypass(c, r) \/ Lookup(c, r)
  BY DEF Arrive
<1>2. ASSUME NEW u \in BOOLEAN, NEW s \in Responses \cup {NoResponse},
             NEW rec \in Seq(Statuses \cup {BadGateway, 0}), NEW p \in PCs,
             Begin(c, r, u, s, rec, p),
             Local(p, r, u, NoObject, Empty, FALSE, s, NoObject, rec, 0)
      PROVE  IndInv'
  <2>1. TypeOK' /\ StoreSound'
    BY <1>0, <1>2 DEF Begin, Goto, storeVars, TypeOK, StoreTypeOK, StoreSound, BodyObjects, Bodies
  <2>2. OthersSame(c)
    BY <1>0, <1>2 DEF Begin, Goto, TypeOK, OthersSame
  <2>3. LocalAt(c)'
    BY <1>0, <1>2 DEF Begin, Goto, TypeOK, LocalAt
  <2> QED
    BY <2>1, <2>2, <2>3, Assemble
<1>3. /\ <<>> \in Seq(Statuses \cup {BadGateway, 0})
      /\ <<0>> \in Seq(Statuses \cup {BadGateway, 0})
      /\ <<BadGateway>> \in Seq(Statuses \cup {BadGateway, 0})
  OBVIOUS
<1>4. CASE DropNilURL(c, r)
  <2>1. Local("done", r, FALSE, NoObject, Empty, FALSE, NoResponse, NoObject, <<>>, 0)
    BY DEF LocalAt, Local, Flow, Counted, Verified, Refreshed, HeadSound, Looking, Deleting, Putting
  <2> QED
    BY <1>2, <1>3, <1>4, <2>1 DEF DropNilURL, PCs
<1>5. CASE RefuseBypass(c, r)
  <2>1. Local("response", r, FALSE, NoObject, Empty, FALSE, Refusal, NoObject, <<BadGateway>>, 0)
    BY <1>5, RefusalFacts DEF RefuseBypass, LocalAt, Local, Flow, Counted, Verified, Refreshed, HeadSound, Looking, Deleting, Putting
  <2> QED
    BY <1>2, <1>3, <1>5, <2>1, RefusalFacts DEF RefuseBypass, PCs
<1>6. CASE ForwardBypass(c, r)
  <2>1. Local("upstream", r, FALSE, NoObject, Empty, FALSE, NoResponse, NoObject, <<0>>, 0)
    BY <1>6 DEF ForwardBypass, LocalAt, Local, Flow, Counted, Verified, Refreshed, HeadSound, Looking, Deleting, Putting
  <2> QED
    BY <1>2, <1>3, <1>6, <2>1 DEF ForwardBypass, PCs
<1>7. CASE Lookup(c, r)
  <2>1. Local("readMeta", r, TRUE, NoObject, Empty, FALSE, NoResponse, NoObject, <<>>, 0)
    BY <1>7 DEF Lookup, LocalAt, Local, Flow, Counted, Verified, Refreshed, HeadSound, Looking, Deleting, Putting
  <2> QED
    BY <1>2, <1>3, <1>7, <2>1 DEF Lookup, PCs
<1> QED
  BY <1>1, <1>4, <1>5, <1>6, <1>7

\* redirectFollower.RoundTrip.
LEMMA RoundTripKeeps ==
    ASSUME IndInv, NEW c \in Clients, RoundTrip(c)
    PROVE  IndInv'
<1>0. LocalAt(c) /\ req[c] \in Requests /\ TypeOK /\ StoreTypeOK /\ StoreSound
  BY RequestFacts DEF IndInv, TypeOK
<1>1. PICK s \in UpstreamResponses(req[c]) \cup {UpstreamError} :
        /\ resp' = [resp EXCEPT ![c] = s]
        /\ errs' = IF s = UpstreamError THEN [errs EXCEPT ![c] = @ + 1] ELSE errs
  <2>1. CASE Answer(c)
    <3>1. PICK s \in UpstreamResponses(req[c]) : resp' = [resp EXCEPT ![c] = s]
      BY <2>1 DEF Answer
    <3>2. s # UpstreamError
      BY <3>1 DEF UpstreamResponses, UpstreamError, Refusal
    <3> QED
      BY <2>1, <3>1, <3>2 DEF Answer
  <2>2. CASE Fail(c)
    BY <2>2 DEF Fail
  <2> QED
    BY <2>1, <2>2 DEF RoundTrip
<1>2. /\ s \in Responses /\ s # NoResponse /\ s.origin = "upstream"
      /\ s.cut <=> s.body = Damaged
      /\ s.marked <=> s = UpstreamError
  BY <1>0, <1>1, UpstreamFacts
<1>a. /\ pc[c] = "upstream" /\ pc' = [pc EXCEPT ![c] = "response"]
      /\ UNCHANGED <<clock, req, userData, gotMeta, gotBody, armed, newMeta, records, storeVars>>
  BY DEF RoundTrip, Answer, Fail, Goto
<1>3. /\ pc[c] = "upstream" /\ pc'[c] = "response" /\ resp'[c] = s
      /\ errs'[c] = IF s = UpstreamError THEN errs[c] + 1 ELSE errs[c]
      /\ req'[c] = req[c] /\ userData'[c] = userData[c] /\ gotMeta'[c] = gotMeta[c]
      /\ gotBody'[c] = gotBody[c] /\ armed'[c] = armed[c]
      /\ newMeta'[c] = newMeta[c] /\ records'[c] = records[c]
  BY <1>0, <1>1, <1>a DEF TypeOK
<1>4. TypeOK' /\ StoreSound'
  BY <1>0, <1>1, <1>2, <1>a DEF storeVars, TypeOK, StoreTypeOK, StoreSound, PCs
<1>5. OthersSame(c)
  BY <1>0, <1>1, <1>a DEF TypeOK, OthersSame
<1>6. LocalAt(c)'
  BY <1>0, <1>2, <1>3 DEF LocalAt, Local, Flow, Counted, Verified, Refreshed, HeadSound, Looking, Deleting, Putting
<1> QED
  BY <1>4, <1>5, <1>6, Assemble

\* HandleResponse returning response s, which has been recorded.
LEMMA ReturnKeeps ==
    ASSUME IndInv, NEW c \in Clients, HandleResponse(c), NEW s \in Responses, s # NoResponse,
           Return(c, s),
           HeadSound("done", req[c], s),
           Verified("done", req[c], TRUE, gotBody[c], armed[c], s),
           Refreshed("done", req[c], gotMeta[c], gotBody[c], armed[c], s)
    PROVE  IndInv'
<1>0. LocalAt(c) /\ req[c] \in Requests /\ TypeOK /\ StoreTypeOK /\ StoreSound
  BY RequestFacts DEF IndInv, TypeOK
<1>1. pc[c] = "response" /\ userData[c] = TRUE
  BY <1>0 DEF HandleResponse, TypeOK
<1>2. s.status \in Statuses \cup {BadGateway, 0} /\ records[c] = <<>>
  BY <1>0, <1>1 DEF Responses, LocalAt, Local, Counted
<1>3. /\ records' \in [Clients -> Seq(Statuses \cup {BadGateway, 0})]
      /\ records'[c] = <<s.status>>
      /\ \A d \in Clients : d # c => records'[d] = records[d]
  BY <1>0, <1>2, RecordOnce DEF Return
<1>4. /\ errs' \in [Clients -> Nat] /\ errs'[c] \in {0, 1}
      /\ \A d \in Clients : d # c => errs'[d] = errs[d]
  BY <1>0, <1>1 DEF HandleResponse, TypeOK, LocalAt, Local, Counted
<1>5. /\ pc'[c] = "done" /\ resp'[c] = s
      /\ req'[c] = req[c] /\ userData'[c] = userData[c] /\ gotMeta'[c] = gotMeta[c]
      /\ gotBody'[c] = gotBody[c] /\ armed'[c] = armed[c] /\ newMeta'[c] = newMeta[c]
  BY <1>0 DEF HandleResponse, Return, Goto, TypeOK
<1>6. TypeOK' /\ StoreSound'
  BY <1>0, <1>3, <1>4 DEF HandleResponse, Return, Goto, storeVars, TypeOK, StoreTypeOK, StoreSound, PCs
<1>7. OthersSame(c)
  BY <1>0, <1>3, <1>4 DEF HandleResponse, Return, Goto, TypeOK, OthersSame
<1>8. LocalAt(c)'
  BY <1>0, <1>1, <1>3, <1>4, <1>5 DEF LocalAt, Local, Flow, Counted, Verified, Refreshed, HeadSound, Looking, Deleting, Putting
<1> QED
  BY <1>6, <1>7, <1>8, Assemble

\* HandleResponse going on to the store with response s.
LEMMA ContinueKeeps ==
    ASSUME IndInv, NEW c \in Clients, HandleResponse(c), NEW s \in Responses,
           NEW nm \in Metas \cup {NoObject}, NEW p \in PCs,
           Goto(c, p), records' = records,
           resp' = [resp EXCEPT ![c] = s], newMeta' = [newMeta EXCEPT ![c] = nm],
           \A e \in {0, 1} : Local(p, req[c], TRUE, gotMeta[c], gotBody[c], armed[c], s, nm, <<>>, e)
    PROVE  IndInv'
<1>0. LocalAt(c) /\ TypeOK /\ StoreTypeOK /\ StoreSound
  BY RequestFacts DEF IndInv, TypeOK
<1>1. pc[c] = "response" /\ userData[c] = TRUE /\ records[c] = <<>>
  BY <1>0 DEF HandleResponse, TypeOK, LocalAt, Local, Counted
<1>2. /\ errs' \in [Clients -> Nat] /\ errs'[c] \in {0, 1}
      /\ \A d \in Clients : d # c => errs'[d] = errs[d]
  BY <1>0, <1>1 DEF HandleResponse, TypeOK, LocalAt, Local, Counted
<1>3. TypeOK' /\ StoreSound'
  BY <1>0, <1>2 DEF HandleResponse, Goto, storeVars, TypeOK, StoreTypeOK, StoreSound
<1>4. OthersSame(c)
  BY <1>0, <1>2 DEF HandleResponse, Goto, TypeOK, OthersSame
<1>5. LocalAt(c)'
  BY <1>0, <1>1, <1>2 DEF HandleResponse, Goto, TypeOK, LocalAt
<1> QED
  BY <1>3, <1>4, <1>5, Assemble

LEMMA HandleResponseKeeps ==
    ASSUME IndInv, NEW c \in Clients, HandleResponseStep(c)
    PROVE  IndInv'
<1>0. /\ LocalAt(c) /\ req[c] \in Requests /\ TypeOK /\ StoreTypeOK /\ StoreSound
      /\ pc[c] = "response"
  BY RequestFacts DEF IndInv, TypeOK, HandleResponseStep, ReturnUntouched, serveFallback, NotCached,
     ServeTruncated, RejectMismatch, ServeHeadUncached, BeginPut, Buffered, HandleResponse
<1>1. resp[c] \in Responses /\ resp[c] # NoResponse /\ req[c].url # NoURL
  BY <1>0 DEF LocalAt, Local, Flow, TypeOK
<1>s. /\ Stripped(resp[c]) \in Responses /\ Stripped(resp[c]) # NoResponse
      /\ Stripped(resp[c]).status = resp[c].status /\ Stripped(resp[c]).body = resp[c].body
      /\ Stripped(resp[c]).origin = resp[c].origin
  BY <1>1, StrippedFacts
<1>u. userData[c] => /\ resp[c].origin = "upstream" /\ ~bypass(req[c])
                     /\ resp[c].cut <=> resp[c].body = Damaged
  BY <1>0 DEF LocalAt, Local, Flow
<1>2. CASE ReturnUntouched(c)
  <2>1. /\ pc'[c] = "done" /\ ~userData[c]
        /\ req'[c] = req[c] /\ userData'[c] = userData[c] /\ gotMeta'[c] = gotMeta[c]
        /\ gotBody'[c] = gotBody[c] /\ armed'[c] = armed[c] /\ resp'[c] = resp[c]
        /\ newMeta'[c] = newMeta[c] /\ records'[c] = records[c] /\ errs'[c] = errs[c]
    BY <1>0, <1>2 DEF ReturnUntouched, Goto, requestVars, TypeOK
  <2>2. TypeOK' /\ StoreSound'
    BY <1>0, <1>2 DEF ReturnUntouched, Goto, requestVars, storeVars, TypeOK, StoreTypeOK, StoreSound, PCs
  <2>3. OthersSame(c)
    BY <1>0, <1>2 DEF ReturnUntouched, Goto, requestVars, TypeOK, OthersSame
  <2>4. LocalAt(c)'
    BY <1>0, <2>1, RefusalFacts DEF LocalAt, Local, Flow, Counted, Verified, Refreshed, HeadSound, Looking, Deleting, Putting
  <2> QED
    BY <2>2, <2>3, <2>4, Assemble
<1>3. CASE serveFallback(c)
  <2>1. /\ armed[c] /\ gotMeta[c] \in Metas /\ gotBody[c] \in Bodies
        /\ req[c].method = "HEAD" => gotMeta[c].length = "positive"
    BY <1>0, <1>3 DEF serveFallback, FallsBack, LocalAt, Local, Flow
  <2>2. /\ buildResponse(req[c], gotMeta[c], gotBody[c]) \in Responses
        /\ buildResponse(req[c], gotMeta[c], gotBody[c]) # NoResponse
        /\ buildResponse(req[c], gotMeta[c], gotBody[c]).body = gotBody[c]
        /\ req[c].method = "HEAD" =>
             buildResponse(req[c], gotMeta[c], gotBody[c]).length = gotMeta[c].length
    BY <1>0, <2>1, BuildFacts
  <2>3. HeadSound("done", req[c], buildResponse(req[c], gotMeta[c], gotBody[c]))
    BY <2>1, <2>2 DEF HeadSound
  <2>4. Verified("done", req[c], TRUE, gotBody[c], armed[c],
                 buildResponse(req[c], gotMeta[c], gotBody[c]))
    BY <1>0, <2>1, <2>2 DEF LocalAt, Local, Verified, Deleting, Putting
  <2>5. Refreshed("done", req[c], gotMeta[c], gotBody[c], armed[c],
                  buildResponse(req[c], gotMeta[c], gotBody[c]))
    BY DEF Refreshed, Deleting, Putting
  <2> QED
    BY <1>3, <2>2, <2>3, <2>4, <2>5, ReturnKeeps DEF serveFallback
<1>4. CASE NotCached(c)
  <2>0. ~armed[c]
    <3>1. resp[c].status \in Int
      <4>1. resp[c].status \in Statuses \cup {BadGateway}
        BY <1>1 DEF Responses
      <4> QED
        BY <4>1, StatusIsInt
    <3> QED
      BY <1>4, <3>1 DEF NotCached, FallsBack, RefreshFailed, Is2xx, Cacheable
  <2>1. /\ HeadSound("done", req[c], Stripped(resp[c]))
        /\ Verified("done", req[c], TRUE, gotBody[c], armed[c], Stripped(resp[c]))
        /\ Refreshed("done", req[c], gotMeta[c], gotBody[c], armed[c], Stripped(resp[c]))
    BY <1>0, <1>4, <2>0, <1>s, <1>u
    DEF NotCached, HandleResponse, HeadSound, Verified, Refreshed, Deleting, Putting
  <2> QED
    BY <1>4, <1>s, <2>1, ReturnKeeps DEF NotCached
<1>5. CASE ServeTruncated(c)
  <2>1. /\ setBufferedBody(Stripped(resp[c])) \in Responses
        /\ setBufferedBody(Stripped(resp[c])) # NoResponse
        /\ setBufferedBody(Stripped(resp[c])).body = Damaged
        /\ setBufferedBody(Stripped(resp[c])).origin = "upstream"
    BY <1>5, <1>s, <1>u, StrippedFacts DEF ServeTruncated, HandleResponse
  <2>2. /\ HeadSound("done", req[c], setBufferedBody(Stripped(resp[c])))
        /\ Verified("done", req[c], TRUE, gotBody[c], armed[c], setBufferedBody(Stripped(resp[c])))
        /\ Refreshed("done", req[c], gotMeta[c], gotBody[c], armed[c],
                     setBufferedBody(Stripped(resp[c])))
    BY <1>5, <2>1 DEF ServeTruncated, FallsBack, RefreshFailed, HeadSound, Verified, Refreshed, Deleting, Putting
  <2> QED
    BY <1>5, <2>1, <2>2, ReturnKeeps DEF ServeTruncated
<1>6. ASSUME Buffered(c)
      PROVE  /\ HandleResponse(c) /\ userData[c] /\ ~bypass(req[c])
             /\ Cacheable(resp[c].status) /\ resp[c].origin = "upstream" /\ resp[c].body # Damaged
             /\ armed[c] => Is2xx(resp[c].status)
  BY <1>6, <1>u DEF Buffered, FallsBack, RefreshFailed, HandleResponse
<1>7. CASE RejectMismatch(c)
  <2>1. Pinned(req[c].method, req[c].url)
    BY <1>7 DEF RejectMismatch, Mismatch, VerifyDigest, ExtractOCIDigest, Pinned
  <2>2. /\ HandleResponse(c) /\ records' = records /\ newMeta' = newMeta /\ Goto(c, "delExists")
        /\ ~bypass(req[c]) /\ resp[c].origin = "upstream" /\ resp[c].body # Damaged
        /\ armed[c] => Is2xx(resp[c].status)
    BY <1>6, <1>7 DEF RejectMismatch
  <2>3. newMeta' = [newMeta EXCEPT ![c] = newMeta[c]] /\ newMeta[c] \in Metas \cup {NoObject}
    BY <1>0, <2>2 DEF TypeOK
  <2>4. CASE OnMismatch = "error"
    <3>1. resp' = [resp EXCEPT ![c] = Refusal]
      BY <1>7, <2>4 DEF RejectMismatch
    <3>2. ASSUME NEW e \in {0, 1}
          PROVE  Local("delExists", req[c], TRUE, gotMeta[c], gotBody[c], armed[c], Refusal,
                       newMeta[c], <<>>, e)
      BY <1>0, <1>1, <2>1, <2>2, RefusalFacts DEF LocalAt, Local, Flow, Counted, Verified, Refreshed, HeadSound, Looking, Deleting, Putting
    <3> QED
      BY <2>2, <2>3, <3>1, <3>2, RefusalFacts, ContinueKeeps DEF PCs
  <2>5. CASE OnMismatch # "error"
    <3>0. OnMismatch = "passthrough"
      BY <2>5, ConfigAssumption
    <3>1. resp' = [resp EXCEPT ![c] = Stripped(resp[c])]
      BY <1>7, <2>5 DEF RejectMismatch
    <3>2. ASSUME NEW e \in {0, 1}
          PROVE  Local("delExists", req[c], TRUE, gotMeta[c], gotBody[c], armed[c],
                       Stripped(resp[c]), newMeta[c], <<>>, e)
      BY <1>0, <1>1, <1>s, <2>1, <2>2, <3>0 DEF LocalAt, Local, Flow, Counted, Verified, Refreshed, HeadSound, Looking, Deleting, Putting
    <3> QED
      BY <1>s, <2>2, <2>3, <3>1, <3>2, ContinueKeeps DEF PCs
  <2> QED
    BY <2>4, <2>5
<1>8. CASE ServeHeadUncached(c)
  <2>1. /\ req[c].method = "HEAD" /\ Return(c, Stripped(resp[c])) /\ HandleResponse(c)
        /\ resp[c].origin = "upstream" /\ resp[c].body # Damaged
        /\ armed[c] => Is2xx(resp[c].status)
    BY <1>6, <1>8 DEF ServeHeadUncached, LacksLength
  <2>2. /\ HeadSound("done", req[c], Stripped(resp[c]))
        /\ Refreshed("done", req[c], gotMeta[c], gotBody[c], armed[c], Stripped(resp[c]))
    BY <1>s, <2>1 DEF HeadSound, Refreshed, Deleting, Putting
  <2>3. Verified("done", req[c], TRUE, gotBody[c], armed[c], Stripped(resp[c]))
    BY <2>1 DEF Verified, Pinned
  <2> QED
    BY <1>s, <2>1, <2>2, <2>3, ReturnKeeps
<1>9. CASE BeginPut(c)
  <2> DEFINE nm == [status |-> resp[c].status, length |-> resp[c].length, cachedAt |-> clock]
  <2>1. /\ HandleResponse(c) /\ ~bypass(req[c]) /\ Goto(c, "createMeta") /\ records' = records
        /\ resp' = [resp EXCEPT ![c] = Stripped(resp[c])]
        /\ newMeta' = [newMeta EXCEPT ![c] = nm]
        /\ Cacheable(resp[c].status) /\ resp[c].origin = "upstream" /\ resp[c].body # Damaged
        /\ armed[c] => Is2xx(resp[c].status)
        /\ req[c].method = "HEAD" => resp[c].length = "positive"
    BY <1>6, <1>9 DEF BeginPut, LacksLength
  <2>2. /\ nm \in Metas /\ nm.status = resp[c].status /\ nm.length = resp[c].length
    <3>1. resp[c].status \in Statuses /\ resp[c].length \in Lengths
      BY <1>1, <2>1, RefusalFacts DEF Responses
    <3>2. clock \in 0..MaxClock
      BY <1>0 DEF TypeOK
    <3> QED
      BY <3>1, <3>2, MetaAssumption
  <2>3. ASSUME Pinned(req[c].method, req[c].url) PROVE resp[c].body = Digest(req[c])
    BY <1>9, <2>3 DEF BeginPut, Mismatch, VerifyDigest, ExtractOCIDigest, Pinned, Digest
  <2> HIDE DEF nm
  <2>4. ASSUME NEW e \in {0, 1}
        PROVE  Local("createMeta", req[c], TRUE, gotMeta[c], gotBody[c], armed[c],
                     Stripped(resp[c]), nm, <<>>, e)
    BY <1>0, <1>1, <1>s, <2>1, <2>2, <2>3 DEF LocalAt, Local, Flow, Counted, Verified, Refreshed, HeadSound, Looking, Deleting, Putting
  <2> QED
    BY <1>s, <2>1, <2>2, <2>4, ContinueKeeps DEF PCs
<1> QED
  BY <1>2, <1>3, <1>4, <1>5, <1>7, <1>8, <1>9 DEF HandleResponseStep

-----------------------------------------------------------------------------
(* The invariant is inductive. *)

LEMMA InitEstablishes == Init => IndInv
<1> SUFFICES ASSUME Init PROVE IndInv
  OBVIOUS
<1>1. PICK s \in InitialStores : meta = s.meta /\ body = s.body
  BY DEF Init
<1>2. /\ meta \in [Keys -> MetaObjects] /\ body \in [Keys -> BodyObjects]
      /\ StoreSound
  BY <1>1, InitialStoresAssumption DEF StoreSound
<1>3. (CHOOSE r \in Requests : TRUE) \in Requests
  BY RequestAssumption
<1>4. <<>> \in Seq(Statuses \cup {BadGateway, 0})
  OBVIOUS
<1>5. TypeOK
  BY <1>2, <1>3, <1>4, ConfigAssumption DEF Init, TypeOK, StoreTypeOK, PCs, BodyObjects, Bodies
<1>6. ASSUME NEW c \in Clients PROVE LocalAt(c)
  BY <1>6 DEF Init, LocalAt, Local, Flow, Counted, Verified, Refreshed, HeadSound, Looking, Deleting, Putting
<1> QED
  BY <1>2, <1>5, <1>6 DEF IndInv, LocalInv, LocalAt

LEMMA TickKeeps == IndInv /\ Tick => IndInv'
<1> SUFFICES ASSUME IndInv, Tick PROVE IndInv'
  OBVIOUS
<1>1. TypeOK'
  BY ConfigAssumption DEF IndInv, Tick, requestVars, storeVars, TypeOK, StoreTypeOK
<1>2. LocalInv' /\ StoreSound'
  BY DEF IndInv, Tick, requestVars, storeVars, LocalInv, StoreSound
<1> QED
  BY <1>1, <1>2 DEF IndInv

LEMMA RestartKeeps == IndInv /\ Restart => IndInv'
<1> SUFFICES ASSUME IndInv, Restart PROVE IndInv'
  OBVIOUS
<1>1. StoreTypeOK' /\ StoreSound'
  BY DEF IndInv, Restart, CloseAll, TypeOK, StoreTypeOK, StoreSound, BodyObjects, Bodies
<1>2. <<>> \in Seq(Statuses \cup {BadGateway, 0})
  OBVIOUS
<1>3. TypeOK'
  BY <1>1, <1>2 DEF IndInv, Restart, TypeOK, PCs, BodyObjects, Bodies
<1>4. ASSUME NEW c \in Clients PROVE LocalAt(c)'
  <2>1. /\ pc'[c] = "idle" /\ userData'[c] = FALSE /\ gotMeta'[c] = NoObject
        /\ gotBody'[c] = Empty /\ armed'[c] = FALSE /\ resp'[c] = NoResponse
        /\ newMeta'[c] = NoObject /\ records'[c] = <<>> /\ errs'[c] = 0
    BY DEF Restart
  <2> QED
    BY <2>1 DEF LocalAt, Local, Flow, Counted, Verified, Refreshed, HeadSound, Looking, Deleting, Putting
<1> QED
  BY <1>1, <1>3, <1>4 DEF IndInv, LocalInv, LocalAt

LEMMA NextKeeps == IndInv /\ [Next]_vars => IndInv'
<1> SUFFICES ASSUME IndInv, [Next]_vars PROVE IndInv'
  OBVIOUS
<1>1. ASSUME NEW c \in Clients, Arrive(c) \/ RoundTrip(c) \/ ProxyStep(c) PROVE IndInv'
  BY <1>1, ArriveKeeps, RoundTripKeeps, HandleRequestKeeps, DeleteKeeps, HandleResponseKeeps, PutKeeps
  DEF ProxyStep
<1>2. CASE UNCHANGED vars
  <2>1. TypeOK'
    BY <1>2 DEF IndInv, vars, requestVars, storeVars, TypeOK, StoreTypeOK
  <2>2. LocalInv' /\ StoreSound'
    BY <1>2 DEF IndInv, vars, requestVars, storeVars, LocalInv, StoreSound
  <2> QED
    BY <2>1, <2>2 DEF IndInv
<1> QED
  BY <1>1, <1>2, TickKeeps, RestartKeeps DEF Next

\* Every behaviour of the proxy stays within the inductive invariant.
THEOREM Invariance == Spec => []IndInv
BY InitEstablishes, NextKeeps, PTL DEF Spec

-----------------------------------------------------------------------------
(* What follows from it. *)

\* Every variable keeps its type, in all interleavings of all clients.
THEOREM TypeCorrect == Spec => []TypeOK
<1>1. IndInv => TypeOK
  BY DEF IndInv
<1> QED
  BY <1>1, Invariance, PTL

\* Whatever the store held, however reads, evictions and writes interleave, and
\* wherever the process dies, a pinned request is answered with the pinned
\* content or not successfully, truncation and "passthrough" apart.
THEOREM DigestsHold == Spec => []DigestServed
<1>1. IndInv => DigestServed
  <2> SUFFICES ASSUME IndInv, NEW c \in Clients, Answered(c),
                      Pinned(req[c].method, req[c].url),
                      ~Excluded(req[c].method, req[c].url), Cacheable(resp[c].status)
               PROVE  \/ resp[c].body = PathDigest[req[c].url.name]
                      \/ /\ resp[c].origin = "upstream"
                         /\ resp[c].body = Damaged \/ OnMismatch = "passthrough"
    BY DEF DigestServed
  <2>1. LocalAt(c) /\ req[c] \in Requests
    BY RequestFacts
  <2>2. req[c].url # NoURL
    BY <2>1 DEF Answered, LocalAt, Local, Flow
  <2>3. ~bypass(req[c])
    BY <2>1, <2>2, BypassIsExcluded
  <2> QED
    BY <2>1, <2>2, <2>3 DEF Answered, LocalAt, Local, Verified, Digest
<1> QED
  BY <1>1, Invariance, PTL

\* An excluded request never leaves an entry, whichever port its URL spells.
THEOREM BypassHolds == Spec => []BypassUncached
<1>1. IndInv => BypassUncached
  BY DEF IndInv, StoreSound, BypassUncached
<1> QED
  BY <1>1, Invariance, PTL

\* A client with a fallback is never shown an upstream failure.
THEOREM FallbacksHold == Spec => []FallbackHonoured
<1>1. IndInv => FallbackHonoured
  <2> SUFFICES ASSUME IndInv, NEW c \in Clients, Answered(c), armed[c]
               PROVE  \/ resp[c] = buildResponse(req[c], gotMeta[c], gotBody[c])
                      \/ /\ resp[c].origin = "upstream" /\ Is2xx(resp[c].status)
                         /\ resp[c].body # Damaged
                      \/ resp[c] = Refusal /\ Pinned(req[c].method, req[c].url)
    BY DEF FallbackHonoured
  <2>1. LocalAt(c)
    BY RequestFacts
  <2> QED
    BY <2>1 DEF Answered, LocalAt, Local, Refreshed
<1> QED
  BY <1>1, Invariance, PTL

\* One observation per answered request, under the status the client got.
THEOREM CountingHolds == Spec => []CountedOnce
<1>1. IndInv => CountedOnce
  <2> SUFFICES ASSUME IndInv, NEW c \in Clients
               PROVE  /\ Answered(c) =>
                          /\ Len(records[c]) = 1
                          /\ records[c][1] = IF Excluded(req[c].method, req[c].url) /\ Mode # "offline"
                                             THEN 0 ELSE resp[c].status
                      /\ errs[c] <= 1
    BY DEF CountedOnce
  <2>1. LocalAt(c) /\ req[c] \in Requests
    BY RequestFacts
  <2>2. errs[c] <= 1
    BY <2>1 DEF LocalAt, Local, Counted
  <2>3. ASSUME Answered(c)
        PROVE  /\ Len(records[c]) = 1
               /\ records[c][1] = IF Excluded(req[c].method, req[c].url) /\ Mode # "offline"
                                  THEN 0 ELSE resp[c].status
    <3>1. req[c].url # NoURL
      BY <2>1, <2>3 DEF Answered, LocalAt, Local, Flow
    <3>2. bypass(req[c]) <=> Excluded(req[c].method, req[c].url)
      BY <2>1, <3>1, BypassIsExcluded
    <3>3. records[c] = IF bypass(req[c]) /\ Mode # "offline" THEN <<0>> ELSE <<resp[c].status>>
      BY <2>1, <2>3 DEF Answered, LocalAt, Local, Counted
    <3> QED
      BY <3>2, <3>3
  <2> QED
    BY <2>2, <2>3
<1> QED
  BY <1>1, Invariance, PTL

\* A HEAD that is answered from the cache carries its length.
THEOREM HeadsHold == Spec => []HeadLength
<1>1. IndInv => HeadLength
  <2> SUFFICES ASSUME IndInv, NEW c \in Clients, Answered(c), req[c].method = "HEAD",
                      resp[c].origin = "cache"
               PROVE  resp[c].length = "positive"
    BY DEF HeadLength
  <2>1. LocalAt(c)
    BY RequestFacts
  <2> QED
    BY <2>1 DEF Answered, LocalAt, Local, HeadSound
<1> QED
  BY <1>1, Invariance, PTL

\* Only successes are stored, and only 2xx refreshes replace a stale entry.
THEOREM SuccessesHold == Spec => []OnlySuccessStored
<1>1. IndInv => OnlySuccessStored
  <2>1. ASSUME IndInv, NEW c \in Clients, pc[c] \in Putting
        PROVE  Cacheable(newMeta[c].status) /\ (armed[c] => Is2xx(newMeta[c].status))
    <3>1. LocalAt(c)
      BY <2>1, RequestFacts
    <3> QED
      BY <2>1, <3>1 DEF LocalAt, Local, Flow, Refreshed
  <2> QED
    BY <2>1 DEF IndInv, StoreSound, OnlySuccessStored, Putting
<1> QED
  BY <1>1, Invariance, PTL

\* Only cache.Put and cache.Delete change a body file.
LEMMA BodyChanges ==
    ASSUME IndInv, [Next]_vars
    PROVE  \/ body' = body
           \/ \E c \in Clients : PutMove(c) \/ DeleteBody(c)
<1>1. CASE UNCHANGED vars \/ Tick \/ Restart
  BY <1>1 DEF vars, storeVars, Tick, Restart, CloseAll
<1>2. ASSUME NEW c \in Clients, Arrive(c) \/ RoundTrip(c) PROVE body' = body
  BY <1>2 DEF Arrive, DropNilURL, RefuseBypass, ForwardBypass, Lookup, Begin, RoundTrip, Answer, Fail, storeVars
<1>3. ASSUME NEW c \in Clients, HandleRequestStep(c) PROVE body' = body
  BY <1>3 DEF HandleRequestStep, ReadMeta, MissMeta, GetBody, OpenBody, MissBody,
     EvictMismatchedHit, DeferToUpstream, ServeHit, ReadBody, CloseFile, storeVars
<1>4. ASSUME NEW c \in Clients, HandleResponseStep(c) PROVE body' = body
  BY <1>4 DEF HandleResponseStep, ReturnUntouched, serveFallback, NotCached, ServeTruncated,
     RejectMismatch, ServeHeadUncached, BeginPut, Buffered, HandleResponse, storeVars
<1>5. ASSUME NEW c \in Clients, DeleteStep(c) PROVE body' = body \/ DeleteBody(c)
  BY <1>5 DEF DeleteStep, DeleteExists, DeleteNotFound, DeleteMeta, RemoveMeta, DeleteFails,
     RemoveFails, storeVars
<1> QED
  BY <1>1, <1>2, <1>3, <1>4, <1>5 DEF Next, ProxyStep

LEMMA PutBodies ==
    ASSUME IndInv, NEW c \in Clients, PutMove(c)
    PROVE  \/ body' = body
           \/ \E v \in {Empty, Damaged, resp[c].body} : body' = [body EXCEPT ![Key(c)] = v]
<1>1. CASE PutMetaCreate(c)
  BY <1>1 DEF PutMetaCreate, CreateMeta
<1>2. CASE PutMetaWrite(c)
  BY <1>2 DEF PutMetaWrite, WriteMeta
<1>3. CASE PutBodyCreate(c)
  BY <1>3 DEF PutBodyCreate, CreateBody
<1>4. CASE PutBodyWrite(c)
  BY <1>4 DEF PutBodyWrite, WriteBody, Overlay
<1>5. CASE PutFails(c)
  <2>1. CASE PutEnds(c, "writeBody") /\ WriteBodyFails(c, Key(c))
    <3>1. body \in [Keys -> BodyObjects]
      BY DEF IndInv, TypeOK, StoreTypeOK
    <3> QED
      BY <2>1, <3>1 DEF WriteBodyFails
  <2> QED
    BY <1>5, <2>1 DEF PutFails, CreateFails, WriteMetaFails, storeVars
<1> QED
  BY <1>1, <1>2, <1>3, <1>4, <1>5 DEF PutMove

\* What a verification site refused is not stored by another path: every body
\* that a step puts under a pinned key is the pinned content, or is recognisably
\* incomplete.
THEOREM StoresHold == Spec => WrongBodyNeverStored
<1>1. ASSUME IndInv, [Next]_vars, NEW k \in Keys, Pinned(k.method, k.url), body'[k] # body[k]
      PROVE  body'[k] \in {NoObject, Empty, Damaged, PathDigest[k.url.name]}
  <2>0. body \in [Keys -> BodyObjects]
    BY <1>1 DEF IndInv, TypeOK, StoreTypeOK
  <2>1. PICK c \in Clients : PutMove(c) \/ DeleteBody(c)
    BY <1>1, BodyChanges
  <2>2. CASE DeleteBody(c)
    BY <1>1, <2>0, <2>2 DEF DeleteBody, RemoveBody
  <2>3. CASE PutMove(c)
    <3>1. pc[c] \in Putting
      BY <2>3 DEF PutMove, PutMetaCreate, PutMetaWrite, PutBodyCreate, PutBodyWrite, PutFails,
                  PutStep, PutEnds, Putting
    <3>2. LocalAt(c) /\ Key(c).method = req[c].method /\ Key(c).url = req[c].url
      BY <1>1, <3>1, RequestFacts DEF Putting
    <3>3. PICK v \in {Empty, Damaged, resp[c].body} : body' = [body EXCEPT ![Key(c)] = v]
      BY <1>1, <2>3, PutBodies
    <3>4. k = Key(c) /\ body'[k] = v
      BY <1>1, <2>0, <3>3
    <3>5. resp[c].body = PathDigest[k.url.name]
      BY <1>1, <3>1, <3>2, <3>4 DEF LocalAt, Local, Flow, Verified, Digest, Putting
    <3> QED
      BY <3>3, <3>4, <3>5
  <2> QED
    BY <2>1, <2>2, <2>3
<1>2. IndInv /\ [Next]_vars => [\A k \in Keys :
          Pinned(k.method, k.url) /\ body'[k] # body[k] =>
              body'[k] \in {NoObject, Empty, Damaged, PathDigest[k.url.name]}]_vars
  BY <1>1
<1> QED
  BY <1>2, Invariance, PTL DEF Spec, WrongBodyNeverStored

-----------------------------------------------------------------------------
(* Offline mode.                                                             *)

\* The archive holds no entry that the digest verification would refuse.  (One
\* that it refuses is sent upstream: OfflineForbidsUpstream.)
IntactArchives == \A s \in InitialStores, r \in Requests :
    r.url # NoURL => LET k == ComputeCacheKey(r) IN
        s.meta[k] \in Metas /\ s.body[k] # NoObject => ~Mismatch(r, s.body[k])

\* No answer yet, the proxy's own, or what the archive holds.
OwnOrArchived(r, s) ==
    \/ s \in {NoResponse, Refusal}
    \/ s = buildResponse(r, meta[ComputeCacheKey(r)], body[ComputeCacheKey(r)])

\* A client of an offline proxy: where it is, what it has read is what the
\* archive holds, and what it answers comes from there.
OfflineAt(c) ==
    /\ pc[c] \in {"idle", "readMeta", "openBody", "readBody", "response", "done"}
    /\ pc[c] \in {"openBody", "readBody"} =>
          gotMeta[c] = meta[Key(c)] /\ meta[Key(c)] \in Metas
    /\ pc[c] = "readBody" =>
          handle[c] = Opened(Key(c), "body", "read") /\ body[Key(c)] # NoObject
    /\ pc[c] = "response" => ~userData[c]
    /\ pc[c] \in {"response", "done"} => OwnOrArchived(req[c], resp[c])

OfflineInv ==
    /\ \E s \in InitialStores : meta = s.meta /\ body = s.body
    /\ \A c \in Clients : OfflineAt(c)

\* A step that moves one client only.
LEMMA OfflineFrame ==
    ASSUME OfflineInv, NEW c \in Clients, OthersSame(c), OfflineAt(c)',
           UNCHANGED <<meta, body>>, \A d \in Clients : d # c => handle'[d] = handle[d]
    PROVE  OfflineInv'
<1>1. ASSUME NEW d \in Clients, d # c PROVE OfflineAt(d)'
  BY <1>1 DEF OfflineInv, OfflineAt, OthersSame, OwnOrArchived, Key
<1> QED
  BY <1>1 DEF OfflineInv

\* HandleRequest up to cache.Get: a bypassed request is refused.
LEMMA OfflineArrive ==
    ASSUME Mode = "offline", IndInv, OfflineInv, NEW c \in Clients, Arrive(c)
    PROVE  OfflineInv'
<1>1. TypeOK
  BY DEF IndInv
<1>2. PICK r \in Requests : DropNilURL(c, r) \/ RefuseBypass(c, r) \/ Lookup(c, r)
  BY DEF Arrive, ForwardBypass
<1>3. ASSUME NEW u, NEW s, NEW rec, NEW p, Begin(c, r, u, s, rec, p)
      PROVE  /\ pc'[c] = p /\ req'[c] = r /\ userData'[c] = u /\ resp'[c] = s
             /\ OthersSame(c) /\ UNCHANGED <<meta, body, handle>>
  BY <1>1, <1>3 DEF Begin, Goto, storeVars, OthersSame, TypeOK
<1>4. CASE DropNilURL(c, r)
  <2>1. /\ pc'[c] = "done" /\ resp'[c] = NoResponse
        /\ OthersSame(c) /\ UNCHANGED <<meta, body, handle>>
    BY <1>3, <1>4 DEF DropNilURL
  <2>2. OfflineAt(c)'
    BY <2>1 DEF OfflineAt, OwnOrArchived
  <2> QED
    BY <2>1, <2>2, OfflineFrame
<1>5. CASE RefuseBypass(c, r)
  <2>1. /\ pc'[c] = "response" /\ resp'[c] = Refusal /\ userData'[c] = FALSE
        /\ OthersSame(c) /\ UNCHANGED <<meta, body, handle>>
    BY <1>3, <1>5 DEF RefuseBypass
  <2>2. OfflineAt(c)'
    BY <2>1 DEF OfflineAt, OwnOrArchived
  <2> QED
    BY <2>1, <2>2, OfflineFrame
<1>6. CASE Lookup(c, r)
  <2>1. pc'[c] = "readMeta" /\ OthersSame(c) /\ UNCHANGED <<meta, body, handle>>
    BY <1>3, <1>6 DEF Lookup
  <2>2. OfflineAt(c)'
    BY <2>1 DEF OfflineAt
  <2> QED
    BY <2>1, <2>2, OfflineFrame
<1> QED
  BY <1>2, <1>4, <1>5, <1>6

\* cache.Get and what HandleRequest makes of it.
LEMMA OfflineLookup ==
    ASSUME Mode = "offline", StorageFaults = FALSE, IntactArchives,
           IndInv, OfflineInv, NEW c \in Clients, HandleRequestStep(c)
    PROVE  OfflineInv'
<1>1. TypeOK /\ OfflineAt(c) /\ handle \in [Clients -> Handles \cup {NoFile}]
  BY DEF IndInv, OfflineInv, TypeOK, StoreTypeOK
<1>2. CASE ReadMeta(c)
  <2>1. /\ pc'[c] = "openBody" /\ gotMeta'[c] = meta[Key(c)] /\ meta[Key(c)] \in Metas
        /\ req'[c] = req[c] /\ UNCHANGED <<meta, body, handle>> /\ OthersSame(c)
    BY <1>1, <1>2 DEF ReadMeta, Unmarshals, Goto, storeVars, TypeOK, OthersSame
  <2>2. OfflineAt(c)'
    BY <2>1 DEF OfflineAt, Key
  <2> QED
    BY <2>1, <2>2, OfflineFrame
<1>3. CASE MissMeta(c) \/ MissBody(c)
  <2>1. /\ pc'[c] = "response" /\ resp'[c] = Refusal /\ ~userData'[c]
        /\ UNCHANGED <<meta, body, handle>> /\ OthersSame(c)
    BY <1>1, <1>3 DEF MissMeta, MissBody, Miss, recordRequest, Goto, storeVars, TypeOK, OthersSame
  <2>2. OfflineAt(c)'
    BY <2>1 DEF OfflineAt, OwnOrArchived
  <2> QED
    BY <2>1, <2>2, OfflineFrame
<1>4. CASE GetBody(c)
  <2>1. /\ pc[c] = "openBody" /\ pc'[c] = "readBody" /\ body[Key(c)] # NoObject
        /\ handle' = [handle EXCEPT ![c] = Opened(Key(c), "body", "read")]
        /\ gotMeta' = gotMeta /\ req' = req /\ UNCHANGED <<meta, body>> /\ OthersSame(c)
    BY <1>1, <1>4 DEF GetBody, OpenBody, Goto, requestVars, TypeOK, OthersSame
  <2>2. OfflineAt(c)'
    BY <1>1, <2>1 DEF OfflineAt, Key
  <2> QED
    BY <1>1, <2>1, <2>2, OfflineFrame
<1>5. CASE EvictMismatchedHit(c) \/ DeferToUpstream(c) \/ ServeHit(c)
  <2>1. PICK b \in Bodies : /\ ReadBody(c, b)
                            /\ \/ Mismatch(req[c], b) /\ EvictMismatchedHit(c)
                               \/ /\ ~Mismatch(req[c], b)
                                  /\ resp' = [resp EXCEPT
                                                ![c] = buildResponse(req[c], gotMeta[c], b)]
                                  /\ recordRequest(c, gotMeta[c].status)
                                  /\ userData' = [userData EXCEPT ![c] = FALSE]
                                  /\ Goto(c, "response")
                                  /\ UNCHANGED <<clock, req, gotMeta, armed, newMeta, errs>>
    BY <1>5 DEF EvictMismatchedHit, DeferToUpstream, ServeHit
  <2>2. pc[c] = "readBody" /\ gotMeta[c] = meta[Key(c)] /\ meta[Key(c)] \in Metas
        /\ body[Key(c)] # NoObject /\ handle[c] = Opened(Key(c), "body", "read")
    BY <1>1, <2>1 DEF ReadBody, OfflineAt
  <2>3. b = body[Key(c)]
    BY <2>1, <2>2 DEF ReadBody, ReadResults, Opened
  <2>4. ~Mismatch(req[c], b)
    <3>1. req[c] \in Requests /\ req[c].url # NoURL
      BY <2>2, RequestFacts
    <3>2. PICK s \in InitialStores : meta = s.meta /\ body = s.body
      BY DEF OfflineInv
    <3> QED
      BY <2>2, <2>3, <3>1, <3>2 DEF IntactArchives, Key
  <2>5. /\ pc'[c] = "response" /\ ~userData'[c]
        /\ resp'[c] = buildResponse(req[c], meta[Key(c)], body[Key(c)]) /\ req'[c] = req[c]
        /\ UNCHANGED <<meta, body>> /\ OthersSame(c)
        /\ \A d \in Clients : d # c => handle'[d] = handle[d]
    BY <1>1, <2>1, <2>2, <2>3, <2>4
       DEF ReadBody, CloseFile, recordRequest, Goto, TypeOK, OthersSame
  <2>6. OfflineAt(c)'
    BY <2>5 DEF OfflineAt, OwnOrArchived, Key
  <2> QED
    BY <2>5, <2>6, OfflineFrame
<1> QED
  BY <1>2, <1>3, <1>4, <1>5 DEF HandleRequestStep

LEMMA OfflineNext ==
    ASSUME Mode = "offline", StorageFaults = FALSE, IntactArchives,
           IndInv, OfflineInv, [Next]_vars
    PROVE  OfflineInv'
<1>1. TypeOK
  BY DEF IndInv
<1>2. ASSUME NEW c \in Clients PROVE OfflineAt(c)
  BY DEF OfflineInv
<1>3. ASSUME NEW c \in Clients, RoundTrip(c) \/ DeleteStep(c) \/ PutMove(c) PROVE FALSE
  <2>1. pc[c] \in {"upstream", "delExists", "delMeta", "delBody",
                   "createMeta", "writeMeta", "createBody", "writeBody"}
    BY <1>3 DEF RoundTrip, Answer, Fail, DeleteStep, DeleteExists, DeleteNotFound, DeleteMeta,
                DeleteBody, DeleteFails, PutMove, PutMetaCreate, PutMetaWrite, PutBodyCreate,
                PutBodyWrite, PutFails, PutStep, PutEnds
  <2> QED
    BY <1>2, <2>1 DEF OfflineAt
<1>4. ASSUME NEW c \in Clients, HandleResponseStep(c) PROVE OfflineInv'
  <2>1. pc[c] = "response" /\ ReturnUntouched(c)
    BY <1>2, <1>4 DEF HandleResponseStep, OfflineAt, ReturnUntouched, serveFallback, NotCached,
                      ServeTruncated, RejectMismatch, ServeHeadUncached, BeginPut, Buffered,
                      HandleResponse
  <2>2. /\ pc'[c] = "done" /\ resp'[c] = resp[c] /\ req'[c] = req[c]
        /\ UNCHANGED <<meta, body, handle>> /\ OthersSame(c)
    BY <1>1, <2>1 DEF ReturnUntouched, Goto, requestVars, storeVars, TypeOK, OthersSame
  <2>3. OfflineAt(c)'
    BY <1>2, <2>1, <2>2 DEF OfflineAt, OwnOrArchived
  <2> QED
    BY <2>2, <2>3, OfflineFrame
<1>5. ASSUME Tick \/ UNCHANGED vars PROVE OfflineInv'
  BY <1>5 DEF Tick, vars, requestVars, storeVars, OfflineInv, OfflineAt, OwnOrArchived, Key
<1>6. ASSUME Restart PROVE OfflineInv'
  <2>1. \A c \in Clients : pc'[c] = "idle"
    BY <1>6 DEF Restart
  <2>2. \A c \in Clients : OfflineAt(c)'
    BY <2>1 DEF OfflineAt
  <2> QED
    BY <1>6, <2>2 DEF Restart, CloseAll, OfflineInv
<1> QED
  BY <1>3, <1>4, <1>5, <1>6, OfflineArrive, OfflineLookup DEF Next, ProxyStep

\* An offline proxy over an intact archive that can be read answers with what
\* the archive holds or with its own 502, sends nothing upstream and leaves the
\* archive as it was, for all requests, patterns and clients (HandleRequest).
THEOREM OfflineHolds ==
    ASSUME Mode = "offline", StorageFaults = FALSE, IntactArchives
    PROVE  Spec => []OfflineReplay
<1>1. Init => OfflineInv
  BY DEF Init, OfflineInv, OfflineAt
<1>2. IndInv /\ OfflineInv /\ [Next]_vars => OfflineInv'
  BY OfflineNext
<1>3. OfflineInv => OfflineReplay
  BY DEF OfflineInv, OfflineAt, OfflineReplay, Answered, OwnOrArchived, Key
<1> QED
  BY <1>1, <1>2, <1>3, Invariance, PTL DEF Spec

-----------------------------------------------------------------------------
(* Revalidation.                                                             *)

\* No request spells out the default port, as those of the MITM path do: for them
\* the property fails, since the patterns meet another string (needsRevalidation).
PlainPorts == \A r \in Requests : r.url # NoURL => r.url.port # "default"

\* Only ServeHit takes a client from reading the cached body to an answer.
LEMMA HitsAreServed ==
    ASSUME TypeOK, NEW c \in Clients, [Next]_vars, pc[c] = "readBody", pc'[c] = "response"
    PROVE  ServeHit(c)
<1>1. pc \in [Clients -> PCs]
  BY DEF TypeOK
<1>2. PICK d \in Clients : Arrive(d) \/ RoundTrip(d) \/ ProxyStep(d)
  BY DEF Next, vars, Tick, Restart
<1>3. \E p : pc' = [pc EXCEPT ![d] = p]
  <2>1. ASSUME NEW p, Goto(d, p) PROVE \E q : pc' = [pc EXCEPT ![d] = q]
    BY <2>1 DEF Goto
  <2>2. CASE Arrive(d)
    BY <2>1, <2>2 DEF Arrive, DropNilURL, RefuseBypass, ForwardBypass, Lookup, Begin
  <2>3. CASE RoundTrip(d)
    BY <2>1, <2>3 DEF RoundTrip, Answer, Fail
  <2>4. CASE HandleRequestStep(d)
    BY <2>1, <2>4 DEF HandleRequestStep, ReadMeta, MissMeta, GetBody, MissBody, Miss,
                      EvictMismatchedHit, DeferToUpstream, ServeHit
  <2>5. CASE DeleteStep(d)
    BY <2>1, <2>5 DEF DeleteStep, DeleteExists, DeleteNotFound, DeleteMeta, DeleteBody,
                      DeleteFails, AfterDelete
  <2>6. CASE HandleResponseStep(d)
    BY <2>1, <2>6 DEF HandleResponseStep, ReturnUntouched, serveFallback, NotCached,
                      ServeTruncated, RejectMismatch, ServeHeadUncached, BeginPut, Return
  <2>7. CASE PutMove(d)
    BY <2>1, <2>7 DEF PutMove, PutMetaCreate, PutMetaWrite, PutBodyCreate, PutBodyWrite,
                      PutFails, PutStep, PutEnds
  <2> QED
    BY <1>2, <2>2, <2>3, <2>4, <2>5, <2>6, <2>7 DEF ProxyStep
<1>4. d = c
  BY <1>1, <1>3
<1>5. CASE Arrive(c) \/ RoundTrip(c) \/ DeleteStep(c) \/ HandleResponseStep(c) \/ PutMove(c)
  <2>1. pc[c] # "readBody"
    BY <1>5 DEF Arrive, DropNilURL, RefuseBypass, ForwardBypass, Lookup, Begin, RoundTrip, Answer,
                Fail, DeleteStep, DeleteExists, DeleteNotFound, DeleteMeta, DeleteBody,
                DeleteFails, HandleResponseStep, ReturnUntouched, serveFallback, NotCached,
                ServeTruncated, RejectMismatch, ServeHeadUncached, BeginPut, Buffered,
                HandleResponse, PutMove, PutMetaCreate, PutMetaWrite, PutBodyCreate,
                PutBodyWrite, PutFails, PutStep, PutEnds
  <2> QED
    BY <2>1
<1>6. CASE HandleRequestStep(c)
  BY <1>1, <1>6 DEF HandleRequestStep, ReadMeta, MissMeta, GetBody, MissBody,
                    EvictMismatchedHit, DeferToUpstream, Goto
<1> QED
  BY <1>2, <1>4, <1>5, <1>6 DEF ProxyStep

\* An entry that matches a revalidate pattern is answered straight from the cache
\* only while it is younger than the interval at the moment of the answer, however
\* long ago its metadata was read (needsRevalidation).
THEOREM StaleHitsHold ==
    ASSUME PlainPorts
    PROVE  Spec => NoStaleHit
<1>1. ASSUME IndInv, [Next]_vars, NEW c \in Clients, pc[c] = "readBody", pc'[c] = "response",
             Mode # "offline", Interval > 0,
             \E re \in RevalidatePatterns : Canonical(req[c].url) \in re
      PROVE  clock - gotMeta[c].cachedAt < Interval
  <2>1. ServeHit(c)
    BY <1>1, HitsAreServed DEF IndInv
  <2>2. gotMeta[c] \in Metas /\ req[c].url # NoURL /\ req[c] \in Requests
    BY <1>1 DEF IndInv, LocalInv, Local, Flow, TypeOK
  <2>3. String(req[c].url) = Canonical(req[c].url)
    BY <2>2, RequestAssumption DEF PlainPorts, String, Canonical, Host, Ports
  <2>4. ~(clock - gotMeta[c].cachedAt >= Interval)
    BY <1>1, <2>1, <2>3 DEF ServeHit, needsRevalidation, MatchAny
  <2>5. clock \in Int /\ gotMeta[c].cachedAt \in Int /\ Interval \in Int
    BY <1>1, <2>2, MetaAssumption, ConfigAssumption DEF IndInv, TypeOK, LongAgo
  <2> QED
    BY <2>4, <2>5
<1>2. IndInv /\ [Next]_vars => [\A c \in Clients :
          (/\ pc[c] = "readBody" /\ pc'[c] = "response"
           /\ Mode # "offline" /\ Interval > 0
           /\ \E re \in RevalidatePatterns : Canonical(req[c].url) \in re)
          => clock - gotMeta[c].cachedAt < Interval]_vars
  BY <1>1
<1> QED
  BY <1>2, Invariance, PTL DEF Spec, NoStaleHit
=============================================================================
