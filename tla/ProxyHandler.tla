---------------------------- MODULE ProxyHandler ----------------------------
(***************************************************************************)
(* The request path of escrow-proxy: Handler.HandleRequest and             *)
(* Handler.HandleResponse (internal/proxy/handler.go) as goproxy runs them *)
(* for several client connections at once, the upstream transport between  *)
(* them (transport.go), and every storage call they make on the two files  *)
(* of a cache entry (module EntryStore).                                   *)
(*                                                                         *)
(* A client is a goroutine that serves one request after another.  Code    *)
(* between two accesses to shared state (the store, the clock, the         *)
(* upstream) is one atomic step.                                           *)
(***************************************************************************)
EXTENDS EntryStore, Sequences

CONSTANTS
    Requests,            \* the requests clients may send
    NoURL,               \* req.URL = nil: goproxy could not parse the inner URL
    PathDigest,          \* url name -> the content its path pins, or NoDigest
    NoDigest,
    Mode,                \* "serve", "record" or "offline"
    Methods,             \* the methods that are cached; {} means all of them
    ExcludePatterns,     \* each pattern is the set of URL strings it matches
    RevalidatePatterns,
    Interval,            \* the revalidate interval, in clock ticks
    VerifyDigests,       \* BOOLEAN: verify_digest.enabled
    OnMismatch,          \* "error" or "passthrough"
    Statuses,            \* the status codes upstream may answer with
    NoResponse,
    MaxClock,            \* bound on the clock
    InitialStores        \* what the store may hold when the proxy starts

VARIABLES
    clock,      \* time.Now, the clock of needsRevalidation and of CachedAt
    pc,         \* where in the two handlers each client's goroutine is
    req,        \* the request
    userData,   \* ctx.UserData # nil
    gotMeta,    \* the metadata and
    gotBody,    \*   the bytes that cache.Get returned
    armed,      \* state.fallbackMeta # nil: gotMeta and gotBody are the fallback
    resp,       \* the response
    newMeta,    \* the metadata that cache.Put writes
    records,    \* the status codes passed to recordRequest
    errs        \* the number of upstream errors recorded

requestVars == <<req, userData, gotMeta, gotBody, armed, resp, newMeta, records, errs>>
vars == <<clock, pc, requestVars, storeVars>>

BadGateway == 502

\* Content-Length: no usable header, zero or negative, or a positive number.
Lengths == {"none", "nonpositive", "positive"}

\* The zero CachedAt of an entry written before the field existed.
LongAgo == 0 - Interval

ASSUME ConfigAssumption ==
    /\ Mode \in {"serve", "record", "offline"}
    /\ ReadOnly = (Mode = "offline")
    /\ VerifyDigests \in BOOLEAN
    /\ OnMismatch \in {"error", "passthrough"}
    /\ Interval \in Nat
    /\ MaxClock \in Nat

ASSUME StatusAssumption == Statuses \subseteq 100..599

ASSUME MetaAssumption ==
    Metas = [status : Statuses, length : Lengths, cachedAt : {LongAgo} \cup (0..MaxClock)]

Origins == {"cache", "upstream", "proxy"}

\* The code from which a response is served is kept in origin, for the
\* properties only; cut says that reading its body will fail half way.
Responses ==
    [status : Statuses \cup {BadGateway}, body : Bodies, length : Lengths,
     cut : BOOLEAN, marked : BOOLEAN, origin : Origins]

ASSUME NoResponseAssumption == NoResponse \notin Responses

-----------------------------------------------------------------------------
(* Pure parts of the handler.  A URL is [name, port]: name stands for scheme, *)
(* host and path; port is "none", the scheme's "default", or "other".  As a   *)
(* string, each URL value is itself distinct: String keeps the port.          *)

Host(name)   == [name |-> name, port |-> "none"]
String(u)    == [name |-> u.name, port |-> u.port]

\* Mutant: the MITM path's ":443" stays in the URL.
KeepPort(u) == String(u)

normalizeMatchURL(u) == IF u.port = "default" THEN Host(u.name) ELSE String(u)

MatchAny(patterns, s) == \E re \in patterns : s \in re

bypass(r) ==
    \/ Methods # {} /\ r.method \notin Methods
    \/ MatchAny(ExcludePatterns, normalizeMatchURL(r.url))

\* sha256 over the method, the URL string, the selected headers in order and
\* the body: requests differing only in other headers share an entry.
ComputeCacheKey(r) == [method |-> r.method, url |-> String(r.url), selected |-> r.selected]

Ports == {"none", "default", "other"}

ASSUME RequestAssumption ==
    /\ Requests # {}
    /\ \A r \in Requests : r.url # NoURL =>
           /\ r.url \in [name : DOMAIN PathDigest, port : Ports]
           /\ ComputeCacheKey(r) \in Keys

ASSUME DigestAssumption ==
    /\ NoDigest \notin Bodies
    /\ PathDigest \in [DOMAIN PathDigest -> Contents \cup {NoDigest}]

\* Mutant: an entry exactly as old as the interval counts as fresh.
StaleWhenOlder(s, m) ==
    /\ Interval > 0
    /\ MatchAny(RevalidatePatterns, s)
    /\ clock - m.cachedAt > Interval

needsRevalidation(s, m) ==
    /\ Interval > 0
    /\ MatchAny(RevalidatePatterns, s)
    /\ clock - m.cachedAt >= Interval

ExtractOCIDigest(r) == PathDigest[r.url.name]

\* Mutant: any whole body passes.
AcceptWhole(b, digest) == digest = NoDigest \/ b \in Contents

\* sha256 tells bodies apart, so a digest is the body it is the hash of.
VerifyDigest(b, digest) == digest = NoDigest \/ b = digest

Mismatch(r, b) ==
    /\ VerifyDigests
    /\ r.method # "HEAD"
    /\ ~VerifyDigest(b, ExtractOCIDigest(r))

Cacheable(status) == status >= 200 /\ status < 400
Is2xx(status)     == status >= 200 /\ status < 300

buildResponse(r, m, b) ==
    [status |-> m.status, body |-> b,
     length |-> IF r.method = "HEAD" THEN m.length ELSE "positive",
     cut |-> FALSE, marked |-> FALSE, origin |-> "cache"]

\* goproxy.NewResponse(req, "text/plain", http.StatusBadGateway, ...)
Refusal == [status |-> BadGateway, body |-> Empty, length |-> "positive",
            cut |-> FALSE, marked |-> FALSE, origin |-> "proxy"]

setBufferedBody(s) == [s EXCEPT !.length = "positive", !.cut = FALSE]

-----------------------------------------------------------------------------
(* What the configuration asks for, for the assumptions and the properties.  *)

\* The request names its content by digest and the proxy is to verify it.
Pinned(method, url) ==
    /\ VerifyDigests
    /\ method # "HEAD"
    /\ PathDigest[url.name] # NoDigest

\* What an operator means by an exclude pattern: patterns are written against
\* the host without its default port, on whichever path the request comes in.
Canonical(u) == IF u.port = "other" THEN u ELSE Host(u.name)

Excluded(method, url) ==
    \/ Methods # {} /\ method \notin Methods
    \/ \E re \in ExcludePatterns : Canonical(url) \in re

\* The store the proxy starts with was left by a proxy with the same patterns:
\* no entry of an excluded request, no failure and no HEAD without a length.
\* Bodies may be anything.
ASSUME InitialStoresAssumption == \A s \in InitialStores :
    /\ s.meta \in [Keys -> MetaObjects]
    /\ s.body \in [Keys -> BodyObjects]
    /\ \A k \in Keys :
        /\ Excluded(k.method, k.url) => s.meta[k] = NoObject /\ s.body[k] = NoObject
        /\ s.meta[k] \in Metas =>
              /\ Cacheable(s.meta[k].status)
              /\ k.method = "HEAD" => s.meta[k].length = "positive"

-----------------------------------------------------------------------------
Init ==
    /\ \E s \in InitialStores : meta = s.meta /\ body = s.body
    /\ handle = [c \in Clients |-> NoFile]
    /\ held = [c \in Clients |-> Empty]
    /\ clock = 0
    /\ pc = [c \in Clients |-> "idle"]
    /\ req = [c \in Clients |-> CHOOSE r \in Requests : TRUE]   \* not yet read
    /\ userData = [c \in Clients |-> FALSE]
    /\ gotMeta = [c \in Clients |-> NoObject]
    /\ gotBody = [c \in Clients |-> Empty]
    /\ armed = [c \in Clients |-> FALSE]
    /\ resp = [c \in Clients |-> NoResponse]
    /\ newMeta = [c \in Clients |-> NoObject]
    /\ records = [c \in Clients |-> <<>>]
    /\ errs = [c \in Clients |-> 0]

Key(c) == ComputeCacheKey(req[c])

Goto(c, next) == pc' = [pc EXCEPT ![c] = next]

\* recordRequest: one observation of the request counter and histogram.
recordRequest(c, status) == records' = [records EXCEPT ![c] = Append(@, status)]

-----------------------------------------------------------------------------
(* HandleRequest *)

\* A new request on the connection, and HandleRequest up to cache.Get.
Begin(c, r, keyed, answer, recorded, next) ==
    /\ pc[c] \in {"idle", "done"}
    /\ Goto(c, next)
    /\ req' = [req EXCEPT ![c] = r]
    /\ userData' = [userData EXCEPT ![c] = keyed]
    /\ resp' = [resp EXCEPT ![c] = answer]
    /\ records' = [records EXCEPT ![c] = recorded]
    /\ gotMeta' = [gotMeta EXCEPT ![c] = NoObject]
    /\ gotBody' = [gotBody EXCEPT ![c] = Empty]
    /\ armed' = [armed EXCEPT ![c] = FALSE]
    /\ newMeta' = [newMeta EXCEPT ![c] = NoObject]
    /\ errs' = [errs EXCEPT ![c] = 0]
    /\ UNCHANGED <<clock, storeVars>>

\* req.URL == nil: goproxy logs "Illegal URL" and closes the connection.
DropNilURL(c, r) ==
    /\ r.url = NoURL
    /\ Begin(c, r, FALSE, NoResponse, <<>>, "done")

RefuseBypass(c, r) ==
    /\ r.url # NoURL
    /\ bypass(r)
    /\ Mode = "offline"
    /\ Begin(c, r, FALSE, Refusal, <<BadGateway>>, "response")

ForwardBypass(c, r) ==
    /\ r.url # NoURL
    /\ bypass(r)
    /\ Mode # "offline"
    /\ Begin(c, r, FALSE, NoResponse, <<0>>, "upstream")

Lookup(c, r) ==
    /\ r.url # NoURL
    /\ ~bypass(r)
    /\ Begin(c, r, TRUE, NoResponse, <<>>, "readMeta")

\* Mutant: a miss is forwarded in offline mode too.
MissForwards(c) == Goto(c, "upstream") /\ UNCHANGED <<clock, requestVars>>

\* cache.Get failed, for whatever reason.
Miss(c) ==
    \/ /\ Mode = "offline"
       /\ resp' = [resp EXCEPT ![c] = Refusal]
       /\ recordRequest(c, BadGateway)
       /\ userData' = [userData EXCEPT ![c] = FALSE]
       /\ Goto(c, "response")
       /\ UNCHANGED <<clock, req, gotMeta, gotBody, armed, newMeta, errs>>
    \/ /\ Mode # "offline"
       /\ Goto(c, "upstream")
       /\ UNCHANGED <<clock, requestVars>>

\* cache.Get: read and unmarshal <key>.meta.
ReadMeta(c) ==
    /\ pc[c] = "readMeta"
    /\ Unmarshals(meta[Key(c)])
    /\ gotMeta' = [gotMeta EXCEPT ![c] = meta[Key(c)]]
    /\ Goto(c, "openBody")
    /\ UNCHANGED <<clock, req, userData, gotBody, armed, resp, newMeta, records, errs, storeVars>>

MissMeta(c) ==
    /\ pc[c] = "readMeta"
    /\ ~Unmarshals(meta[Key(c)]) \/ StorageFaults
    /\ Miss(c)
    /\ UNCHANGED storeVars

\* cache.Get: open <key>.body.
GetBody(c) ==
    /\ pc[c] = "openBody"
    /\ OpenBody(c, Key(c))
    /\ Goto(c, "readBody")
    /\ UNCHANGED <<clock, requestVars>>

\* Mutant: a reader waits for the body that the metadata announces.
AwaitBody(c) == pc[c] = "openBody" /\ body[Key(c)] = NoObject /\ UNCHANGED vars

MissBody(c) ==
    /\ pc[c] = "openBody"
    /\ body[Key(c)] = NoObject \/ StorageFaults
    /\ Miss(c)
    /\ UNCHANGED storeVars

\* io.ReadAll of the body cache.Get opened, and what HandleRequest does next.
ReadBody(c, b) ==
    /\ pc[c] = "readBody"
    /\ b \in ReadResults(c, Key(c))
    /\ gotBody' = [gotBody EXCEPT ![c] = b]
    /\ CloseFile(c)

EvictMismatchedHit(c) == \E b \in Bodies :
    /\ ReadBody(c, b)
    /\ Mismatch(req[c], b)
    /\ Goto(c, "delExists")
    /\ UNCHANGED <<clock, req, userData, gotMeta, armed, resp, newMeta, records, errs>>

DeferToUpstream(c) == \E b \in Bodies :
    /\ ReadBody(c, b)
    /\ ~Mismatch(req[c], b)
    /\ Mode # "offline"
    /\ needsRevalidation(String(req[c].url), gotMeta[c])
    /\ armed' = [armed EXCEPT ![c] = TRUE]
    /\ Goto(c, "upstream")
    /\ UNCHANGED <<clock, req, userData, gotMeta, resp, newMeta, records, errs>>

ServeHit(c) == \E b \in Bodies :
    /\ ReadBody(c, b)
    /\ ~Mismatch(req[c], b)
    /\ Mode = "offline" \/ ~needsRevalidation(String(req[c].url), gotMeta[c])
    /\ resp' = [resp EXCEPT ![c] = buildResponse(req[c], gotMeta[c], b)]
    /\ recordRequest(c, gotMeta[c].status)
    /\ userData' = [userData EXCEPT ![c] = FALSE]
    /\ Goto(c, "response")
    /\ UNCHANGED <<clock, req, gotMeta, armed, newMeta, errs>>

-----------------------------------------------------------------------------
(* cache.Delete, called by both handlers; its error is dropped.  Then the    *)
(* request handler forwards upstream (resp is still unset) and the response  *)
(* handler records and returns the response it has chosen.                   *)

AfterDelete(c) ==
    /\ IF resp[c] = NoResponse
       THEN Goto(c, "upstream") /\ UNCHANGED records
       ELSE Goto(c, "done") /\ recordRequest(c, resp[c].status)
    /\ UNCHANGED <<clock, req, userData, gotMeta, gotBody, armed, resp, newMeta, errs>>

DeleteExists(c) ==
    /\ pc[c] = "delExists"
    /\ meta[Key(c)] # NoObject
    /\ Goto(c, "delMeta")
    /\ UNCHANGED <<clock, requestVars, storeVars>>

DeleteNotFound(c) ==
    /\ pc[c] = "delExists"
    /\ meta[Key(c)] = NoObject \/ StorageFaults
    /\ AfterDelete(c)
    /\ UNCHANGED storeVars

DeleteMeta(c) ==
    /\ pc[c] = "delMeta"
    /\ RemoveMeta(Key(c))
    /\ Goto(c, "delBody")
    /\ UNCHANGED <<clock, requestVars>>

DeleteBody(c) ==
    /\ pc[c] = "delBody"
    /\ RemoveBody(Key(c))
    /\ AfterDelete(c)

DeleteFails(c) ==
    /\ pc[c] \in {"delMeta", "delBody"}
    /\ RemoveFails
    /\ AfterDelete(c)

-----------------------------------------------------------------------------
(* redirectFollower.RoundTrip.  Upstream is external: it may answer with any *)
(* status and body, and the connection may break while the body is read.     *)

\* Only a HEAD's Content-Length is ever looked at; "none" stands for any other.
UpstreamResponses(r) ==
    [status : Statuses, cut : {FALSE}, marked : {FALSE}, origin : {"upstream"},
     body   : IF r.method = "HEAD" THEN {Empty} ELSE Contents,
     length : IF r.method = "HEAD" THEN Lengths ELSE {"none"}]
    \cup
    [status : Statuses, cut : {TRUE}, marked : {FALSE}, origin : {"upstream"},
     body   : IF r.method = "HEAD" THEN {} ELSE {Damaged}, length : {"none"}]

\* The 502 that the transport makes of an error of http.Client.Do.
UpstreamError == [Refusal EXCEPT !.marked = TRUE, !.origin = "upstream"]

Answer(c) ==
    /\ pc[c] = "upstream"
    /\ \E s \in UpstreamResponses(req[c]) : resp' = [resp EXCEPT ![c] = s]
    /\ Goto(c, "response")
    /\ UNCHANGED <<clock, req, userData, gotMeta, gotBody, armed, newMeta, records, errs, storeVars>>

Fail(c) ==
    /\ pc[c] = "upstream"
    /\ resp' = [resp EXCEPT ![c] = UpstreamError]
    /\ errs' = [errs EXCEPT ![c] = @ + 1]
    /\ Goto(c, "response")
    /\ UNCHANGED <<clock, req, userData, gotMeta, gotBody, armed, newMeta, records, storeVars>>

RoundTrip(c) == Answer(c) \/ Fail(c)

-----------------------------------------------------------------------------
(* HandleResponse.  goproxy also runs it on responses of HandleRequest.      *)

\* ctx.UserData == nil.
ReturnUntouched(c) ==
    /\ pc[c] = "response"
    /\ ~userData[c]
    /\ Goto(c, "done")
    /\ UNCHANGED <<clock, requestVars, storeVars>>

\* Mutant: a 502 that the transport made is counted again.
CountEvery5xx(c) ==
    /\ pc[c] = "response"
    /\ userData[c]
    /\ errs' = IF resp[c].status >= 500 THEN [errs EXCEPT ![c] = @ + 1] ELSE errs
    /\ UNCHANGED <<clock, req, userData, gotMeta, gotBody, armed, storeVars>>

\* The marker is stripped; a 5xx that the transport did not make is counted.
HandleResponse(c) ==
    /\ pc[c] = "response"
    /\ userData[c]
    /\ errs' = IF resp[c].status >= 500 /\ ~resp[c].marked
               THEN [errs EXCEPT ![c] = @ + 1] ELSE errs
    /\ UNCHANGED <<clock, req, userData, gotMeta, gotBody, armed, storeVars>>

Stripped(s) == [s EXCEPT !.marked = FALSE]

Return(c, s) ==
    /\ resp' = [resp EXCEPT ![c] = s]
    /\ recordRequest(c, s.status)
    /\ Goto(c, "done")
    /\ UNCHANGED newMeta

\* Mutants: a refresh cut short counts as one; so does a redirect.
RefreshMayBeCut(s)   == ~Is2xx(s.status)
RefreshMayBe3xx(s)   == ~Cacheable(s.status) \/ s.cut

\* A refresh fails when it is not a whole 2xx response.
RefreshFailed(s) == ~Is2xx(s.status) \/ s.cut

FallsBack(c) == armed[c] /\ RefreshFailed(resp[c])

serveFallback(c) ==
    /\ HandleResponse(c)
    /\ FallsBack(c)
    /\ Return(c, buildResponse(req[c], gotMeta[c], gotBody[c]))

NotCached(c) ==
    /\ HandleResponse(c)
    /\ ~FallsBack(c)
    /\ ~Cacheable(resp[c].status)
    /\ Return(c, Stripped(resp[c]))

ServeTruncated(c) ==
    /\ HandleResponse(c)
    /\ ~FallsBack(c)
    /\ Cacheable(resp[c].status)
    /\ resp[c].cut
    /\ Return(c, setBufferedBody(Stripped(resp[c])))

\* A whole response with a status that may be cached, read into memory.
Buffered(c) ==
    /\ HandleResponse(c)
    /\ ~FallsBack(c)
    /\ Cacheable(resp[c].status)
    /\ ~resp[c].cut

RejectMismatch(c) ==
    /\ Buffered(c)
    /\ Mismatch(req[c], resp[c].body)
    /\ resp' = [resp EXCEPT ![c] = IF OnMismatch = "error" THEN Refusal ELSE Stripped(@)]
    /\ Goto(c, "delExists")
    /\ UNCHANGED <<newMeta, records>>

\* Mutant: only a missing Content-Length is noticed.
LacksHeader(r, s) == r.method = "HEAD" /\ s.length = "none"

\* Only a HEAD with a positive Content-Length is stored.
LacksLength(r, s) == r.method = "HEAD" /\ s.length # "positive"

ServeHeadUncached(c) ==
    /\ Buffered(c)
    /\ ~Mismatch(req[c], resp[c].body)
    /\ LacksLength(req[c], resp[c])
    /\ Return(c, Stripped(resp[c]))

BeginPut(c) ==
    /\ Buffered(c)
    /\ ~Mismatch(req[c], resp[c].body)
    /\ ~LacksLength(req[c], resp[c])
    /\ newMeta' = [newMeta EXCEPT ![c] =
           [status |-> resp[c].status, length |-> resp[c].length, cachedAt |-> clock]]
    /\ resp' = [resp EXCEPT ![c] = Stripped(@)]
    /\ Goto(c, "createMeta")
    /\ UNCHANGED records

-----------------------------------------------------------------------------
(* cache.Put: <key>.meta and then <key>.body; an error ends it and is only   *)
(* logged, and the response is returned either way.                          *)

PutStep(c, at, next) ==
    /\ pc[c] = at
    /\ Goto(c, next)
    /\ UNCHANGED <<clock, requestVars>>

\* Mutant: a stored response is not counted.
PutEndsUncounted(c, at) == PutStep(c, at, "done")

PutEnds(c, at) ==
    /\ pc[c] = at
    /\ Goto(c, "done")
    /\ recordRequest(c, resp[c].status)
    /\ UNCHANGED <<clock, req, userData, gotMeta, gotBody, armed, resp, newMeta, errs>>

PutMetaCreate(c) == PutStep(c, "createMeta", "writeMeta") /\ CreateMeta(c, Key(c))
PutMetaWrite(c)  == PutStep(c, "writeMeta", "createBody") /\ WriteMeta(c, Key(c), newMeta[c])
PutBodyCreate(c) == PutStep(c, "createBody", "writeBody") /\ CreateBody(c, Key(c))
PutBodyWrite(c)  == PutEnds(c, "writeBody") /\ WriteBody(c, Key(c), resp[c].body)

PutFails(c) ==
    \/ PutEnds(c, "createMeta") /\ CreateFails(c)
    \/ PutEnds(c, "writeMeta") /\ WriteMetaFails(c, Key(c))
    \/ PutEnds(c, "createBody") /\ CreateFails(c)
    \/ PutEnds(c, "writeBody") /\ WriteBodyFails(c, Key(c))

-----------------------------------------------------------------------------
(* The environment. *)

Arrive(c) == \E r \in Requests :
    DropNilURL(c, r) \/ RefuseBypass(c, r) \/ ForwardBypass(c, r) \/ Lookup(c, r)

Tick ==
    /\ clock < MaxClock
    /\ clock' = clock + 1
    /\ UNCHANGED <<pc, requestVars, storeVars>>

\* The process is killed and started again; only the directory survives.
Restart ==
    /\ pc' = [c \in Clients |-> "idle"]
    /\ userData' = [c \in Clients |-> FALSE]
    /\ gotMeta' = [c \in Clients |-> NoObject]
    /\ gotBody' = [c \in Clients |-> Empty]
    /\ armed' = [c \in Clients |-> FALSE]
    /\ resp' = [c \in Clients |-> NoResponse]
    /\ newMeta' = [c \in Clients |-> NoObject]
    /\ records' = [c \in Clients |-> <<>>]
    /\ errs' = [c \in Clients |-> 0]
    /\ CloseAll
    /\ UNCHANGED <<clock, req>>

HandleRequestStep(c) ==
    \/ ReadMeta(c) \/ MissMeta(c) \/ GetBody(c) \/ MissBody(c)
    \/ EvictMismatchedHit(c) \/ DeferToUpstream(c) \/ ServeHit(c)

DeleteStep(c) ==
    \/ DeleteExists(c) \/ DeleteNotFound(c) \/ DeleteMeta(c) \/ DeleteBody(c) \/ DeleteFails(c)

HandleResponseStep(c) ==
    \/ ReturnUntouched(c) \/ serveFallback(c) \/ NotCached(c) \/ ServeTruncated(c)
    \/ RejectMismatch(c) \/ ServeHeadUncached(c) \/ BeginPut(c)

PutMove(c) ==
    \/ PutMetaCreate(c) \/ PutMetaWrite(c) \/ PutBodyCreate(c) \/ PutBodyWrite(c) \/ PutFails(c)

\* What the proxy's own goroutine does, whatever clients and upstream do.
ProxyStep(c) == HandleRequestStep(c) \/ DeleteStep(c) \/ HandleResponseStep(c) \/ PutMove(c)

Next ==
    \/ \E c \in Clients : Arrive(c) \/ RoundTrip(c) \/ ProxyStep(c)
    \/ Tick
    \/ Restart

Spec == Init /\ [][Next]_vars

\* Every goroutine keeps running: the scheduler is fair to the proxy's steps.
ProxyFairness == \A c \in Clients : WF_vars(ProxyStep(c))

\* Upstream answers every request or the connection breaks.
UpstreamFairness == \A c \in Clients : WF_vars(RoundTrip(c))

FairSpec == Spec /\ ProxyFairness /\ UpstreamFairness

-----------------------------------------------------------------------------
(* Properties. *)

PCs == {"idle", "readMeta", "openBody", "readBody", "delExists", "delMeta", "delBody",
        "upstream", "response", "createMeta", "writeMeta", "createBody", "writeBody", "done"}

\* Every variable keeps its type.
TypeOK ==
    /\ StoreTypeOK
    /\ clock \in 0..MaxClock
    /\ pc \in [Clients -> PCs]
    /\ req \in [Clients -> Requests]
    /\ userData \in [Clients -> BOOLEAN]
    /\ gotMeta \in [Clients -> Metas \cup {NoObject}]
    /\ gotBody \in [Clients -> BodyObjects]
    /\ armed \in [Clients -> BOOLEAN]
    /\ resp \in [Clients -> Responses \cup {NoResponse}]
    /\ newMeta \in [Clients -> Metas \cup {NoObject}]
    /\ records \in [Clients -> Seq(Statuses \cup {BadGateway, 0})]
    /\ errs \in [Clients -> Nat]

Answered(c) == pc[c] = "done" /\ resp[c] # NoResponse

\* However the clients' reads, writes and evictions of one entry interleave,
\* and whatever was on disk, a successful answer to a request that pins its
\* content by digest carries that content, except for a body that upstream cut
\* short and, under "passthrough", a whole wrong body straight from upstream
\* (handler.go, the two verification sites).
DigestServed == \A c \in Clients :
    (/\ Answered(c)
     /\ Pinned(req[c].method, req[c].url)
     /\ ~Excluded(req[c].method, req[c].url)
     /\ Cacheable(resp[c].status))
    => \/ resp[c].body = PathDigest[req[c].url.name]
       \/ /\ resp[c].origin = "upstream"
          /\ resp[c].body = Damaged \/ OnMismatch = "passthrough"

\* No step of the proxy puts a whole wrong body under a key whose URL pins the
\* content: what was refused at one site never reaches the store by another.
WrongBodyNeverStored == [][\A k \in Keys :
    Pinned(k.method, k.url) /\ body'[k] # body[k] =>
        body'[k] \in {NoObject, Empty, Damaged, PathDigest[k.url.name]}]_vars

\* A request that the operator excluded, by method or by pattern, never leaves
\* an entry behind, also when the MITM path spells its URL with ":443"
\* (bypass and normalizeMatchURL).
BypassUncached == \A k \in Keys :
    Excluded(k.method, k.url) => meta[k] = NoObject /\ body[k] = NoObject

\* A client whose stale entry was kept as a fallback is never answered with an
\* upstream error or a truncated body: it gets the fallback, a whole 2xx
\* refresh, or the proxy's refusal of a refresh with the wrong digest.
FallbackHonoured == \A c \in Clients :
    Answered(c) /\ armed[c] =>
        \/ resp[c] = buildResponse(req[c], gotMeta[c], gotBody[c])
        \/ resp[c].origin = "upstream" /\ Is2xx(resp[c].status) /\ resp[c].body # Damaged
        \/ resp[c] = Refusal /\ Pinned(req[c].method, req[c].url)

\* Each answered request is counted exactly once, under the status the client
\* got (0 when it was forwarded past the cache), and at most one upstream error
\* is counted for it (recordRequest, reqState, the transport's marker).
CountedOnce == \A c \in Clients :
    /\ Answered(c) =>
        /\ Len(records[c]) = 1
        /\ records[c][1] = IF Excluded(req[c].method, req[c].url) /\ Mode # "offline"
                           THEN 0 ELSE resp[c].status
    /\ errs[c] <= 1

\* A HEAD answered from the cache carries a Content-Length: a stored HEAD is
\* always valid (HandleResponse, the HEAD invariant).
HeadLength == \A c \in Clients :
    Answered(c) /\ req[c].method = "HEAD" /\ resp[c].origin = "cache"
        => resp[c].length = "positive"

\* Metadata in the store has a status that is worth replaying, and a refresh
\* that is on its way into the store is a 2xx.
OnlySuccessStored ==
    /\ \A k \in Keys : meta[k] \in Metas => Cacheable(meta[k].status)
    /\ \A c \in Clients : pc[c] \in {"createMeta", "writeMeta", "createBody", "writeBody"} =>
           Cacheable(newMeta[c].status) /\ (armed[c] => Is2xx(newMeta[c].status))

\* A URL that matches a revalidate pattern is answered straight from the cache
\* only while the entry is younger than the interval (needsRevalidation).
NoStaleHit == [][\A c \in Clients :
    (/\ pc[c] = "readBody" /\ pc'[c] = "response"
     /\ Mode # "offline" /\ Interval > 0
     /\ \E re \in RevalidatePatterns : Canonical(req[c].url) \in re)
    => clock - gotMeta[c].cachedAt < Interval]_vars

\* Offline, every answer is the archived entry of the request or the proxy's own
\* 502, nothing is sent upstream and the archive is not changed.
OfflineReplay ==
    /\ \E s \in InitialStores : meta = s.meta /\ body = s.body
    /\ \A c \in Clients :
        /\ pc[c] # "upstream"
        /\ Answered(c) => \/ resp[c] = Refusal
                          \/ resp[c] = buildResponse(req[c], meta[Key(c)], body[Key(c)])

\* Every request that reaches the proxy is finished, unless the process dies.
EventuallyAnswered == \A c \in Clients :
    (pc[c] \notin {"idle", "done"}) ~> (pc[c] \in {"idle", "done"})

-----------------------------------------------------------------------------
(* Claims of the repository that the code does not meet. *)

\* handler.go:156, "offline mode forbids upstream".
OfflineForbidsUpstream == Mode = "offline" => \A c \in Clients : pc[c] # "upstream"
=============================================================================
