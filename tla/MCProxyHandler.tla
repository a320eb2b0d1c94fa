--------------------------- MODULE MCProxyHandler ---------------------------
(***************************************************************************)
(* Instances of ProxyHandler for TLC: the requests, patterns and initial   *)
(* stores from which the configurations choose.                            *)
(***************************************************************************)
EXTENDS ProxyHandler

CONSTANTS v1, v2    \* two bodies; the digest of a pinned URL is that of v1

MCContents == {v1, v2}
OneContent == {v1}

URL(name, port) == [name |-> name, port |-> port]
Request(method, url) == [method |-> method, url |-> url, selected |-> "accept"]

Blob    == URL("registry/blobs/sha256:v1", "default")   \* through the MITM path
Tag     == URL("registry/manifests/latest", "none")     \* a mutable reference
MitmTag == URL("registry/manifests/latest", "default")
Token   == URL("registry/token", "default")

MCPathDigest == [n \in {Blob.name, Tag.name, Token.name} |->
                    IF n = Blob.name THEN v1 ELSE NoDigest]

GetBlob   == Request("GET", Blob)
HeadBlob  == Request("HEAD", Blob)
GetTag    == Request("GET", Tag)
GetMitm   == Request("GET", MitmTag)
HeadTag   == Request("HEAD", Tag)
GetToken  == Request("GET", Token)
NilURL    == Request("GET", NoURL)

BlobRequests    == {GetBlob, HeadBlob}
BlobOnce        == {GetBlob}
TagRequests     == {GetTag, GetToken}
OfflineRequests == {GetBlob, GetTag, HeadTag, GetToken, NilURL}
MitmRequests    == {GetMitm}

KeysOf(rs) == {ComputeCacheKey(r) : r \in {x \in rs : x.url # NoURL}}
MCKeys     == KeysOf(Requests)

MCMetas == [status : Statuses, length : Lengths, cachedAt : {LongAgo} \cup (0..MaxClock)]

\* Patterns as an operator writes them: against the host without its port.
TokenPattern == {{Host(Token.name)}}
TagPattern   == {{Host(Tag.name)}}
BothPattern  == {{Host(Tag.name)}, {Host(Blob.name), Blob}}

Store(entries) ==
    [meta |-> [k \in Keys |-> IF \E e \in entries : e.key = k
                              THEN (CHOOSE e \in entries : e.key = k).meta ELSE NoObject],
     body |-> [k \in Keys |-> IF \E e \in entries : e.key = k
                              THEN (CHOOSE e \in entries : e.key = k).body ELSE NoObject]]

Entry(r, b, at) ==
    [key |-> ComputeCacheKey(r), body |-> b,
     meta |-> [status |-> 200, cachedAt |-> at,
               length |-> IF r.method = "HEAD" THEN "positive" ELSE "none"]]

PoisonedStores == {Store({}), Store({Entry(GetBlob, v2, LongAgo)})}
StaleStores    == {Store({}), Store({Entry(GetTag, v1, LongAgo)}), Store({Entry(GetTag, v1, 0)})}
MitmStores     == {Store({Entry(GetMitm, v1, LongAgo)})}
Archives       == {Store({Entry(GetBlob, v1, 0), Entry(GetTag, v2, LongAgo)}),
                   Store({Entry(HeadTag, Empty, 0)})}
PoisonedArchive == {Store({Entry(GetBlob, v2, 0)})}
=============================================================================
