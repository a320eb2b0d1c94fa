---------------------------- MODULE BackfillProofs ----------------------------
(***************************************************************************)
(* Proof that a backfill changes nothing that the next Get returns, for    *)
(* any number of tiers and clients and any disagreement of the tiers.      *)
(*                                                                         *)
(* The tiers may disagree after failures, so that a Get that went past     *)
(* some of them could fill in what a slower tier holds over something that *)
(* a faster one has.  It cannot, as long as no Put or Delete runs: then    *)
(* there is a tier h that no Get goes past, and up to it the tiers hold    *)
(* one version b or nothing.                                               *)
(***************************************************************************)
EXTENDS TieredStoreProofs, WellFoundedInduction

\* A Get that reads part p and has met nothing that changes the entry.
AloneReader(j, p) == j.at \in {"get", "fill"} /\ j.alone /\ j.part = p

\* Beside such a Get there are only others like it and evictions.
ReadersMeet == \A c \in Clients : Reading(c) /\ job[c].alone =>
    \A d \in Clients \ {c} : job[d].at = "idle" \/ Evicting(d) \/ (Reading(d) /\ job[d].alone)

\* A call uses the whole store, or the local tier only.
Spans == \A c \in Clients : job[c].span \in {1, N}

Near(p, i, b) == tiers[i][p] \in {NoObject, b, Damaged}

\* Tier h has version b of part p, and the tiers between 1 and h have it or nothing.
HeldOn(p, h, b) ==
    /\ tiers[h][p] \in {b, Damaged}
    /\ \A i \in 2..(h - 1) : Near(p, i, b)

\* Get j has not gone past h; once it has gone past tier 1, that has b or nothing
\* either; and b is what it fills in.
ReaderOn(j, p, h, b) ==
    /\ j.tier <= h
    /\ j.tier > 1 => Near(p, 1, b)
    /\ j.at = "fill" => j.tier > 1 /\ j.data \in {b, Damaged}

AgreedOn(p, h, b) ==
    /\ HeldOn(p, h, b)
    /\ \A c \in Clients : AloneReader(job[c], p) => ReaderOn(job[c], p, h, b)

\* Only tier 1 can have the part, or the Gets agree on a tier and a version.
Agreed(p) ==
    \/ /\ \A i \in 2..N : tiers[i][p] = NoObject
       /\ \A c \in Clients : AloneReader(job[c], p) => job[c].at = "get"
    \/ \E h \in 2..N, b \in Values \ {NoObject} : AgreedOn(p, h, b)

FillInv ==
    /\ ReadersMeet
    /\ Spans
    /\ \A p \in Parts : Agreed(p)

-----------------------------------------------------------------------------
\* A set of naturals that is not empty has a least element.
LEMMA LeastExists ==
    ASSUME NEW S, S \subseteq Nat, S # {}
    PROVE  \E x \in S : \A y \in S : x <= y
<1>1. PICK x \in S : \A y \in S : ~(<<y, x>> \in OpToRel(<, Nat))
  BY NatLessThanWellFounded, WFMin
<1>2. \A y \in S : ~(y < x)
  BY <1>1 DEF OpToRel
<1> QED BY <1>2

\* With no Get under way the tiers always agree so far.
LEMMA QuietAgreed ==
    ASSUME TypeOK', NEW p \in Parts, \A c \in Clients : ~AloneReader(job[c], p)'
    PROVE  Agreed(p)'
<1>1. CASE \A i \in 2..N : tiers'[i][p] = NoObject
  BY <1>1 DEF Agreed
<1>2. CASE \E i \in 2..N : tiers'[i][p] # NoObject
  <2> DEFINE S == {i \in 2..N : tiers'[i][p] # NoObject}
  <2>1. S # {} /\ S \subseteq Nat
    BY <1>2, TierFacts
  <2>2. PICK h \in S : \A y \in S : h <= y
    BY <2>1, LeastExists
  <2>3. /\ h \in 2..N /\ h \in Tiers /\ tiers'[h][p] \in Values \ {NoObject}
        /\ \A i \in 2..(h - 1) : tiers'[i][p] = NoObject
    BY <2>2, TierFacts DEF TypeOK, Tiers
  <2>4. AgreedOn(p, h, tiers[h][p])'
    BY <2>3 DEF AgreedOn, HeldOn, Near
  <2> QED BY <2>3, <2>4 DEF Agreed
<1> QED BY <1>1, <1>2

\* The tiers of a part are as they were but for evictions, and the Gets are as they
\* were, or have started.
LEMMA KeptAgreed ==
    ASSUME TypeOK, NEW p \in Parts, Agreed(p),
           \A i \in 2..N : tiers'[i][p] = tiers[i][p],
           tiers'[1][p] \in {tiers[1][p], NoObject},
           \A c \in Clients : AloneReader(job[c], p)' =>
              \/ job'[c].at = "get" /\ job'[c].tier = 1
              \/ /\ AloneReader(job[c], p)
                 /\ job'[c].at = job[c].at /\ job'[c].tier = job[c].tier
                 /\ job'[c].data = job[c].data
    PROVE  Agreed(p)'
<1>1. CASE /\ \A i \in 2..N : tiers[i][p] = NoObject
           /\ \A c \in Clients : AloneReader(job[c], p) => job[c].at = "get"
  BY <1>1 DEF Agreed
<1>2. ASSUME NEW h \in 2..N, NEW b \in Values \ {NoObject}, AgreedOn(p, h, b)
      PROVE  Agreed(p)'
  <2>1. HeldOn(p, h, b)'
    BY <1>2, TierFacts DEF AgreedOn, HeldOn, Near
  <2>2. ASSUME NEW c \in Clients, AloneReader(job[c], p)'
        PROVE  ReaderOn(job[c], p, h, b)'
    <3>1. CASE job'[c].at = "get" /\ job'[c].tier = 1
      BY <3>1, TierFacts DEF ReaderOn
    <3>2. CASE /\ AloneReader(job[c], p)
               /\ job'[c].at = job[c].at /\ job'[c].tier = job[c].tier
               /\ job'[c].data = job[c].data
      BY <1>2, <3>2 DEF AgreedOn, ReaderOn, Near
    <3> QED BY <2>2, <3>1, <3>2
  <2>3. AgreedOn(p, h, b)'
    BY <2>1, <2>2 DEF AgreedOn
  <2> QED BY <2>3 DEF Agreed
<1> QED BY <1>1, <1>2 DEF Agreed

-----------------------------------------------------------------------------
(* Steps of a call that has started.                                         *)

\* How call j goes on: a reader stays one, and any other call does not become one.
Follows(c, j) ==
    /\ j \in Jobs
    /\ j.span \in {N, job[c].span}
    /\ \/ j.at = "idle"
       \/ j.at \in {"get", "fill"} /\ Reading(c) /\ j.alone = job[c].alone
       \/ /\ j.at \in {"put", "exists", "delete"}
          /\ job[c].at \in {"put", "exists", "delete"}
          /\ j.at = "put" => job[c].at = "put"
          /\ j.span = job[c].span

LEMMA SpansKept ==
    ASSUME TypeOK, Spans, NEW c \in Clients, NEW j, Follows(c, j), job' = [job EXCEPT ![c] = j]
    PROVE  Spans'
<1> SUFFICES ASSUME NEW d \in Clients PROVE job'[d].span \in {1, N}
  BY DEF Spans
<1>1. CASE d = c
  BY <1>1 DEF Follows, Spans, TypeOK
<1>2. CASE d # c
  BY <1>2 DEF Spans, TypeOK
<1> QED BY <1>1, <1>2

LEMMA MeetKept ==
    ASSUME TypeOK, ReadersMeet, NEW c \in Clients, NEW j, Follows(c, j),
           job' = [job EXCEPT ![c] = j]
    PROVE  ReadersMeet'
<1> SUFFICES ASSUME NEW d \in Clients, Reading(d)', job'[d].alone, NEW e \in Clients \ {d}
             PROVE  job'[e].at = "idle" \/ Evicting(e)' \/ (Reading(e)' /\ job'[e].alone)
  BY DEF ReadersMeet
<1>0. job'[c] = j /\ \A x \in Clients \ {c} : job'[x] = job[x]
  BY DEF TypeOK
<1>1. Reading(d) /\ job[d].alone
  BY <1>0 DEF Follows, Reading
<1>2. job[e].at = "idle" \/ Evicting(e) \/ (Reading(e) /\ job[e].alone)
  BY <1>1 DEF ReadersMeet
<1>3. CASE e # c
  BY <1>0, <1>2, <1>3 DEF Evicting, Reading
<1>4. CASE e = c
  BY <1>0, <1>2, <1>4 DEF Evicting, Reading, Follows
<1> QED BY <1>3, <1>4

\* Beside a call that is neither a Get nor the evict command, and beside a Get that
\* is not alone, no Get is alone, so there is nothing to agree on.
LEMMA QuietStep ==
    ASSUME TypeOK, TypeOK', ReadersMeet, NEW c \in Clients, NEW j, Follows(c, j),
           job' = [job EXCEPT ![c] = j],
           job[c].at # "idle", ~Evicting(c), ~(Reading(c) /\ job[c].alone)
    PROVE  \A p \in Parts : Agreed(p)'
<1>0. job'[c] = j /\ \A x \in Clients \ {c} : job'[x] = job[x]
  BY DEF TypeOK
<1>1. ASSUME NEW p \in Parts, NEW d \in Clients, AloneReader(job[d], p)' PROVE FALSE
  <2>1. Reading(d) /\ job[d].alone
    BY <1>0, <1>1 DEF AloneReader, Follows, Reading
  <2>2. d # c
    BY <2>1
  <2> QED BY <2>1, <2>2 DEF ReadersMeet
<1> QED BY <1>1, QuietAgreed

\* The evict command takes an object out of the local tier, at most.
LEMMA EvictStep ==
    ASSUME TypeOK, FillInv, NEW c \in Clients, NEW j, Follows(c, j),
           job' = [job EXCEPT ![c] = j], ~Reading(c),
           \A i \in 2..N, p \in Parts : tiers'[i][p] = tiers[i][p],
           \A p \in Parts : tiers'[1][p] \in {tiers[1][p], NoObject}
    PROVE  \A p \in Parts : Agreed(p)'
<1> SUFFICES ASSUME NEW p \in Parts PROVE Agreed(p)'
  OBVIOUS
<1>0. job'[c] = j /\ \A x \in Clients \ {c} : job'[x] = job[x]
  BY DEF TypeOK
<1>1. ASSUME NEW d \in Clients, AloneReader(job[d], p)'
      PROVE  AloneReader(job[d], p) /\ job'[d] = job[d]
  <2>1. d # c
    BY <1>0, <1>1 DEF AloneReader, Follows, Reading
  <2> QED BY <1>0, <1>1, <2>1 DEF AloneReader
<1>2. Agreed(p)
  BY DEF FillInv
<1> QED BY <1>1, <1>2, KeptAgreed

\* A Put or a Delete.
LEMMA WriterKeepsFill ==
    ASSUME IndInv, TypeOK', FillInv, NEW c \in Clients, Put(c) \/ Delete(c)
    PROVE  FillInv'
<1>0. /\ TypeOK /\ ReadersMeet /\ Spans /\ Shape(job[c]) /\ job[c] \in Jobs
      /\ tiers \in [Tiers -> [Parts -> Values]]
  BY DEF IndInv, FillInv, TypeOK, Shapes
<1>1. ~Reading(c) /\ job[c].at # "idle"
  BY DEF Put, Delete, PutPart, PutFails, PutTier, PutTierFails, ExistsTier, ExistsNext,
         DeletePart, DeleteFails, DeleteTier, DeleteTierFails, Reading
<1>2. Follows(c, Idle)
  BY IdleFacts, TierFacts DEF Follows, Idle
<1>3. ASSUME NEW j \in Jobs, j.span = job[c].span, job' = [job EXCEPT ![c] = j],
             \/ j.at = job[c].at
             \/ job[c].at = "exists" /\ j.at = "delete"
      PROVE  \E k : Follows(c, k) /\ job' = [job EXCEPT ![c] = k]
  <2>1. job[c].at \in {"put", "exists", "delete"}
    BY <1>0, <1>1 DEF Jobs, Reading
  <2> QED BY <1>3, <2>1 DEF Follows
<1>4. job[c].todo \in SUBSET Tiers /\ 1..job[c].span \in SUBSET Tiers /\ Tiers \in SUBSET Tiers
  BY <1>0, TierFacts DEF Jobs, Tiers
<1>5. \E k : Follows(c, k) /\ job' = [job EXCEPT ![c] = k]
  <2>1. CASE Return(c)
    BY <1>2, <2>1 DEF Return
  <2>2. ASSUME NEW i \in Tiers, PutTier(c, i) \/ PutTierFails(c, i)
                                \/ DeleteTier(c, i) \/ DeleteTierFails(c, i)
        PROVE  \E k : Follows(c, k) /\ job' = [job EXCEPT ![c] = k]
    <3>1. PICK f \in BOOLEAN : job' = [job EXCEPT ![c] = [job[c] EXCEPT !.todo = @ \ {i},
                                                                        !.failed = f]]
      <4>1. [job[c] EXCEPT !.todo = @ \ {i}]
              = [job[c] EXCEPT !.todo = @ \ {i}, !.failed = job[c].failed]
        BY <1>0 DEF Jobs
      <4>2. job[c].failed \in BOOLEAN
        BY <1>0 DEF Jobs
      <4> QED
        BY <2>2, <4>1, <4>2 DEF PutTier, PutTierFails, DeleteTier, DeleteTierFails, Go
    <3> DEFINE k == [job[c] EXCEPT !.todo = @ \ {i}, !.failed = f]
    <3>2. k \in Jobs /\ k.span = job[c].span /\ k.at = job[c].at
      BY <1>0 DEF Jobs
    <3> QED BY <1>3, <3>1, <3>2
  <2>3. ASSUME NEW T \in SUBSET Tiers, Go(c, [job[c] EXCEPT !.part = "body", !.todo = T])
        PROVE  \E k : Follows(c, k) /\ job' = [job EXCEPT ![c] = k]
    <3> DEFINE k == [job[c] EXCEPT !.part = "body", !.todo = T]
    <3>1. k \in Jobs /\ k.span = job[c].span /\ k.at = job[c].at
      BY <1>0 DEF Jobs, Parts
    <3> QED BY <1>3, <2>3, <3>1 DEF Go
  <2>4. CASE ExistsTier(c)
    <3> DEFINE k == [job[c] EXCEPT !.at = "delete", !.todo = 1..job[c].span]
    <3>1. k \in Jobs /\ k.span = job[c].span /\ k.at = "delete"
      BY <1>0, <1>4 DEF Jobs
    <3> QED BY <1>3, <2>4, <3>1 DEF Go, ExistsTier
  <2>5. CASE ExistsNext(c) /\ ~Return(c)
    <3> DEFINE k == [job[c] EXCEPT !.tier = @ + 1]
    <3>0. /\ job' = [job EXCEPT ![c] = k] /\ job[c].at = "exists" /\ job[c].tier # job[c].span
          /\ job[c].tier + 1 \in Tiers
      BY <1>0, <2>5, TierFacts DEF ExistsNext, Go, Shape, Jobs, Tiers
    <3>1. k \in Jobs /\ k.span = job[c].span /\ k.at = "exists"
      BY <1>0, <3>0 DEF Jobs
    <3> QED BY <1>3, <3>0, <3>1
  <2>6. CASE PutPart(c)
    BY <2>6, <2>1, <2>3, <1>4 DEF PutPart
  <2>7. CASE DeletePart(c)
    BY <2>7, <2>1, <2>3, <1>4 DEF DeletePart
  <2> QED BY <2>1, <2>2, <2>4, <2>5, <2>6, <2>7 DEF Put, Delete, PutFails, DeleteFails
<1>6. PICK j : Follows(c, j) /\ job' = [job EXCEPT ![c] = j]
  BY <1>5
<1>7. ReadersMeet' /\ Spans'
  BY <1>0, <1>6, MeetKept, SpansKept
<1>8. CASE ~Evicting(c)
  BY <1>0, <1>1, <1>6, <1>7, <1>8, QuietStep DEF FillInv
<1>9. CASE Evicting(c)
  <2>1. job[c].at \in {"exists", "delete"} /\ job[c].span = 1
    BY <1>0, <1>9, TierFacts DEF Evicting, Spans
  <2>2. \/ tiers' = tiers
        \/ \E i \in Tiers : i \in job[c].todo /\ job[c].at = "delete"
              /\ tiers' = [tiers EXCEPT ![i][job[c].part] = NoObject]
    BY <2>1 DEF Put, Delete, PutPart, PutFails, PutTier, PutTierFails, ExistsTier, ExistsNext,
                DeletePart, DeleteFails, DeleteTier, DeleteTierFails
  <2>3. job[c].at = "delete" => job[c].todo \subseteq {1}
    BY <1>0, <2>1 DEF Shape
  <2>4. /\ \A i \in 2..N, p \in Parts : tiers'[i][p] = tiers[i][p]
        /\ \A p \in Parts : tiers'[1][p] \in {tiers[1][p], NoObject}
    BY <1>0, <2>2, <2>3, TierFacts DEF Tiers
  <2> QED BY <1>0, <1>1, <1>6, <1>7, <2>4, EvictStep DEF FillInv
<1> QED BY <1>8, <1>9

-----------------------------------------------------------------------------
(* The steps of a Get.                                                       *)

\* Where Get j goes on to be j2, all but the skipping of a tier that failed.
ReadsTo(j, j2) ==
    /\ j2 \in Jobs
    /\ j2.span = N
    /\ j2.at # "idle" => j2.at \in {"get", "fill"} /\ j2.alone = j.alone
    /\ \/ j2.at = "idle"
       \/ j2.at = "get" /\ j2.tier = 1
       \/ /\ j.at = "get" /\ j2.at = "get"
          /\ j2.part = j.part /\ j2.tier = j.tier + 1
          /\ tiers[j.tier][j.part] = NoObject
       \/ /\ j.at = "get" /\ j2.at = "fill"
          /\ j2.part = j.part /\ j2.tier = j.tier /\ j.tier > 1
          /\ j2.data = tiers[j.tier][j.part] /\ j2.data # NoObject
       \/ /\ j.at = "fill" /\ j2.at = "fill"
          /\ j2.part = j.part /\ j2.tier = j.tier /\ j2.data = j.data

\* Get j writes what it has read, or damages what it meant to replace.
FillsIn(j) ==
    \/ tiers' = tiers
    \/ /\ j.at = "fill"
       /\ \E i \in 1..(j.tier - 1), v \in Values :
             /\ v \in {j.data, tiers[i][j.part], Damaged}
             /\ tiers' = [tiers EXCEPT ![i][j.part] = v]

LEMMA ReadFollows ==
    ASSUME NEW c \in Clients, Reading(c), NEW j, ReadsTo(job[c], j)
    PROVE  Follows(c, j)
BY DEF ReadsTo, Follows

\* Of the part it is not at, a Get changes nothing; at most it turns to it.
LEMMA OtherPart ==
    ASSUME TypeOK, NEW c \in Clients, NEW j, Reading(c), ReadsTo(job[c], j), FillsIn(job[c]),
           job' = [job EXCEPT ![c] = j], NEW p \in Parts, Agreed(p),
           p # job[c].part
    PROVE  Agreed(p)'
<1>0. /\ job'[c] = j /\ \A x \in Clients \ {c} : job'[x] = job[x]
      /\ job[c] \in Jobs /\ tiers \in [Tiers -> [Parts -> Values]]
  BY DEF TypeOK
<1>1. \A k \in Tiers : tiers'[k][p] = tiers[k][p]
  BY <1>0 DEF FillsIn
<1>2. ASSUME NEW d \in Clients, AloneReader(job[d], p)'
      PROVE  \/ job'[d].at = "get" /\ job'[d].tier = 1
             \/ AloneReader(job[d], p) /\ job'[d] = job[d]
  <2>1. CASE d = c
    BY <1>0, <1>2, <2>1 DEF AloneReader, ReadsTo
  <2>2. CASE d # c
    BY <1>0, <1>2, <2>2 DEF AloneReader
  <2> QED BY <2>1, <2>2
<1>3. (\A k \in 2..N : tiers'[k][p] = tiers[k][p]) /\ tiers'[1][p] = tiers[1][p]
  BY <1>1, TierFacts DEF Tiers
<1> QED BY <1>2, <1>3, KeptAgreed

\* A Get that is alone keeps the agreement on the part it is at.
LEMMA OnePart ==
    ASSUME TypeOK, NEW c \in Clients, NEW j, Reading(c), ReadsTo(job[c], j), FillsIn(job[c]),
           job' = [job EXCEPT ![c] = j], job[c].alone,
           NEW p, p = job[c].part, NEW h \in 2..N, NEW b \in Values \ {NoObject},
           AgreedOn(p, h, b)
    PROVE  AgreedOn(p, h, b)'
<1>0. /\ job'[c] = j /\ \A x \in Clients \ {c} : job'[x] = job[x]
      /\ job[c] \in Jobs /\ tiers \in [Tiers -> [Parts -> Values]]
      /\ p \in Parts /\ job[c].tier \in Tiers
      /\ h \in Tiers /\ h > 1 /\ h \in Int /\ job[c].tier \in Int /\ job[c].tier >= 1
  BY TierFacts DEF TypeOK, Jobs, Tiers
<1>1. AloneReader(job[c], p) /\ ReaderOn(job[c], p, h, b)
  BY DEF AgreedOn, AloneReader, Reading
<1>2. /\ tiers'[h][p] = tiers[h][p]
      /\ \A k \in Tiers : tiers'[k][p] = tiers[k][p] \/ tiers'[k][p] \in {b, Damaged}
  <2>1. CASE tiers' = tiers
    BY <2>1
  <2>2. CASE tiers' # tiers
    <3>1. PICK i \in 1..(job[c].tier - 1), v \in Values :
              /\ v \in {job[c].data, tiers[i][p], Damaged}
              /\ tiers' = [tiers EXCEPT ![i][p] = v]
      BY <2>2 DEF FillsIn
    <3>2. job[c].at = "fill" /\ job[c].tier <= h /\ job[c].data \in {b, Damaged}
      BY <1>1, <2>2 DEF FillsIn, ReaderOn
    <3>3. i # h
      BY <1>0, <3>1, <3>2
    <3> QED BY <1>0, <3>1, <3>2, <3>3
  <2> QED BY <2>1, <2>2
<1>3. HeldOn(p, h, b)'
  <2>1. \A k \in 2..(h - 1) : k \in Tiers
    BY <1>0, TierFacts DEF Tiers
  <2> QED BY <1>2, <2>1 DEF AgreedOn, HeldOn, Near
<1>4. Near(p, 1, b) => Near(p, 1, b)'
  BY <1>2, TierFacts DEF Near
<1>5. \A k \in 2..h : Near(p, k, b)
  BY <1>0 DEF AgreedOn, HeldOn, Near
<1>6. ASSUME NEW d \in Clients, AloneReader(job[d], p)'
      PROVE  ReaderOn(job[d], p, h, b)'
  <2>1. CASE d # c
    <3>1. job'[d] = job[d] /\ AloneReader(job[d], p)
      BY <1>0, <1>6, <2>1 DEF AloneReader
    <3> QED BY <1>4, <3>1 DEF AgreedOn, ReaderOn
  <2>2. CASE d = c
    <3>0. job'[d] = j
      BY <1>0, <2>2
    <3>1. CASE j.at = "get" /\ j.tier = 1
      BY <1>0, <3>0, <3>1 DEF ReaderOn
    <3>2. CASE /\ job[c].at = "get" /\ j.at = "get" /\ j.tier = job[c].tier + 1
               /\ tiers[job[c].tier][p] = NoObject
      <4>1. job[c].tier # h
        BY <3>2, ValueAssumption DEF AgreedOn, HeldOn
      <4>2. j.tier <= h
        BY <1>0, <1>1, <3>2, <4>1 DEF ReaderOn
      <4>3. Near(p, 1, b)
        BY <1>0, <1>1, <3>2 DEF ReaderOn, Near
      <4> QED BY <1>4, <3>0, <3>2, <4>2, <4>3 DEF ReaderOn
    <3>3. CASE /\ job[c].at = "get" /\ j.at = "fill" /\ j.tier = job[c].tier
               /\ job[c].tier > 1 /\ j.data = tiers[job[c].tier][p] /\ j.data # NoObject
      <4>1. job[c].tier <= h /\ Near(p, 1, b)
        BY <1>1, <3>3 DEF ReaderOn
      <4>2. j.data \in {b, Damaged}
        BY <1>0, <1>5, <3>3, <4>1 DEF Near
      <4> QED BY <1>4, <3>0, <3>3, <4>1, <4>2 DEF ReaderOn
    <3>4. CASE /\ job[c].at = "fill" /\ j.at = "fill" /\ j.tier = job[c].tier
               /\ j.data = job[c].data
      BY <1>1, <1>4, <3>0, <3>4 DEF ReaderOn
    <3>5. j.at # "idle"
      BY <1>6, <3>0 DEF AloneReader
    <3> QED BY <3>1, <3>2, <3>3, <3>4, <3>5 DEF ReadsTo
  <2> QED BY <2>1, <2>2
<1> QED BY <1>3, <1>6 DEF AgreedOn

LEMMA ReadStep ==
    ASSUME TypeOK, TypeOK', FillInv, NEW c \in Clients, NEW j, Reading(c),
           ReadsTo(job[c], j), FillsIn(job[c]), job' = [job EXCEPT ![c] = j]
    PROVE  FillInv'
<1>0. /\ job'[c] = j /\ \A x \in Clients \ {c} : job'[x] = job[x]
      /\ job[c] \in Jobs /\ tiers \in [Tiers -> [Parts -> Values]]
      /\ job[c].tier \in Tiers /\ job[c].tier \in Int /\ job[c].tier >= 1
      /\ job[c].tier <= N /\ N \in Int
  BY TierFacts DEF TypeOK, Jobs
<1>1. ReadersMeet' /\ Spans'
  BY ReadFollows, MeetKept, SpansKept DEF FillInv
<1>2. CASE ~job[c].alone
  <2>1. job[c].at # "idle" /\ ~Evicting(c) /\ ReadersMeet
    BY DEF Reading, Evicting, FillInv
  <2> QED BY <1>1, <1>2, <2>1, ReadFollows, QuietStep DEF FillInv
<1>3. CASE job[c].alone
  <2> SUFFICES ASSUME NEW p \in Parts PROVE Agreed(p)'
    BY <1>1 DEF FillInv
  <2>0. Agreed(p)
    BY DEF FillInv
  <2>1. CASE p # job[c].part
    BY <2>0, <2>1, OtherPart
  <2>2. ASSUME p = job[c].part, NEW h \in 2..N, NEW b \in Values \ {NoObject},
               AgreedOn(p, h, b)
        PROVE  Agreed(p)'
    BY <1>3, <2>2, OnePart DEF Agreed
  <2>3. CASE /\ p = job[c].part
             /\ \A i \in 2..N : tiers[i][p] = NoObject
             /\ \A d \in Clients : AloneReader(job[d], p) => job[d].at = "get"
    <3>1. job[c].at = "get"
      BY <1>3, <2>3 DEF AloneReader, Reading
    <3>2. tiers' = tiers
      BY <3>1 DEF FillsIn
    <3>3. j.at # "fill"
      <4> SUFFICES ASSUME job[c].tier > 1, tiers[job[c].tier][p] # NoObject PROVE FALSE
        BY <2>3, <3>1 DEF ReadsTo
      <4> QED BY <1>0, <2>3
    <3>4. ASSUME NEW d \in Clients, AloneReader(job[d], p)' PROVE job'[d].at = "get"
      BY <1>0, <2>3, <3>3, <3>4 DEF AloneReader
    <3> QED BY <2>3, <3>2, <3>4 DEF Agreed
  <2> QED BY <2>0, <2>1, <2>2, <2>3 DEF Agreed
<1> QED BY <1>2, <1>3

LEMMA ReturnReads == ASSUME NEW j PROVE ReadsTo(j, Idle)
BY IdleFacts DEF ReadsTo, Idle

LEMMA PartReadTo ==
    ASSUME IndInv, NEW c \in Clients, NEW v, PartRead(c, v)
    PROVE  \E j : ReadsTo(job[c], j) /\ job' = [job EXCEPT ![c] = j]
<1>1. CASE Return(c)
  BY <1>1, ReturnReads DEF Return
<1>2. CASE ~Return(c)
  <2> DEFINE j == [Idle EXCEPT !.at = "get", !.part = "body", !.tier = FirstTier,
                               !.alone = job[c].alone]
  <2>1. job[c].alone \in BOOLEAN
    BY DEF IndInv, TypeOK, Jobs
  <2>2. j \in Jobs /\ j.at = "get" /\ j.span = N /\ j.tier = 1 /\ j.alone = job[c].alone
    BY <2>1, TierFacts DEF Idle, Jobs, Parts, Values
  <2>3. job' = [job EXCEPT ![c] = j]
    BY <1>2 DEF PartRead, Go
  <2> QED BY <2>2, <2>3 DEF ReadsTo
<1> QED BY <1>1, <1>2

LEMMA GetKeepsFill ==
    ASSUME IndInv, TypeOK', FillInv, NEW c \in Clients, Get(c)
    PROVE  FillInv'
<1>0. /\ TypeOK /\ Shape(job[c]) /\ job[c] \in Jobs /\ job[c].tier \in Tiers
      /\ job[c].part \in Parts /\ tiers \in [Tiers -> [Parts -> Values]]
  BY DEF IndInv, TypeOK, Shapes, Jobs
<1>1. CASE NextTier(c) /\ tiers[job[c].tier][job[c].part] # NoObject /\ job[c].tier # N
  <2>1. /\ tiers' = tiers /\ job[c].at = "get"
        /\ \A d \in Clients : job'[d] = [job[d] EXCEPT !.tier = IF d = c THEN @ + 1 ELSE @,
                                                       !.alone = FALSE]
    <3> DEFINE absent == tiers[job[c].tier][job[c].part] = NoObject
    <3>1. /\ tiers' = tiers /\ job[c].at = "get"
          /\ job' = [d \in Clients |-> [job[d] EXCEPT !.tier = IF d = c THEN @ + 1 ELSE @,
                                                      !.alone = @ /\ absent]]
      BY <1>1 DEF NextTier
    <3>2. ~absent
      BY <1>1
    <3> HIDE DEF absent
    <3>3. \A d \in Clients : (job[d].alone /\ absent) = FALSE
      BY <3>2
    <3> QED BY <3>1, <3>3
  <2>2. ASSUME NEW d \in Clients PROVE ~job'[d].alone /\ job'[d].span = job[d].span
    <3>1. job[d] \in Jobs
      BY <1>0 DEF TypeOK
    <3>2. CASE d = c
      BY <2>1, <3>1, <3>2 DEF Jobs
    <3>3. CASE d # c
      BY <2>1, <3>1, <3>3 DEF Jobs
    <3> QED BY <3>2, <3>3
  <2>3. ReadersMeet' /\ Spans'
    BY <2>2 DEF FillInv, ReadersMeet, Spans
  <2>4. \A p \in Parts : Agreed(p)'
    BY <2>2, QuietAgreed DEF AloneReader
  <2> QED BY <2>3, <2>4 DEF FillInv
<1>2. CASE NextTier(c) /\ tiers[job[c].tier][job[c].part] = NoObject /\ job[c].tier # N
  <2> DEFINE j == [job[c] EXCEPT !.tier = @ + 1]
  <2>1. job[c].tier + 1 \in Tiers
    BY <1>0, <1>2, TierFacts DEF Tiers
  <2>2. job[c].at = "get" /\ job[c].span = N
    BY <1>0, <1>2 DEF NextTier, Shape
  <2>3. ReadsTo(job[c], j) /\ tiers' = tiers
    BY <1>0, <1>2, <2>1, <2>2 DEF ReadsTo, Jobs, NextTier
  <2>4. job' = [job EXCEPT ![c] = j]
    <3> DEFINE absent == tiers[job[c].tier][job[c].part] = NoObject
    <3>1. job' = [d \in Clients |-> [job[d] EXCEPT !.tier = IF d = c THEN @ + 1 ELSE @,
                                                   !.alone = @ /\ absent]]
      BY <1>2 DEF NextTier
    <3>2. absent
      BY <1>2
    <3> HIDE DEF absent
    <3>3. ASSUME NEW d \in Clients
          PROVE  [job[d] EXCEPT !.tier = IF d = c THEN @ + 1 ELSE @, !.alone = @ /\ absent]
                   = IF d = c THEN j ELSE job[d]
      <4>1. job[d] \in Jobs /\ (job[d].alone /\ absent) = job[d].alone
        BY <1>0, <3>2 DEF TypeOK, Jobs
      <4> QED BY <4>1 DEF Jobs
    <3> QED BY <1>0, <3>1, <3>3 DEF TypeOK
  <2> HIDE DEF j
  <2>5. Reading(c) /\ FillsIn(job[c])
    BY <2>2, <2>3 DEF FillsIn, Reading
  <2> QED BY <1>0, <2>3, <2>4, <2>5, ReadStep
<1>3. CASE Return(c) /\ tiers' = tiers /\ Reading(c)
  BY <1>0, <1>3, ReturnReads, ReadStep DEF Return, FillsIn
<1>4. CASE GetTier(c) /\ job[c].tier = 1
  <2>1. PICK j : ReadsTo(job[c], j) /\ job' = [job EXCEPT ![c] = j]
    BY <1>4, PartReadTo DEF GetTier
  <2>2. Reading(c) /\ FillsIn(job[c])
    BY <1>4 DEF GetTier, Reading, FillsIn
  <2> QED BY <1>0, <2>1, <2>2, ReadStep
<1>5. CASE GetTier(c) /\ job[c].tier # 1
  <2> DEFINE v == tiers[job[c].tier][job[c].part]
             j == [job[c] EXCEPT !.at = "fill", !.data = v, !.todo = 1..(job[c].tier - 1)]
  <2>0. v \in Values /\ 1..(job[c].tier - 1) \in SUBSET Tiers
    BY <1>0, TierFacts DEF Tiers
  <2>1. /\ job' = [job EXCEPT ![c] = j] /\ tiers' = tiers
        /\ job[c].at = "get" /\ v # NoObject /\ job[c].span = N
    BY <1>0, <1>5 DEF GetTier, Go, Shape
  <2>2. job[c].tier > 1
    <3>1. job[c].tier \in Int /\ job[c].tier >= 1
      BY <1>0, TierFacts
    <3>2. job[c].tier # 1
      BY <1>5
    <3> QED BY <3>1, <3>2
  <2>3. ReadsTo(job[c], j)
    BY <1>0, <2>0, <2>1, <2>2 DEF ReadsTo, Jobs
  <2>4. Reading(c) /\ FillsIn(job[c])
    BY <2>1 DEF Reading, FillsIn
  <2> QED BY <1>0, <2>1, <2>3, <2>4, ReadStep
<1>6. ASSUME NEW i \in Tiers, Filling(c, i), Filled(c, i), NEW v \in Values,
             v \in {job[c].data, tiers[i][job[c].part], Damaged},
             tiers' = [tiers EXCEPT ![i][job[c].part] = v]
      PROVE  FillInv'
  <2>1. job[c].at = "fill" /\ i \in 1..(job[c].tier - 1) /\ job[c].span = N
    BY <1>0, <1>6 DEF Filling, Shape
  <2>2. Reading(c) /\ FillsIn(job[c])
    BY <1>6, <2>1 DEF Reading, FillsIn
  <2>3. \E j : ReadsTo(job[c], j) /\ job' = [job EXCEPT ![c] = j]
    <3>1. CASE job[c].todo = {i}
      BY <1>6, <3>1, PartReadTo DEF Filled
    <3>2. CASE job[c].todo # {i}
      <4> DEFINE j == [job[c] EXCEPT !.todo = @ \ {i}]
      <4>1. job' = [job EXCEPT ![c] = j]
        BY <1>6, <3>2 DEF Filled, Go
      <4>2. ReadsTo(job[c], j)
        BY <1>0, <2>1 DEF ReadsTo, Jobs
      <4> QED BY <4>1, <4>2
    <3> QED BY <3>1, <3>2
  <2> QED BY <1>0, <2>2, <2>3, ReadStep
<1>7. ASSUME NEW i \in Tiers, Backfill(c, i) PROVE FillInv'
  BY <1>0, <1>6, <1>7 DEF Backfill, Jobs
<1>8. ASSUME NEW i \in Tiers, BackfillFails(c, i) PROVE FillInv'
  <2>1. PICK v \in AfterFailure(i, job[c].part) : tiers' = [tiers EXCEPT ![i][job[c].part] = v]
    BY <1>8 DEF BackfillFails
  <2>2. v \in Values /\ v \in {tiers[i][job[c].part], Damaged}
    BY <1>0, <2>1 DEF AfterFailure, Values
  <2>3. Filling(c, i) /\ Filled(c, i)
    BY <1>8 DEF BackfillFails
  <2> QED BY <1>6, <2>1, <2>2, <2>3
<1>9. GetBreaks(c) \/ (NextTier(c) /\ job[c].tier = N) => Return(c) /\ tiers' = tiers /\ Reading(c)
  BY DEF GetBreaks, NextTier, Reading
<1> QED BY <1>1, <1>2, <1>3, <1>4, <1>5, <1>7, <1>8, <1>9 DEF Get

-----------------------------------------------------------------------------
(* Calls that start.                                                         *)

LEMMA StartKeepsFill ==
    ASSUME IndInv, TypeOK', FillInv, NEW c \in Clients, Start(c)
    PROVE  FillInv'
<1>0. /\ TypeOK /\ ReadersMeet /\ Spans /\ tiers \in [Tiers -> [Parts -> Values]]
      /\ \A p \in Parts : Agreed(p)
      /\ job[c] = Idle /\ job[c].at = "idle"
  <2>1. job[c] = Idle
    BY DEF Start, StartGet, StartDelete, StartEvict, StartPut
  <2> QED BY <2>1, IdleFacts DEF IndInv, FillInv, TypeOK
<1>1. ASSUME NEW j \in Jobs, j.span = N, j.at \notin {"get", "fill"},
             job' = Started(c, j, TRUE), tiers' = tiers
      PROVE  FillInv'
  <2>1. /\ job'[c].at = j.at /\ job'[c].span = N
        /\ \A d \in Clients \ {c} : job'[d].span = job[d].span /\ ~job'[d].alone
    BY <1>0, <1>1, StartedMoves DEF Moves
  <2>2. ReadersMeet' /\ Spans'
    BY <1>0, <1>1, <2>1 DEF ReadersMeet, Spans, Reading
  <2>3. \A p \in Parts : Agreed(p)'
    BY <1>1, <2>1, QuietAgreed DEF AloneReader
  <2> QED BY <2>2, <2>3 DEF FillInv
<1>2. ASSUME NEW v \in Versions, StartPut(c, v) PROVE FillInv'
  <2> DEFINE j == [Idle EXCEPT !.at = "put", !.data = v, !.todo = Tiers]
  <2>1. j \in Jobs /\ j.span = N /\ j.at = "put"
    BY TierFacts DEF Idle, Jobs, Parts, Values
  <2> QED BY <1>1, <1>2, <2>1 DEF StartPut
<1>3. CASE StartDelete(c)
  <2> DEFINE j == [Idle EXCEPT !.at = "exists"]
  <2>1. j \in Jobs /\ j.span = N /\ j.at = "exists"
    BY TierFacts DEF Idle, Jobs, Parts, Values
  <2> QED BY <1>1, <1>3, <2>1 DEF StartDelete
<1>4. CASE StartGet(c)
  <2> DEFINE j == [Idle EXCEPT !.at = "get", !.tier = FirstTier]
             b == \A e \in Clients \ {c} :
                     job[e].at = "idle" \/ Evicting(e) \/ (Reading(e) /\ job[e].alone)
  <2>1. j \in Jobs /\ j.at = "get" /\ j.span = N /\ j.tier = 1
    BY TierFacts DEF Idle, Jobs, Parts, Values
  <2>2. job' = Started(c, j, FALSE) /\ tiers' = tiers
    BY <1>4 DEF StartGet
  <2>3. job'[c] = [j EXCEPT !.alone = b] /\ b \in BOOLEAN
    BY <2>2 DEF Started
  <2> HIDE DEF j
  <2>4. /\ job'[c].at = "get" /\ job'[c].span = N /\ job'[c].tier = 1
        /\ job'[c].alone = b
    BY <2>1, <2>3 DEF Jobs
  <2>5. ASSUME NEW d \in Clients \ {c}
        PROVE  /\ job'[d].at = job[d].at /\ job'[d].part = job[d].part
               /\ job'[d].data = job[d].data /\ job'[d].tier = job[d].tier
               /\ job'[d].span = job[d].span
               /\ job'[d].alone = (job[d].alone /\ Reading(d))
    <3>1. job'[d] = [job[d] EXCEPT !.alone = job[d].alone /\ Reading(d)]
      BY <2>2 DEF Started
    <3>2. job[d] \in Jobs /\ (job[d].alone /\ Reading(d)) \in BOOLEAN
      BY <1>0 DEF TypeOK
    <3> QED BY <3>1, <3>2 DEF Jobs
  <2>6. Spans'
    BY <1>0, <2>4, <2>5 DEF Spans
  <2>7. ReadersMeet'
    <3> SUFFICES ASSUME NEW d \in Clients, Reading(d)', job'[d].alone,
                        NEW e \in Clients \ {d}
                 PROVE  job'[e].at = "idle" \/ Evicting(e)' \/ (Reading(e)' /\ job'[e].alone)
      BY DEF ReadersMeet
    <3>1. CASE d = c
      <4>1. job[e].at = "idle" \/ Evicting(e) \/ (Reading(e) /\ job[e].alone)
        BY <2>4, <3>1
      <4> QED BY <2>5, <3>1, <4>1 DEF Evicting, Reading
    <3>2. CASE d # c
      <4>1. Reading(d) /\ job[d].alone
        BY <2>5, <3>2
      <4>2. \A x \in Clients \ {d} :
                job[x].at = "idle" \/ Evicting(x) \/ (Reading(x) /\ job[x].alone)
        BY <1>0, <4>1 DEF ReadersMeet
      <4>3. CASE e = c
        BY <2>4, <4>1, <4>2, <4>3 DEF Reading
      <4>4. CASE e # c
        BY <2>5, <4>2, <4>4 DEF Evicting, Reading
      <4> QED BY <4>3, <4>4
    <3> QED BY <3>1, <3>2
  <2>8. ASSUME NEW p \in Parts PROVE Agreed(p)'
    <3>1. ASSUME NEW d \in Clients, AloneReader(job[d], p)'
          PROVE  \/ job'[d].at = "get" /\ job'[d].tier = 1
                 \/ /\ AloneReader(job[d], p)
                    /\ job'[d].at = job[d].at /\ job'[d].tier = job[d].tier
                    /\ job'[d].data = job[d].data
      BY <2>4, <2>5, <3>1 DEF AloneReader
    <3> QED BY <1>0, <2>2, <3>1, KeptAgreed
  <2> QED BY <2>6, <2>7, <2>8 DEF FillInv
<1>5. CASE StartEvict(c)
  <2> DEFINE j == [Idle EXCEPT !.at = "exists", !.span = 1]
  <2>1. j \in Jobs /\ j.at = "exists" /\ j.span = 1
    BY TierFacts DEF Idle, Jobs, Parts, Values
  <2>2. job' = [job EXCEPT ![c] = j] /\ tiers' = tiers /\ N > 1
    BY <1>5 DEF StartEvict
  <2> HIDE DEF j
  <2>3. job'[c] = j /\ \A x \in Clients \ {c} : job'[x] = job[x]
    BY <1>0, <2>2 DEF TypeOK
  <2>4. Spans'
    BY <1>0, <2>1, <2>3 DEF Spans
  <2>5. Evicting(c)' /\ ~Reading(c)'
    BY <2>1, <2>2, <2>3, TierFacts DEF Evicting, Reading
  <2>6. ReadersMeet'
    BY <1>0, <2>3, <2>5 DEF ReadersMeet, Evicting, Reading
  <2>7. ASSUME NEW p \in Parts PROVE Agreed(p)'
    <3>1. ASSUME NEW d \in Clients, AloneReader(job[d], p)'
          PROVE  AloneReader(job[d], p) /\ job'[d] = job[d]
      BY <2>1, <2>3, <3>1 DEF AloneReader
    <3> QED BY <1>0, <2>2, <3>1, KeptAgreed
  <2> QED BY <2>4, <2>6, <2>7 DEF FillInv
<1> QED BY <1>2, <1>3, <1>4, <1>5 DEF Start

-----------------------------------------------------------------------------
LEMMA FillInit == Init => FillInv
<1> SUFFICES ASSUME Init PROVE FillInv
  OBVIOUS
<1>1. TypeOK /\ \A c \in Clients : job[c] = Idle
  BY InitEstablishes DEF IndInv, Init
<1>2. Idle.at = "idle" /\ Idle.span = N
  BY DEF Idle
<1>3. ReadersMeet /\ Spans
  BY <1>1, <1>2 DEF ReadersMeet, Spans, Reading
<1>4. ASSUME NEW p \in Parts PROVE Agreed(p)
  <2>1. \A c \in Clients : ~AloneReader(job[c], p)
    BY <1>1, <1>2 DEF AloneReader
  <2>2. CASE \A i \in 2..N : tiers[i][p] = NoObject
    BY <2>1, <2>2 DEF Agreed
  <2>3. CASE \E i \in 2..N : tiers[i][p] # NoObject
    <3> DEFINE S == {i \in 2..N : tiers[i][p] # NoObject}
    <3>1. S # {} /\ S \subseteq Nat
      BY <2>3, TierFacts
    <3>2. PICK h \in S : \A y \in S : h <= y
      BY <3>1, LeastExists
    <3>3. /\ h \in 2..N /\ h \in Tiers /\ tiers[h][p] \in Values \ {NoObject}
          /\ \A i \in 2..(h - 1) : tiers[i][p] = NoObject
      BY <1>1, <3>2, TierFacts DEF TypeOK, Tiers
    <3>4. AgreedOn(p, h, tiers[h][p])
      BY <2>1, <3>3 DEF AgreedOn, HeldOn, Near
    <3> QED BY <3>3, <3>4 DEF Agreed
  <2> QED BY <2>2, <2>3
<1> QED BY <1>3, <1>4 DEF FillInv

\* The Gets under way agree, in every reachable state, on what they may fill in.
THEOREM GetsAgree == Spec => [](IndInv /\ FillInv)
<1>1. IndInv /\ FillInv /\ [Next]_vars => FillInv'
  <2> SUFFICES ASSUME IndInv, FillInv, [Next]_vars PROVE FillInv'
    OBVIOUS
  <2>0. TypeOK'
    BY NextKeeps DEF IndInv
  <2>1. CASE UNCHANGED vars
    BY <2>1 DEF vars, FillInv, ReadersMeet, Reading, Evicting, Spans, Agreed, AgreedOn, HeldOn,
                Near, ReaderOn
  <2>2. ASSUME NEW c \in Clients, Start(c) \/ Put(c) \/ Get(c) \/ Delete(c) PROVE FillInv'
    BY <2>0, <2>2, StartKeepsFill, WriterKeepsFill, GetKeepsFill
  <2> QED BY <2>1, <2>2 DEF Next
<1> QED BY <1>1, FillInit, TieredInvariance, PTL DEF Spec

-----------------------------------------------------------------------------
(* What the next Get returns.                                                *)

\* What the first tier holds that has the part, if tier i holds f[i] of it.
VisibleIn(f) ==
    LET H == {i \in Tiers : f[i] # NoObject}
    IN IF H = {} THEN NoObject ELSE f[CHOOSE i \in H : \A j \in H : i <= j]

LEMMA FirstIs ==
    ASSUME NEW f, NEW H, H = {i \in Tiers : f[i] # NoObject}, H # {}
    PROVE  (CHOOSE i \in H : \A j \in H : i <= j) \in Tiers
<1>1. H \subseteq Nat /\ H \subseteq Tiers
  BY TierFacts DEF Tiers
<1>2. \E i \in H : \A j \in H : i <= j
  BY <1>1, LeastExists
<1> QED BY <1>1, <1>2

LEMMA VisibleIs ==
    ASSUME NEW p, NEW f, \A i \in Tiers : f[i] = tiers[i][p]
    PROVE  Visible(p) = VisibleIn(f)
<1>1. Holders(p) = {i \in Tiers : f[i] # NoObject}
  BY DEF Holders
<1> QED BY <1>1, FirstIs DEF Visible, VisibleIn

LEMMA VisibleNext ==
    ASSUME NEW p, NEW f, \A i \in Tiers : f[i] = tiers'[i][p]
    PROVE  Visible(p)' = VisibleIn(f)
<1>1. Holders(p)' = {i \in Tiers : f[i] # NoObject}
  BY DEF Holders
<1> QED BY <1>1, FirstIs DEF Visible, VisibleIn

\* If the tiers up to h hold b or nothing, and h holds it, b is what is seen.
LEMMA VisibleNear ==
    ASSUME NEW f, NEW h \in Tiers, NEW b, b # NoObject,
           f[h] \in {b, Damaged},
           \A i \in Tiers : i < h => f[i] \in {NoObject, b, Damaged}
    PROVE  VisibleIn(f) \in {b, Damaged}
<1> DEFINE H == {i \in Tiers : f[i] # NoObject}
           first == CHOOSE i \in H : \A j \in H : i <= j
<1>1. h \in H /\ H \subseteq Nat
  BY TierFacts, ValueAssumption DEF Tiers
<1>2. \E i \in H : \A j \in H : i <= j
  BY <1>1, LeastExists
<1>3. first \in H /\ \A j \in H : first <= j
  BY <1>2
<1>4. first \in Tiers /\ f[first] # NoObject /\ first <= h
  BY <1>1, <1>3
<1>5. f[first] \in {b, Damaged}
  <2> HIDE DEF first
  <2>1. first \in Int /\ h \in Int
    BY <1>4, TierFacts
  <2>2. first = h \/ first < h
    BY <1>4, <2>1
  <2> QED BY <1>4, <2>2
<1> QED BY <1>1, <1>5 DEF VisibleIn

\* The part of the tiers that a Get is filling.
LEMMA FillingSeen ==
    ASSUME IndInv, FillInv, NEW c \in Clients, job[c].at = "fill", job[c].alone,
           FillsIn(job[c]), NEW p \in Parts
    PROVE  Visible(p)' = Visible(p) \/ Damaged \in {Visible(p), Visible(p)'}
<1> DEFINE f == [i \in Tiers |-> tiers[i][p]]
           g == [i \in Tiers |-> tiers'[i][p]]
<1>0. TypeOK /\ job[c] \in Jobs /\ tiers \in [Tiers -> [Parts -> Values]]
  BY DEF IndInv, TypeOK
<1>1. Visible(p) = VisibleIn(f)
  BY VisibleIs
<1>2. Visible(p)' = VisibleIn(g)
  BY VisibleNext
<1>3. CASE p # job[c].part
  <2>1. \A i \in Tiers : tiers'[i][p] = tiers[i][p]
    BY <1>0, <1>3 DEF FillsIn
  <2>2. f = g
    BY <2>1
  <2> QED BY <1>1, <1>2, <2>2
<1>4. CASE p = job[c].part
  <2>1. AloneReader(job[c], p) /\ Agreed(p)
    BY <1>4 DEF AloneReader, FillInv
  <2>2. PICK h \in 2..N, b \in Values \ {NoObject} : AgreedOn(p, h, b)
    BY <2>1 DEF Agreed
  <2>3. HeldOn(p, h, b) /\ ReaderOn(job[c], p, h, b)
    BY <2>1, <2>2 DEF AgreedOn
  <2>4. h \in Tiers /\ h \in Int /\ b # NoObject
    BY TierFacts DEF Tiers
  <2>5. \A i \in Tiers : i < h => f[i] \in {NoObject, b, Damaged}
    <3> SUFFICES ASSUME NEW i \in Tiers, i < h PROVE tiers[i][p] \in {NoObject, b, Damaged}
      OBVIOUS
    <3>1. CASE i = 1
      BY <2>3, <3>1 DEF ReaderOn, Near
    <3>2. CASE i # 1
      <4>1. i \in 2..(h - 1)
        BY <2>4, <3>2, TierFacts DEF Tiers
      <4> QED BY <2>3, <4>1 DEF HeldOn, Near
    <3> QED BY <3>1, <3>2
  <2>6. f[h] \in {b, Damaged}
    BY <2>3, <2>4 DEF HeldOn
  <2>7. tiers'[h][p] = tiers[h][p] /\ \A i \in Tiers : tiers'[i][p] \in {tiers[i][p], b, Damaged}
    <3>1. CASE tiers' = tiers
      BY <3>1
    <3>2. CASE tiers' # tiers
      <4>1. PICK i \in 1..(job[c].tier - 1), v \in Values :
                /\ v \in {job[c].data, tiers[i][p], Damaged}
                /\ tiers' = [tiers EXCEPT ![i][p] = v]
        BY <1>4, <3>2 DEF FillsIn
      <4>2. job[c].tier <= h /\ job[c].data \in {b, Damaged} /\ job[c].tier \in Int
        BY <1>0, <2>3, TierFacts DEF ReaderOn, Jobs
      <4>3. i # h
        BY <2>4, <4>1, <4>2
      <4> QED BY <1>0, <2>4, <4>1, <4>2, <4>3
    <3> QED BY <3>1, <3>2
  <2>8. g[h] \in {b, Damaged} /\ \A i \in Tiers : i < h => g[i] \in {NoObject, b, Damaged}
    BY <2>4, <2>5, <2>6, <2>7
  <2> HIDE DEF f, g
  <2>9. VisibleIn(f) \in {b, Damaged}
    BY <2>4, <2>5, <2>6, VisibleNear
  <2>10. VisibleIn(g) \in {b, Damaged}
    BY <2>4, <2>8, VisibleNear
  <2> QED BY <1>1, <1>2, <2>9, <2>10
<1> QED BY <1>3, <1>4

\* A backfill changes nothing that the next Get returns, whatever the tiers hold and
\* whichever Gets, evictions and failing writes run beside it (Tiered.Get).
THEOREM BackfillsAreTransparent == Spec => BackfillTransparent
<1> DEFINE A == \A c \in Clients : \A p \in Parts :
                    job[c].at = "fill" /\ job'[c] # job[c] /\ job[c].alone
                       => Visible(p)' = Visible(p) \/ Damaged \in {Visible(p), Visible(p)'}
<1>1. ASSUME IndInv, FillInv, [Next]_vars, NEW c \in Clients, NEW p \in Parts,
             job[c].at = "fill", job'[c] # job[c], job[c].alone
      PROVE  Visible(p)' = Visible(p) \/ Damaged \in {Visible(p), Visible(p)'}
  <2>1. FillsIn(job[c])
    <3>0. job \in [Clients -> Jobs] /\ Shape(job[c])
      BY <1>1 DEF IndInv, TypeOK, Shapes
    <3>1. PICK d \in Clients : Start(d) \/ Put(d) \/ Get(d) \/ Delete(d)
      BY <1>1 DEF Next, vars
    <3>2. CASE d # c
      <4>1. \A j : job' # [job EXCEPT ![d] = j]
        BY <1>1, <3>0, <3>2
      <4> QED
        BY <3>1, <4>1
        DEF FillsIn, Start, StartPut, StartGet, StartDelete, StartEvict, Put, PutPart, PutFails,
            PutTier, PutTierFails, Get, GetTier, NextTier, GetBreaks, Backfill, BackfillFails,
            Filled, PartRead, Delete, ExistsTier, ExistsNext, DeletePart, DeleteFails, DeleteTier,
            DeleteTierFails, Go, Return
    <3>3. CASE d = c
      <4>1. PICK i \in Tiers : Backfill(c, i) \/ BackfillFails(c, i)
        BY <1>1, <3>1, <3>3, IdleFacts
        DEF Start, StartPut, StartGet, StartDelete, StartEvict, Put, PutPart, PutFails,
            PutTier, PutTierFails, Get, GetTier, NextTier, GetBreaks,
            Delete, ExistsTier, ExistsNext, DeletePart, DeleteFails, DeleteTier, DeleteTierFails
      <4>2. i \in 1..(job[c].tier - 1)
        BY <1>1, <3>0, <4>1 DEF Backfill, BackfillFails, Filling, Shape
      <4>3. \E v \in {job[c].data, tiers[i][job[c].part], Damaged} :
                tiers' = [tiers EXCEPT ![i][job[c].part] = v]
        BY <4>1 DEF Backfill, BackfillFails, AfterFailure
      <4>4. job[c].data \in Values /\ tiers[i][job[c].part] \in Values /\ Damaged \in Values
        BY <1>1, <3>0 DEF IndInv, TypeOK, Jobs, Values
      <4> QED BY <1>1, <4>2, <4>3, <4>4 DEF FillsIn
    <3> QED BY <3>2, <3>3
  <2> QED BY <1>1, <2>1, FillingSeen
<1>2. IndInv /\ FillInv /\ [Next]_vars => [A]_vars
  BY <1>1
<1> QED BY <1>2, GetsAgree, PTL DEF Spec, BackfillTransparent

=============================================================================
