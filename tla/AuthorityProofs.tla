--------------------------- MODULE AuthorityProofs ---------------------------
(***************************************************************************)
(* Proofs about the certificate authority and the cache of leaves, for any *)
(* number of hosts, exports and authorities, any size of the cache and any *)
(* times: as long as no process generates over the files of another, the   *)
(* files never lose an exported root, a proxy that is up holds a pair, and *)
(* what it serves chains to that root; and the eviction order names what   *)
(* is cached.                                                              *)
(***************************************************************************)
EXTENDS Authority, SequenceTheorems, TLAPS

-----------------------------------------------------------------------------
(* Sequences in which every element occurs once.                             *)

Elements(s)  == {s[i] : i \in 1..Len(s)}
Distinct(s)  == \A i, j \in 1..Len(s) : s[i] = s[j] => i = j

\* RemoveFirst takes the element out and leaves the others once.
LEMMA RemoveFirstFacts ==
    ASSUME NEW S, NEW s \in Seq(S), Distinct(s), NEW e \in Elements(s)
    PROVE  /\ RemoveFirst(s, e) \in Seq(S)
           /\ Len(RemoveFirst(s, e)) = Len(s) - 1
           /\ Elements(RemoveFirst(s, e)) = Elements(s) \ {e}
           /\ Distinct(RemoveFirst(s, e))
<1>1. PICK n \in 1..Len(s) : s[n] = e
  BY DEF Elements
<1>2. n \in Int /\ Len(s) \in Nat /\ \A i \in 1..Len(s) : s[i] \in S
  BY LenProperties, ElementOfSeq
<1>3. {i \in 1..Len(s) : s[i] = e} = {n}
  BY <1>1 DEF Distinct
<1>4. SelectInSeq(s, LAMBDA v : v = e) = n
  <2>1. Min({n}) = n
    BY <1>2 DEF Min
  <2> QED
    BY <1>3, <2>1 DEF SelectInSeq
<1> DEFINE before == SubSeq(s, 1, n - 1)
           after  == SubSeq(s, n + 1, Len(s))
           r      == before \o after
<1>5. RemoveFirst(s, e) = r
  BY <1>1, <1>4 DEF RemoveFirst, RemoveAt
<1>6. /\ r \in Seq(S) /\ Len(r) = Len(s) - 1
      /\ \A i \in 1..Len(r) : r[i] = IF i < n THEN s[i] ELSE s[i + 1]
  <2>1. /\ before \in Seq(S) /\ Len(before) = n - 1
        /\ \A i \in 1..n - 1 : before[i] = s[i]
    BY <1>2, SubSeqProperties, Z3
  <2>2. /\ after \in Seq(S) /\ Len(after) = Len(s) - n
        /\ \A i \in 1..Len(s) - n : after[i] = s[n + i]
    BY <1>2, SubSeqProperties, Z3
  <2> HIDE DEF before, after
  <2>3. /\ before \o after \in Seq(S) /\ Len(before \o after) = Len(s) - 1
        /\ \A i \in 1..Len(s) - 1 : (before \o after)[i] =
              IF i <= n - 1 THEN before[i] ELSE after[i - (n - 1)]
    <3>1. /\ before \o after \in Seq(S) /\ Len(before \o after) = Len(before) + Len(after)
          /\ \A i \in 1..Len(before) + Len(after) : (before \o after)[i] =
                IF i <= Len(before) THEN before[i] ELSE after[i - Len(before)]
      BY <2>1, <2>2, ConcatProperties
    <3>2. Len(before) + Len(after) = Len(s) - 1
      BY <1>2, <2>1, <2>2
    <3> QED
      BY <2>1, <3>1, <3>2
  <2>4. ASSUME NEW i \in 1..Len(r) PROVE r[i] = IF i < n THEN s[i] ELSE s[i + 1]
    <3>1. i \in 1..Len(s) - 1
      BY <2>3, <2>4
    <3>2. r[i] = IF i <= n - 1 THEN before[i] ELSE after[i - (n - 1)]
      BY <2>3, <3>1
    <3>3. CASE i < n
      <4>1. i \in 1..n - 1 /\ i <= n - 1
        BY <1>2, <3>1, <3>3
      <4>2. r[i] = before[i]
        BY <3>2, <4>1
      <4> QED
        BY <2>1, <3>3, <4>1, <4>2
    <3>4. CASE i >= n
      <4>1. i - (n - 1) \in 1..Len(s) - n /\ n + (i - (n - 1)) = i + 1 /\ ~(i <= n - 1)
        BY <1>2, <3>1, <3>4
      <4>2. r[i] = after[i - (n - 1)]
        BY <3>2, <4>1
      <4> QED
        BY <1>2, <2>2, <3>1, <3>4, <4>1, <4>2
    <3> QED
      BY <1>2, <3>1, <3>3, <3>4
  <2> QED
    BY <2>3, <2>4
<1> HIDE DEF r
<1>7. Distinct(r)
  <2>1. ASSUME NEW i \in 1..Len(r), NEW j \in 1..Len(r), r[i] = r[j] PROVE i = j
    <3> DEFINE u == IF i < n THEN i ELSE i + 1
               v == IF j < n THEN j ELSE j + 1
    <3>1. u \in 1..Len(s) /\ v \in 1..Len(s) /\ (u = v => i = j)
      BY <1>2, <1>6
    <3>2. r[i] = s[u] /\ r[j] = s[v]
      BY <1>6
    <3> HIDE DEF u, v
    <3> QED
      BY <2>1, <3>1, <3>2 DEF Distinct
  <2> QED
    BY <2>1 DEF Distinct
<1>8. Elements(r) = Elements(s) \ {e}
  <2>1. ASSUME NEW x \in Elements(r) PROVE x \in Elements(s) \ {e}
    <3>1. PICK i \in 1..Len(r) : r[i] = x
      BY <2>1 DEF Elements
    <3>2. CASE i < n
      BY <1>1, <1>2, <1>6, <3>1, <3>2 DEF Elements, Distinct
    <3>3. CASE i >= n
      BY <1>1, <1>2, <1>6, <3>1, <3>3 DEF Elements, Distinct
    <3> QED
      BY <1>2, <1>6, <3>1, <3>2, <3>3
  <2>2. ASSUME NEW x \in Elements(s) \ {e} PROVE x \in Elements(r)
    <3>1. PICK i \in 1..Len(s) : s[i] = x
      BY <2>2 DEF Elements
    <3>2. CASE i < n
      BY <1>2, <1>6, <3>1, <3>2 DEF Elements
    <3>3. CASE i > n
      <4>1. i - 1 \in 1..Len(r) /\ r[i - 1] = x
        BY <1>2, <1>6, <3>1, <3>3
      <4> QED
        BY <4>1 DEF Elements
    <3> QED
      BY <1>1, <1>2, <2>2, <3>1, <3>2, <3>3
  <2> QED
    BY <2>1, <2>2
<1> QED
  BY <1>5, <1>6, <1>7, <1>8

LEMMA AppendFacts ==
    ASSUME NEW S, NEW s \in Seq(S), NEW e \in S, Distinct(s), e \notin Elements(s)
    PROVE  /\ Append(s, e) \in Seq(S)
           /\ Len(Append(s, e)) = Len(s) + 1
           /\ Elements(Append(s, e)) = Elements(s) \cup {e}
           /\ Distinct(Append(s, e))
<1>1. /\ Append(s, e) \in Seq(S) /\ Len(Append(s, e)) = Len(s) + 1
      /\ \A i \in 1..Len(s) : Append(s, e)[i] = s[i]
      /\ Append(s, e)[Len(s) + 1] = e
  OBVIOUS
<1>2. Elements(Append(s, e)) = Elements(s) \cup {e}
  BY <1>1 DEF Elements
<1>3. Distinct(Append(s, e))
  BY <1>1 DEF Distinct, Elements
<1> QED
  BY <1>1, <1>2, <1>3

LEMMA TailFacts ==
    ASSUME NEW S, NEW s \in Seq(S), Distinct(s), s # <<>>
    PROVE  /\ Tail(s) \in Seq(S) /\ Head(s) \in Elements(s)
           /\ Len(Tail(s)) = Len(s) - 1
           /\ Elements(Tail(s)) = Elements(s) \ {Head(s)}
           /\ Distinct(Tail(s))
<1>1. /\ Tail(s) \in Seq(S) /\ Len(Tail(s)) = Len(s) - 1 /\ Len(s) >= 1
      /\ \A i \in 1..Len(s) - 1 : Tail(s)[i] = s[i + 1]
      /\ Head(s) = s[1]
  OBVIOUS
<1>2. Head(s) \in Elements(s)
  BY <1>1 DEF Elements
<1>3. Distinct(Tail(s))
  BY <1>1 DEF Distinct
<1>4. Elements(Tail(s)) = Elements(s) \ {Head(s)}
  <2>1. ASSUME NEW x \in Elements(Tail(s)) PROVE x \in Elements(s) \ {Head(s)}
    BY <1>1 DEF Elements, Distinct
  <2>2. ASSUME NEW x \in Elements(s) \ {Head(s)} PROVE x \in Elements(Tail(s))
    <3>1. PICK i \in 1..Len(s) : s[i] = x /\ i # 1
      BY <1>1, <2>2 DEF Elements
    <3>2. i - 1 \in 1..Len(Tail(s)) /\ Tail(s)[i - 1] = x
      BY <1>1, <3>1
    <3> QED
      BY <3>2 DEF Elements
  <2> QED
    BY <2>1, <2>2
<1> QED
  BY <1>1, <1>2, <1>3, <1>4

-----------------------------------------------------------------------------
(* The cache of leaves.                                                      *)

\* What a step of the cache keeps.
LeafInv == TypeOK /\ OrderMatchesMap /\ ServedOutlivesMargin

\* Init and a stop of the proxy leave an empty cache.
EmptyCache == cache = [h \in Hosts |-> NoCert] /\ order = <<>> /\ served = NoCert

LEMMA EmptyCacheSound == EmptyCache /\ clock \in 0..MaxClock => LeafInv
<1> SUFFICES ASSUME EmptyCache, clock \in 0..MaxClock PROVE LeafInv
  OBVIOUS
<1>1. Cached = {} /\ Len(<<>>) = 0 /\ <<>> \in Seq(Hosts)  /\ MaxSize \in Nat
  BY SizeAssumption DEF EmptyCache, Cached
<1> QED
  BY <1>1 DEF LeafInv, EmptyCache, TypeOK, OrderMatchesMap, ServedOutlivesMargin

LEMMA DroppedFacts ==
    ASSUME LeafInv, NEW h \in Hosts
    PROVE  /\ Dropped(h) \in Seq(Hosts) /\ Len(Dropped(h)) <= MaxSize
           /\ Elements(Dropped(h)) = Cached \ {h}
           /\ Distinct(Dropped(h))
<1>1. order \in Seq(Hosts) /\ Elements(order) = Cached /\ Distinct(order)
  BY DEF LeafInv, TypeOK, OrderMatchesMap, Elements, Distinct
<1>2. Len(order) \in Nat /\ MaxSize \in Nat /\ Len(order) <= MaxSize
  BY <1>1, SizeAssumption DEF LeafInv, OrderMatchesMap
<1>3. CASE cache[h] = NoCert
  BY <1>1, <1>2, <1>3 DEF Dropped, Cached
<1>4. CASE cache[h] # NoCert
  <2>1. h \in Elements(order)
    BY <1>1, <1>4 DEF Cached
  <2> QED
    BY <1>1, <1>2, <1>4, <2>1, RemoveFirstFacts DEF Dropped
<1> QED
  BY <1>3, <1>4

LEMMA HitKeeps ==
    ASSUME LeafInv, NEW h \in Hosts, Hit(h)
    PROVE  LeafInv'
<1>1. cache[h] \in Nat /\ clock \in Nat
  BY TimeAssumption DEF LeafInv, TypeOK, Hit, Fresh
<1>2. /\ served' = [host |-> h, notAfter |-> cache[h], at |-> clock]
      /\ clock + renewMargin < cache[h]
  BY DEF Hit, Serve, Fresh
<1>3. UNCHANGED <<clock, cache, order>>
  BY DEF Hit
<1>4. TypeOK' /\ ServedOutlivesMargin'
  BY <1>1, <1>2, <1>3 DEF LeafInv, TypeOK, ServedOutlivesMargin
<1> QED
  BY <1>3, <1>4 DEF LeafInv, OrderMatchesMap, Cached

LEMMA CreateKeeps ==
    ASSUME LeafInv, NEW h \in Hosts, Create(h)
    PROVE  LeafInv'
<1> DEFINE grown  == Append(Dropped(h), h)
           filled == [cache EXCEPT ![h] = clock + Lifetime]
<1>1. /\ clock \in Nat /\ clock \in 0..MaxClock
      /\ Lifetime \in Nat /\ renewMargin \in Nat /\ renewMargin < Lifetime
      /\ MaxSize \in Nat \ {0} /\ cache \in [Hosts -> Nat \cup {NoCert}]
  BY TimeAssumption, SizeAssumption DEF LeafInv, TypeOK
<1>2. /\ Dropped(h) \in Seq(Hosts) /\ Len(Dropped(h)) <= MaxSize
      /\ Elements(Dropped(h)) = Cached \ {h} /\ Distinct(Dropped(h))
  BY DroppedFacts
<1>3. /\ grown \in Seq(Hosts) /\ Len(grown) = Len(Dropped(h)) + 1
      /\ Elements(grown) = Cached \cup {h} /\ Distinct(grown)
  BY <1>2, AppendFacts
<1>4. /\ Len(Dropped(h)) \in Nat /\ Len(grown) \in Nat /\ grown # <<>>
  BY <1>2, <1>3, LenProperties
<1>5. /\ served' = [host |-> h, notAfter |-> clock + Lifetime, at |-> clock]
      /\ UNCHANGED clock
  BY DEF Create, Serve
<1>6. ServedOutlivesMargin' /\ clock' \in 0..MaxClock
      /\ served' \in [host : Hosts, notAfter : Nat, at : Nat] \cup {NoCert}
  BY <1>1, <1>5 DEF ServedOutlivesMargin
<1>7. filled \in [Hosts -> Nat \cup {NoCert}] /\ clock + Lifetime # NoCert
  BY <1>1, NoCertAssumption
<1> HIDE DEF grown
<1>8. CASE Len(grown) > MaxSize
  <2>1. order' = Tail(grown) /\ cache' = [filled EXCEPT ![Head(grown)] = NoCert]
    BY <1>8 DEF Create, grown
  <2>2. /\ Tail(grown) \in Seq(Hosts) /\ Head(grown) \in Elements(grown)
        /\ Len(Tail(grown)) = Len(grown) - 1
        /\ Elements(Tail(grown)) = Elements(grown) \ {Head(grown)}
        /\ Distinct(Tail(grown))
    BY <1>3, <1>4, TailFacts
  <2>3. Cached' = (Cached \cup {h}) \ {Head(grown)}
    <3>1. \A x \in Hosts : cache'[x] = IF x = Head(grown) THEN NoCert ELSE filled[x]
      BY <1>7, <2>1
    <3>2. \A x \in Hosts : filled[x] = IF x = h THEN clock + Lifetime ELSE cache[x]
      BY <1>1
    <3> HIDE DEF filled
    <3>3. ASSUME NEW x \in Hosts
          PROVE  x \in Cached' <=> x \in (Cached \cup {h}) \ {Head(grown)}
      BY <1>7, <3>1, <3>2 DEF Cached
    <3>4. Cached \subseteq Hosts /\ Cached' \subseteq Hosts
      BY DEF Cached
    <3> QED
      BY <3>3, <3>4
  <2>4. Len(order') <= MaxSize
    BY <1>1, <1>2, <1>3, <1>4, <2>1, <2>2
  <2>5. OrderMatchesMap'
    <3>1. Elements(order') = Cached' /\ Distinct(order')
      BY <1>3, <2>1, <2>2, <2>3
    <3> QED
      BY <2>4, <3>1 DEF OrderMatchesMap, Elements, Distinct
  <2>6. order' \in Seq(Hosts) /\ cache' \in [Hosts -> Nat \cup {NoCert}]
    BY <1>7, <2>1, <2>2
  <2> QED
    BY <1>6, <2>5, <2>6 DEF LeafInv, TypeOK
<1>9. CASE ~(Len(grown) > MaxSize)
  <2>1. order' = grown /\ cache' = filled
    BY <1>9 DEF Create, grown
  <2>2. Cached' = Cached \cup {h}
    BY <1>1, <1>7, <2>1 DEF Cached
  <2>3. Len(order') <= MaxSize
    BY <1>1, <1>4, <1>9, <2>1
  <2>4. OrderMatchesMap'
    BY <1>3, <2>1, <2>2, <2>3 DEF OrderMatchesMap, Elements, Distinct
  <2> QED
    BY <1>3, <1>6, <1>7, <2>1, <2>4 DEF LeafInv, TypeOK
<1> QED
  BY <1>8, <1>9

LEMMA CreateFailsKeeps ==
    ASSUME LeafInv, NEW h \in Hosts, CreateFails(h)
    PROVE  LeafInv'
<1>1. /\ order' = Dropped(h) /\ cache' = [cache EXCEPT ![h] = NoCert]
      /\ served' = NoCert /\ UNCHANGED clock
  BY DEF CreateFails
<1>2. /\ Dropped(h) \in Seq(Hosts) /\ Len(Dropped(h)) <= MaxSize
      /\ Elements(Dropped(h)) = Cached \ {h} /\ Distinct(Dropped(h))
  BY DroppedFacts
<1>3. TypeOK' /\ ServedOutlivesMargin'
  BY <1>1, <1>2 DEF LeafInv, TypeOK, ServedOutlivesMargin
<1>4. Cached' = Cached \ {h}
  BY <1>1 DEF LeafInv, TypeOK, Cached
<1>5. OrderMatchesMap'
  BY <1>1, <1>2, <1>4 DEF OrderMatchesMap, Elements, Distinct
<1> QED
  BY <1>3, <1>5 DEF LeafInv

\* The eviction order names what is cached, each host once and within the
\* limit, and what was served outlives the margin: through every hit, renewal,
\* failure and eviction, and every stop of the proxy (GetOrCreate, Stop).
THEOREM LeafInvariance == AuthoritySpec => []LeafInv
<1>1. AuthorityInit => LeafInv
  BY EmptyCacheSound, TimeAssumption DEF AuthorityInit, Init, EmptyCache
<1>2. LeafInv /\ [AuthorityNext]_allVars => LeafInv'
  <2> SUFFICES ASSUME LeafInv, [AuthorityNext]_allVars PROVE LeafInv'
    OBVIOUS
  <2>1. ASSUME UNCHANGED vars PROVE LeafInv'
    BY <2>1 DEF LeafInv, TypeOK, OrderMatchesMap, Cached, ServedOutlivesMargin, vars
  <2>2. ASSUME NEW p \in Processes, EnsureCA(p) \/ Export(p) PROVE LeafInv'
    BY <2>1, <2>2 DEF EnsureCA, Export, StartAndLoad, StartAndGenerate, StartFails, LoadCert,
       LoadKey, CreateCert, WriteCert, CreateKey, WriteKey, SaveFails, allVars
  <2>3. ASSUME NEW p \in Processes, Stop(p) PROVE LeafInv'
    <3>1. UNCHANGED clock
      BY <2>3 DEF Stop
    <3>2. CASE p = Server
      <4>1. EmptyCache'
        BY <2>3, <3>2 DEF Stop, EmptyCache
      <4>2. (clock \in 0..MaxClock)'
        BY <3>1 DEF LeafInv, TypeOK
      <4> QED
        BY <4>1, <4>2, EmptyCacheSound, PTL
    <3>3. CASE p # Server
      BY <2>1, <2>3, <3>3 DEF Stop, vars
    <3> QED
      BY <3>2, <3>3
  <2>4. ASSUME NEW h \in Hosts, Connect(h) PROVE LeafInv'
    BY <2>4, HitKeeps, CreateKeeps, CreateFailsKeeps DEF Connect
  <2>5. ASSUME Pass PROVE LeafInv'
    BY <2>5, TimeAssumption DEF Pass, Tick, LeafInv, TypeOK, OrderMatchesMap, Cached,
       ServedOutlivesMargin
  <2>6. CASE UNCHANGED allVars
    BY <2>1, <2>6 DEF allVars
  <2> QED
    BY <2>2, <2>3, <2>4, <2>5, <2>6 DEF AuthorityNext
<1> QED
  BY <1>1, <1>2, PTL DEF AuthoritySpec

\* Over any mixture of hits, renewals, failures, evictions and restarts no leaf
\* is unevictable and no eviction is wasted on a host that is gone
\* (GetOrCreate, the map and slice updates).
THEOREM OrderAlwaysMatchesMap == AuthoritySpec => []OrderMatchesMap
<1>1. LeafInv => OrderMatchesMap
  BY DEF LeafInv
<1> QED
  BY <1>1, LeafInvariance, PTL

\* No certificate is served that expires within the margin (renewMargin).
THEOREM ServedLeavesOutliveMargin == AuthoritySpec => []ServedOutlivesMargin
<1>1. LeafInv => ServedOutlivesMargin
  BY DEF LeafInv
<1> QED
  BY <1>1, LeafInvariance, PTL

-----------------------------------------------------------------------------
(* The files.  While no two processes write them at the same time, they pass *)
(* through the stages of SaveCA in order and stay at the stage where a       *)
(* process died; only the stage before the first has no certificate, and     *)
(* only from there a process generates.                                      *)

Places == {"off", "loadCert", "loadKey", "createCert", "writeCert", "createKey",
           "writeKey", "up"}

AuthTypeOK ==
    /\ certFile \in Authorities \cup {NoFile, Damaged}
    /\ keyFile \in Authorities \cup {NoFile, Damaged}
    /\ generated \in 0..MaxAuthorities
    /\ process \in [Processes -> [at : Places, cert : Authorities \cup {NoFile},
                                  key : Authorities \cup {NoFile}]]
    /\ trusted \in Authorities \cup {NoFile}
    /\ overwritten \in BOOLEAN

\* Leaves are served by a proxy that is up; a stop takes them with it.
ServedWhenUp == served # NoCert => process[Server].at = "up"

\* Who saves holds the pair it generated; who loads a key read a certificate.
HeldPairs ==
    \A p \in Processes :
        /\ Saving(p) => process[p].cert \in Authorities /\ process[p].key = process[p].cert
        /\ process[p].at \in {"loadKey", "up"} => process[p].cert \in Authorities

OneSaver == \A p, q \in Processes : Saving(p) /\ Saving(q) => p = q

\* How the two files and the exported root go together.
FilesSound ==
    /\ certFile = NoFile =>
          keyFile = NoFile /\ \A p \in Processes : process[p].at \in {"off", "createCert"}
    /\ certFile = Damaged => keyFile = NoFile
    /\ keyFile \in Authorities => keyFile = certFile
    /\ trusted # NoFile => keyFile = trusted

\* What a process that has come to a place in EnsureCA knows of the files.
HolderSound(p) ==
    /\ process[p].at = "createCert" => certFile = NoFile
    /\ process[p].at = "writeCert"  => certFile = Damaged
    /\ process[p].at = "createKey"  => certFile = process[p].cert /\ keyFile = NoFile
    /\ process[p].at = "writeKey"   => certFile = process[p].cert /\ keyFile = Damaged
    /\ process[p].at = "loadKey"    => certFile = process[p].cert
    /\ process[p].at = "up" =>
          /\ certFile = process[p].cert
          /\ keyFile = process[p].key
          /\ keyFile \in Authorities

StagesInOrder == OneSaver /\ FilesSound /\ \A p \in Processes : HolderSound(p)

AuthInv == AuthTypeOK /\ ServedWhenUp /\ HeldPairs /\ (~overwritten => StagesInOrder)

\* What a step of one process leaves alone: the others, and the leaves.
LEMMA OthersStay ==
    ASSUME AuthTypeOK, NEW p \in Processes, NEW state, Become(p, state)
    PROVE  /\ process'[p] = state
           /\ \A q \in Processes \ {p} : process'[q] = process[q]
           /\ state \in [at : Places, cert : Authorities \cup {NoFile},
                         key : Authorities \cup {NoFile}]
              => process' \in [Processes -> [at : Places, cert : Authorities \cup {NoFile},
                                             key : Authorities \cup {NoFile}]]
  BY DEF AuthTypeOK, Become

LEMMA GotoIsBecome ==
    ASSUME AuthTypeOK, NEW p \in Processes, NEW at \in Places, Goto(p, at)
    PROVE  Become(p, [at |-> at, cert |-> process[p].cert, key |-> process[p].key])
<1> DEFINE moved == [process[p] EXCEPT !.at = at]
<1>1. process' = [process EXCEPT ![p] = moved]
  BY DEF Goto
<1>2. process[p] \in [at : Places, cert : Authorities \cup {NoFile},
                      key : Authorities \cup {NoFile}]
  BY DEF AuthTypeOK
<1>3. moved = [at |-> at, cert |-> process[p].cert, key |-> process[p].key]
  BY <1>2
<1> QED
  BY <1>1, <1>3 DEF Become

LEMMA Distinctness ==
    /\ NoFile \notin Authorities /\ Damaged \notin Authorities /\ NoFile # Damaged
    /\ Server \in Processes
    /\ Off \in [at : Places, cert : Authorities \cup {NoFile}, key : Authorities \cup {NoFile}]
    /\ Off.at = "off"
  BY AuthorityAssumption DEF Authorities, Processes, Off, Places

\* A step that ends the process, for whatever reason, and touches no file.
LEMMA EndKeeps ==
    ASSUME AuthInv, NEW p \in Processes, Become(p, Off),
           UNCHANGED <<certFile, keyFile, generated, overwritten>>,
           trusted' = trusted \/ (process[p].at = "up" /\ trusted' = process[p].cert),
           served' = NoCert \/ (p # Server /\ UNCHANGED served)
              \/ (process[p].at # "up" /\ UNCHANGED served)
    PROVE  AuthInv'
<1>1. /\ process'[p] = Off /\ \A q \in Processes \ {p} : process'[q] = process[q]
      /\ process' \in [Processes -> [at : Places, cert : Authorities \cup {NoFile},
                                     key : Authorities \cup {NoFile}]]
  BY OthersStay, Distinctness DEF AuthInv
<1>2. process'[p].at = "off"
  BY <1>1, Distinctness
<1>3. AuthTypeOK'
  BY <1>1 DEF AuthInv, AuthTypeOK, HeldPairs
<1>4. ServedWhenUp'
  BY <1>1, Distinctness DEF AuthInv, ServedWhenUp
<1>5. HeldPairs'
  BY <1>1, <1>2 DEF AuthInv, HeldPairs, Saving
<1>6. ASSUME ~overwritten' PROVE StagesInOrder'
  <2>1. StagesInOrder
    BY <1>6 DEF AuthInv
  <2>2. OneSaver'
    BY <1>1, <1>2, <2>1 DEF StagesInOrder, OneSaver, Saving
  <2>3. \A q \in Processes : HolderSound(q)'
    BY <1>1, <1>2, <2>1 DEF StagesInOrder, HolderSound
  <2>4. trusted' # NoFile => keyFile = trusted'
    BY <2>1, Distinctness DEF StagesInOrder, HolderSound, FilesSound
  <2>5. FilesSound'
    BY <1>1, <1>2, <2>1, <2>4 DEF StagesInOrder, FilesSound
  <2> QED
    BY <2>2, <2>3, <2>5 DEF StagesInOrder
<1> QED
  BY <1>3, <1>4, <1>5, <1>6 DEF AuthInv

\* A step of EnsureCA that goes on to another place with the pair in hand, and
\* may write a file on the way.  The last hypotheses are what each step of its
\* own shows.
LEMMA AdvanceKeeps ==
    ASSUME AuthInv, NEW p \in Processes, NEW at \in Places,
           NEW cert \in Authorities \cup {NoFile}, NEW key \in Authorities \cup {NoFile},
           Become(p, [at |-> at, cert |-> cert, key |-> key]),
           (certFile \in Authorities \cup {NoFile, Damaged})',
           (keyFile \in Authorities \cup {NoFile, Damaged})',
           (generated \in 0..MaxAuthorities)', (overwritten \in BOOLEAN)',
           overwritten => overwritten', UNCHANGED <<served, trusted>>,
           process[p].at # "up",
           at \in {"createCert", "writeCert", "createKey", "writeKey"}
              => cert \in Authorities /\ key = cert,
           at \in {"loadKey", "up"} => cert \in Authorities,
           ~overwritten' /\ StagesInOrder =>
              /\ at \in {"createCert", "writeCert", "createKey", "writeKey"}
                    => \A q \in Processes \ {p} : ~Saving(q)
              /\ HolderSound(p)'
              /\ \A q \in Processes \ {p} : HolderSound(q)'
              /\ FilesSound'
    PROVE  AuthInv'
<1>1. /\ process'[p] = [at |-> at, cert |-> cert, key |-> key]
      /\ \A q \in Processes \ {p} : process'[q] = process[q]
      /\ process' \in [Processes -> [at : Places, cert : Authorities \cup {NoFile},
                                     key : Authorities \cup {NoFile}]]
  BY OthersStay DEF AuthInv
<1>2. process'[p].at = at /\ process'[p].cert = cert /\ process'[p].key = key
  BY <1>1
<1>3. AuthTypeOK'
  BY <1>1 DEF AuthInv, AuthTypeOK
<1>4. ServedWhenUp'
  BY <1>1, Distinctness DEF AuthInv, ServedWhenUp
<1>5. HeldPairs'
  BY <1>1, <1>2 DEF AuthInv, HeldPairs, Saving
<1>6. ASSUME ~overwritten' PROVE StagesInOrder'
  <2>1. StagesInOrder
    BY <1>6 DEF AuthInv
  <2>2. OneSaver'
    BY <1>1, <1>2, <1>6, <2>1 DEF StagesInOrder, OneSaver, Saving
  <2> QED
    BY <1>6, <2>1, <2>2 DEF StagesInOrder
<1> QED
  BY <1>3, <1>4, <1>5, <1>6 DEF AuthInv

LEMMA StartAndLoadKeeps ==
    ASSUME AuthInv, NEW p \in Processes, StartAndLoad(p)
    PROVE  AuthInv'
<1> DEFINE held == [at |-> "loadCert", cert |-> process[p].cert, key |-> process[p].key]
<1>1. /\ Become(p, held) /\ process[p].at = "off" /\ certFile # NoFile
      /\ UNCHANGED <<certFile, keyFile, generated, overwritten, served, trusted>>
  BY GotoIsBecome DEF StartAndLoad, AuthInv, Places, vars, files
<1>2. /\ process'[p] = held
      /\ \A q \in Processes \ {p} : process'[q] = process[q]
      /\ process[p].cert \in Authorities \cup {NoFile}
      /\ process[p].key \in Authorities \cup {NoFile}
  BY <1>1, OthersStay DEF AuthInv, AuthTypeOK
<1>3. ASSUME StagesInOrder
      PROVE  HolderSound(p)' /\ FilesSound' /\ \A q \in Processes \ {p} : HolderSound(q)'
  <2>1. HolderSound(p)'
    BY <1>2 DEF HolderSound
  <2>2. FilesSound'
    BY <1>1, <1>2, <1>3 DEF StagesInOrder, FilesSound
  <2>3. \A q \in Processes \ {p} : HolderSound(q)'
    BY <1>1, <1>2, <1>3 DEF StagesInOrder, HolderSound
  <2> QED
    BY <2>1, <2>2, <2>3
<1> QED
  BY <1>1, <1>2, <1>3, AdvanceKeeps DEF AuthInv, AuthTypeOK, Places

LEMMA GenerateKeeps ==
    ASSUME AuthInv, NEW p \in Processes, StartAndGenerate(p)
    PROVE  AuthInv'
<1> DEFINE new  == generated + 1
           held == [at |-> "createCert", cert |-> new, key |-> new]
<1>1. /\ Become(p, held) /\ process[p].at = "off"
      /\ UNCHANGED <<certFile, keyFile, served, trusted>>
      /\ generated' = new /\ generated < MaxAuthorities
      /\ overwritten' = (overwritten \/ certFile # NoFile \/ AnotherSaves(p))
  BY DEF StartAndGenerate, GenerateCA, vars, files
<1>2. new \in Authorities /\ (generated \in 0..MaxAuthorities)'
  BY <1>1, AuthorityAssumption DEF AuthInv, AuthTypeOK, Authorities
<1>3. /\ process'[p] = held
      /\ \A q \in Processes \ {p} : process'[q] = process[q]
  BY <1>1, OthersStay DEF AuthInv
<1>4. ASSUME StagesInOrder, certFile = NoFile
      PROVE  HolderSound(p)' /\ FilesSound' /\ \A q \in Processes \ {p} : HolderSound(q)'
  <2>1. HolderSound(p)'
    BY <1>1, <1>3, <1>4 DEF HolderSound
  <2>2. FilesSound'
    BY <1>1, <1>3, <1>4 DEF StagesInOrder, FilesSound
  <2>3. \A q \in Processes \ {p} : HolderSound(q)'
    BY <1>1, <1>3, <1>4 DEF StagesInOrder, HolderSound
  <2> QED
    BY <2>1, <2>2, <2>3
<1> HIDE DEF new
<1>5. (overwritten \in BOOLEAN)' /\ (overwritten => overwritten')
      /\ (~overwritten' => certFile = NoFile /\ \A q \in Processes \ {p} : ~Saving(q))
  BY <1>1, Zenon DEF AuthInv, AuthTypeOK, AnotherSaves
<1> QED
  BY <1>1, <1>2, <1>4, <1>5, AdvanceKeeps DEF AuthInv, AuthTypeOK, Places

LEMMA LoadCertKeeps ==
    ASSUME AuthInv, NEW p \in Processes, LoadCert(p)
    PROVE  AuthInv'
<1>1. /\ process[p].at = "loadCert"
      /\ UNCHANGED <<certFile, keyFile, generated, overwritten, served, trusted>>
  BY DEF LoadCert, GiveUp, vars, files
<1>2. CASE GiveUp(p)
  BY <1>1, <1>2, EndKeeps DEF GiveUp
<1>3. CASE /\ certFile \in Authorities
           /\ Become(p, [at |-> "loadKey", cert |-> certFile, key |-> NoFile])
  <2>1. /\ process'[p] = [at |-> "loadKey", cert |-> certFile, key |-> NoFile]
        /\ \A q \in Processes \ {p} : process'[q] = process[q]
    BY <1>3, OthersStay DEF AuthInv
  <2>2. ASSUME StagesInOrder
        PROVE  HolderSound(p)' /\ FilesSound' /\ \A q \in Processes \ {p} : HolderSound(q)'
    <3>1. HolderSound(p)'
      BY <1>1, <2>1 DEF HolderSound
    <3>2. FilesSound'
      BY <1>1, <1>3, <2>1, <2>2, Distinctness DEF StagesInOrder, FilesSound
    <3>3. \A q \in Processes \ {p} : HolderSound(q)'
      BY <1>1, <2>1, <2>2 DEF StagesInOrder, HolderSound
    <3> QED
      BY <3>1, <3>2, <3>3
  <2> QED
    BY <1>1, <1>3, <2>2, AdvanceKeeps DEF AuthInv, AuthTypeOK, Places
<1> QED
  BY <1>2, <1>3 DEF LoadCert

LEMMA LoadKeyKeeps ==
    ASSUME AuthInv, NEW p \in Processes, LoadKey(p)
    PROVE  AuthInv'
<1> DEFINE held == [at |-> "up", cert |-> process[p].cert, key |-> keyFile]
<1>1. /\ process[p].at = "loadKey"
      /\ UNCHANGED <<certFile, keyFile, generated, overwritten, served, trusted>>
  BY DEF LoadKey, GiveUp, vars, files
<1>2. CASE GiveUp(p)
  BY <1>1, <1>2, EndKeeps DEF GiveUp
<1>3. CASE /\ keyFile \in Authorities
           /\ Become(p, held)
  <2>1. /\ process'[p] = held
        /\ \A q \in Processes \ {p} : process'[q] = process[q]
        /\ process[p].cert \in Authorities
    BY <1>1, <1>3, OthersStay DEF AuthInv, HeldPairs
  <2>2. ASSUME StagesInOrder
        PROVE  HolderSound(p)' /\ FilesSound' /\ \A q \in Processes \ {p} : HolderSound(q)'
    <3>1. HolderSound(p)'
      BY <1>1, <1>3, <2>1, <2>2 DEF StagesInOrder, HolderSound
    <3>2. FilesSound'
      BY <1>1, <2>1, <2>2, Distinctness DEF StagesInOrder, FilesSound, HolderSound
    <3>3. \A q \in Processes \ {p} : HolderSound(q)'
      BY <1>1, <2>1, <2>2 DEF StagesInOrder, HolderSound
    <3> QED
      BY <3>1, <3>2, <3>3
  <2> QED
    BY <1>1, <1>3, <2>1, <2>2, AdvanceKeeps DEF AuthInv, AuthTypeOK, Places
<1> QED
  BY <1>2, <1>3 DEF LoadKey

LEMMA CreateCertKeeps ==
    ASSUME AuthInv, NEW p \in Processes, CreateCert(p)
    PROVE  AuthInv'
<1> DEFINE held == [at |-> "writeCert", cert |-> process[p].cert, key |-> process[p].key]
<1>1. /\ Become(p, held) /\ process[p].at = "createCert" /\ certFile' = Damaged
      /\ UNCHANGED <<keyFile, generated, overwritten, served, trusted>>
  BY GotoIsBecome DEF CreateCert, AuthInv, Places, vars
<1>2. /\ process'[p] = held
      /\ \A q \in Processes \ {p} : process'[q] = process[q]
      /\ process[p].cert \in Authorities /\ process[p].key = process[p].cert
  BY <1>1, OthersStay DEF AuthInv, HeldPairs, Saving
<1>3. ASSUME StagesInOrder
      PROVE  /\ HolderSound(p)' /\ FilesSound' /\ \A q \in Processes \ {p} : HolderSound(q)'
             /\ \A q \in Processes \ {p} : ~Saving(q)
  <2>1. HolderSound(p) /\ \A q \in Processes \ {p} : HolderSound(q) /\ ~Saving(q)
    BY <1>1, <1>3 DEF StagesInOrder, OneSaver, Saving
  <2>2. HolderSound(p)'
    BY <1>1, <1>2, <1>3, <2>1 DEF HolderSound, StagesInOrder, FilesSound
  <2>3. FilesSound'
    <3>1. trusted \in Authorities \cup {NoFile}
      BY DEF AuthInv, AuthTypeOK
    <3> QED
      BY <1>1, <1>2, <1>3, <2>1, <3>1, Distinctness DEF StagesInOrder, FilesSound, HolderSound
  <2>4. ASSUME NEW q \in Processes \ {p} PROVE HolderSound(q)'
    <3>1. process'[q] = process[q] /\ process[q].at \notin
             {"createCert", "writeCert", "createKey", "writeKey"}
      BY <1>2, <2>1 DEF Saving
    <3>2. process[q].at \in {"loadKey", "up"} => process[q].cert \in Authorities
      BY DEF AuthInv, HeldPairs
    <3> QED
      BY <1>1, <1>2, <1>3, <2>1, <3>1, <3>2, Distinctness
      DEF HolderSound, StagesInOrder, FilesSound
  <2> QED
    BY <2>1, <2>2, <2>3, <2>4
<1> QED
  BY <1>1, <1>2, <1>3, AdvanceKeeps DEF AuthInv, AuthTypeOK, Places

LEMMA WriteCertKeeps ==
    ASSUME AuthInv, NEW p \in Processes, WriteCert(p)
    PROVE  AuthInv'
<1> DEFINE held == [at |-> "createKey", cert |-> process[p].cert, key |-> process[p].key]
<1>1. /\ Become(p, held) /\ process[p].at = "writeCert" /\ certFile' = process[p].cert
      /\ UNCHANGED <<keyFile, generated, overwritten, served, trusted>>
  BY GotoIsBecome DEF WriteCert, AuthInv, Places, vars
<1>2. /\ process'[p] = held
      /\ \A q \in Processes \ {p} : process'[q] = process[q]
      /\ process[p].cert \in Authorities /\ process[p].key = process[p].cert
  BY <1>1, OthersStay DEF AuthInv, HeldPairs, Saving
<1>3. ASSUME StagesInOrder
      PROVE  /\ HolderSound(p)' /\ FilesSound' /\ \A q \in Processes \ {p} : HolderSound(q)'
             /\ \A q \in Processes \ {p} : ~Saving(q)
  <2>1. HolderSound(p) /\ \A q \in Processes \ {p} : HolderSound(q) /\ ~Saving(q)
    BY <1>1, <1>3 DEF StagesInOrder, OneSaver, Saving
  <2>2. HolderSound(p)'
    BY <1>1, <1>2, <1>3, <2>1 DEF HolderSound, StagesInOrder, FilesSound
  <2>3. FilesSound'
    <3>1. trusted \in Authorities \cup {NoFile}
      BY DEF AuthInv, AuthTypeOK
    <3> QED
      BY <1>1, <1>2, <1>3, <2>1, <3>1, Distinctness DEF StagesInOrder, FilesSound, HolderSound
  <2>4. ASSUME NEW q \in Processes \ {p} PROVE HolderSound(q)'
    <3>1. process'[q] = process[q] /\ process[q].at \notin
             {"createCert", "writeCert", "createKey", "writeKey"}
      BY <1>2, <2>1 DEF Saving
    <3>2. process[q].at \in {"loadKey", "up"} => process[q].cert \in Authorities
      BY DEF AuthInv, HeldPairs
    <3> QED
      BY <1>1, <1>2, <1>3, <2>1, <3>1, <3>2, Distinctness
      DEF HolderSound, StagesInOrder, FilesSound
  <2> QED
    BY <2>1, <2>2, <2>3, <2>4
<1> QED
  BY <1>1, <1>2, <1>3, AdvanceKeeps DEF AuthInv, AuthTypeOK, Places

LEMMA CreateKeyKeeps ==
    ASSUME AuthInv, NEW p \in Processes, CreateKey(p)
    PROVE  AuthInv'
<1> DEFINE held == [at |-> "writeKey", cert |-> process[p].cert, key |-> process[p].key]
<1>1. /\ Become(p, held) /\ process[p].at = "createKey" /\ keyFile' = Damaged
      /\ UNCHANGED <<certFile, generated, overwritten, served, trusted>>
  BY GotoIsBecome DEF CreateKey, AuthInv, Places, vars
<1>2. /\ process'[p] = held
      /\ \A q \in Processes \ {p} : process'[q] = process[q]
      /\ process[p].cert \in Authorities /\ process[p].key = process[p].cert
  BY <1>1, OthersStay DEF AuthInv, HeldPairs, Saving
<1>3. ASSUME StagesInOrder
      PROVE  /\ HolderSound(p)' /\ FilesSound' /\ \A q \in Processes \ {p} : HolderSound(q)'
             /\ \A q \in Processes \ {p} : ~Saving(q)
  <2>1. HolderSound(p) /\ \A q \in Processes \ {p} : HolderSound(q) /\ ~Saving(q)
    BY <1>1, <1>3 DEF StagesInOrder, OneSaver, Saving
  <2>2. HolderSound(p)'
    BY <1>1, <1>2, <1>3, <2>1 DEF HolderSound, StagesInOrder, FilesSound
  <2>3. FilesSound'
    <3>1. trusted \in Authorities \cup {NoFile}
      BY DEF AuthInv, AuthTypeOK
    <3> QED
      BY <1>1, <1>2, <1>3, <2>1, <3>1, Distinctness DEF StagesInOrder, FilesSound, HolderSound
  <2>4. ASSUME NEW q \in Processes \ {p} PROVE HolderSound(q)'
    <3>1. process'[q] = process[q] /\ process[q].at \notin
             {"createCert", "writeCert", "createKey", "writeKey"}
      BY <1>2, <2>1 DEF Saving
    <3>2. process[q].at \in {"loadKey", "up"} => process[q].cert \in Authorities
      BY DEF AuthInv, HeldPairs
    <3> QED
      BY <1>1, <1>2, <1>3, <2>1, <3>1, <3>2, Distinctness
      DEF HolderSound, StagesInOrder, FilesSound
  <2> QED
    BY <2>1, <2>2, <2>3, <2>4
<1> QED
  BY <1>1, <1>2, <1>3, AdvanceKeeps DEF AuthInv, AuthTypeOK, Places

LEMMA WriteKeyKeeps ==
    ASSUME AuthInv, NEW p \in Processes, WriteKey(p)
    PROVE  AuthInv'
<1> DEFINE held == [at |-> "up", cert |-> process[p].cert, key |-> process[p].key]
<1>1. /\ Become(p, held) /\ process[p].at = "writeKey" /\ keyFile' = process[p].key
      /\ UNCHANGED <<certFile, generated, overwritten, served, trusted>>
  BY GotoIsBecome DEF WriteKey, AuthInv, Places, vars
<1>2. /\ process'[p] = held
      /\ \A q \in Processes \ {p} : process'[q] = process[q]
      /\ process[p].cert \in Authorities /\ process[p].key = process[p].cert
  BY <1>1, OthersStay DEF AuthInv, HeldPairs, Saving
<1>3. ASSUME StagesInOrder
      PROVE  /\ HolderSound(p)' /\ FilesSound' /\ \A q \in Processes \ {p} : HolderSound(q)'
             /\ \A q \in Processes \ {p} : ~Saving(q)
  <2>1. HolderSound(p) /\ \A q \in Processes \ {p} : HolderSound(q) /\ ~Saving(q)
    BY <1>1, <1>3 DEF StagesInOrder, OneSaver, Saving
  <2>2. HolderSound(p)'
    BY <1>1, <1>2, <1>3, <2>1 DEF HolderSound, StagesInOrder, FilesSound
  <2>3. FilesSound'
    <3>1. trusted \in Authorities \cup {NoFile}
      BY DEF AuthInv, AuthTypeOK
    <3> QED
      BY <1>1, <1>2, <1>3, <2>1, <3>1, Distinctness DEF StagesInOrder, FilesSound, HolderSound
  <2>4. ASSUME NEW q \in Processes \ {p} PROVE HolderSound(q)'
    <3>1. process'[q] = process[q] /\ process[q].at \notin
             {"createCert", "writeCert", "createKey", "writeKey"}
      BY <1>2, <2>1 DEF Saving
    <3>2. process[q].at \in {"loadKey", "up"} => process[q].cert \in Authorities
      BY DEF AuthInv, HeldPairs
    <3> QED
      BY <1>1, <1>2, <1>3, <2>1, <3>1, <3>2, Distinctness
      DEF HolderSound, StagesInOrder, FilesSound
  <2> QED
    BY <2>1, <2>2, <2>3, <2>4
<1> QED
  BY <1>1, <1>2, <1>3, AdvanceKeeps DEF AuthInv, AuthTypeOK, Places

\* A failing SaveCA changes a file only where it was damaged already, unless
\* two processes write at the same time.
LEMMA SaveFailsKeeps ==
    ASSUME AuthInv, NEW p \in Processes, SaveFails(p)
    PROVE  AuthInv'
<1>1. /\ Become(p, Off) /\ Saving(p)
      /\ UNCHANGED <<generated, overwritten, served, trusted>>
      /\ certFile' = certFile \/ (process[p].at = "writeCert" /\ certFile' = Damaged)
      /\ keyFile' = keyFile \/ (process[p].at = "writeKey" /\ keyFile' = Damaged)
  BY DEF SaveFails, vars
<1>2. CASE ~overwritten
  <2>1. HolderSound(p)
    BY <1>2 DEF AuthInv, StagesInOrder
  <2>2. UNCHANGED <<certFile, keyFile>>
    BY <1>1, <2>1 DEF HolderSound
  <2> QED
    BY <1>1, <2>2, EndKeeps DEF Saving
<1>3. CASE overwritten
  <2>1. /\ process'[p] = Off /\ \A q \in Processes \ {p} : process'[q] = process[q]
        /\ process' \in [Processes -> [at : Places, cert : Authorities \cup {NoFile},
                                       key : Authorities \cup {NoFile}]]
    BY <1>1, OthersStay, Distinctness DEF AuthInv
  <2>2. process'[p].at = "off"
    BY <2>1, Distinctness
  <2>3. AuthTypeOK'
    BY <1>1, <2>1 DEF AuthInv, AuthTypeOK
  <2>4. ServedWhenUp'
    BY <1>1, <2>1, Distinctness DEF AuthInv, ServedWhenUp, Saving
  <2>5. HeldPairs'
    BY <2>1, <2>2 DEF AuthInv, HeldPairs, Saving
  <2> QED
    BY <1>1, <1>3, <2>3, <2>4, <2>5 DEF AuthInv
<1> QED
  BY <1>2, <1>3 DEF AuthInv, AuthTypeOK

LEMMA AuthorityStep ==
    ASSUME AuthInv, [AuthorityNext]_allVars
    PROVE  AuthInv'
<1>1. ASSUME UNCHANGED authVars, served' = served \/ process[Server].at = "up"
      PROVE  AuthInv'
  BY <1>1 DEF authVars, files, AuthInv, AuthTypeOK, ServedWhenUp, HeldPairs, Saving,
     StagesInOrder, OneSaver, FilesSound, HolderSound
<1>2. ASSUME NEW p \in Processes, EnsureCA(p)
      PROVE  AuthInv'
  <2>1. CASE StartFails(p)
    BY <1>1, <2>1 DEF StartFails, allVars, vars
  <2> QED
    BY <1>2, <2>1, StartAndLoadKeeps, GenerateKeeps, LoadCertKeeps, LoadKeyKeeps,
       CreateCertKeeps, WriteCertKeeps, CreateKeyKeeps, WriteKeyKeeps, SaveFailsKeeps
    DEF EnsureCA
<1>3. ASSUME NEW p \in Processes, Export(p)
      PROVE  AuthInv'
  <2>1. p # Server
    BY <1>3, AuthorityAssumption DEF Export
  <2> QED
    BY <1>3, <2>1, EndKeeps DEF Export, vars, files
<1>4. ASSUME NEW p \in Processes, Stop(p)
      PROVE  AuthInv'
  BY <1>4, EndKeeps DEF Stop, files
<1>5. ASSUME NEW h \in Hosts, Connect(h)
      PROVE  AuthInv'
  BY <1>1, <1>5 DEF Connect
<1>6. ASSUME Pass \/ UNCHANGED allVars
      PROVE  AuthInv'
  BY <1>1, <1>6 DEF Pass, Tick, allVars, vars
<1> QED
  BY <1>2, <1>3, <1>4, <1>5, <1>6 DEF AuthorityNext

\* The files and the processes stay in step: while no process generated over
\* files that were there or that another was writing, every process that holds
\* a certificate holds the one in the file (EnsureCA, SaveCA, LoadCA).
THEOREM AuthorityInvariance == AuthoritySpec => []AuthInv
<1>1. AuthorityInit => AuthInv
  <2> SUFFICES ASSUME AuthorityInit PROVE AuthInv
    OBVIOUS
  <2>1. /\ certFile = NoFile /\ keyFile = NoFile /\ generated = 0 /\ trusted = NoFile
        /\ overwritten = FALSE /\ served = NoCert
        /\ process = [p \in Processes |-> Off]
    BY DEF AuthorityInit, Init
  <2>2. \A p \in Processes : process[p] = Off /\ process[p].at = "off"
    BY <2>1, Distinctness
  <2>3. AuthTypeOK
    <3>1. process \in [Processes -> [at : Places, cert : Authorities \cup {NoFile},
                                     key : Authorities \cup {NoFile}]]
      BY <2>1, Distinctness
    <3>2. 0 \in 0..MaxAuthorities
      BY AuthorityAssumption
    <3> QED
      BY <2>1, <3>1, <3>2 DEF AuthTypeOK
  <2>4. HeldPairs /\ StagesInOrder /\ ServedWhenUp
    BY <2>1, <2>2, Distinctness DEF HeldPairs, StagesInOrder, OneSaver, FilesSound, HolderSound,
       Saving, ServedWhenUp
  <2> QED
    BY <2>3, <2>4 DEF AuthInv
<1>2. AuthInv /\ [AuthorityNext]_allVars => AuthInv'
  BY AuthorityStep
<1> QED
  BY <1>1, <1>2, PTL DEF AuthoritySpec

\* While os.Stat finds the files and no two processes generate at once, no
\* crash, failed load or later start takes away a root that was exported,
\* however many exports and starts of the proxy there are (EnsureCA, SaveCA).
THEOREM ExportedRootIsKept == AuthoritySpec => []ExportedRootKept
<1>1. AuthInv => ExportedRootKept
  BY Distinctness DEF AuthInv, AuthTypeOK, StagesInOrder, FilesSound, ExportedRootKept
<1> QED
  BY <1>1, AuthorityInvariance, PTL

\* Under the same conditions, whatever the proxy serves, before and after any
\* restart, chains to the root that clients trust (EnsureCA, NewCertCache,
\* tlsCfg).
THEOREM ServedChains == AuthoritySpec => []ServedChainsToTrusted
<1>1. AuthInv => ServedChainsToTrusted
  BY Distinctness DEF AuthInv, AuthTypeOK, ServedWhenUp, StagesInOrder, FilesSound, HolderSound,
     ServedChainsToTrusted
<1> QED
  BY <1>1, AuthorityInvariance, PTL

\* Under the same conditions, a proxy that is up holds the key of its
\* certificate, although LoadCA reads the two files one by one and does not
\* compare them (LoadCA, SaveCA).
THEOREM ServerHoldsPair == AuthoritySpec => []PairMatches
<1>1. AuthInv => PairMatches
  BY Distinctness DEF AuthInv, StagesInOrder, FilesSound, HolderSound, PairMatches
<1> QED
  BY <1>1, AuthorityInvariance, PTL
=============================================================================
