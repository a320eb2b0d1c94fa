-------------------------- MODULE TieredStoreProofs --------------------------
(***************************************************************************)
(* Proof that a Put or a Delete that succeeded alone is never undone by    *)
(* reads, backfills, evictions or failing tiers, for any number of tiers   *)
(* and clients.                                                            *)
(***************************************************************************)
EXTENDS TieredStore, TLAPS

\* What a call is made of.
Shape(j) ==
    /\ j.at \in {"put", "get", "fill"} => j.span = N
    /\ j.at = "put" => j.data \in Versions
    /\ j.at = "fill" => j.todo \subseteq 1..(j.tier - 1)
    /\ j.at \in {"exists", "delete"} => j.tier <= j.span /\ j.todo \subseteq 1..j.span
    /\ j.at = "exists" => j.part = "meta"
    /\ j.alone => j.span = N

Shapes == \A c \in Clients : Shape(job[c])

\* A Put or Delete is alone while the others do nothing or evict.
AloneMeans == \A c \in Clients :
    job[c].alone /\ job[c].at \in {"put", "exists", "delete"} =>
        \A d \in Clients \ {c} : job[d].at = "idle" \/ Evicting(d)

\* The tier holds v, unless the local tier's object was evicted.
Held(i, p, v) == tiers[i][p] = v \/ (i < N /\ tiers[i][p] = NoObject)

\* What Put j has written if it was alone and no tier failed: both objects but for
\* the part it is at in the tiers that are still to do.
PutSoFar(j) ==
    j.at = "put" /\ j.alone /\ ~j.failed => \A i \in Tiers :
        /\ i \notin j.todo \/ j.part = "body" => Held(i, "meta", j.data)
        /\ i \notin j.todo /\ j.part = "body" => Held(i, "body", j.data)

DeleteSoFar(j) ==
    j.at = "delete" /\ j.alone /\ ~j.failed => \A i \in Tiers :
        /\ i \notin j.todo \/ j.part = "body" => tiers[i]["meta"] = NoObject
        /\ i \notin j.todo /\ j.part = "body" => tiers[i]["body"] = NoObject

Progress == \A c \in Clients : PutSoFar(job[c]) /\ DeleteSoFar(job[c])

\* What a backfill may write once the store has settled.
Settles(v) ==
    settled # NoObject /\ (v = settled \/ (v = Damaged /\ Torn # {}))

\* While the store is settled there are only reads and evictions.
SettledQuiet == settled # Unknown => \A c \in Clients :
    /\ job[c].at \in {"idle", "get", "fill"} \/ Evicting(c)
    /\ job[c].at = "fill" => Settles(job[c].data)

IndInv ==
    /\ TypeOK
    /\ Shapes
    /\ AloneMeans
    /\ Progress
    /\ SettledQuiet
    /\ SettledAgree

-----------------------------------------------------------------------------
LEMMA TierFacts ==
    /\ N \in Nat /\ N >= 1 /\ 1 \in Tiers /\ N \in Tiers /\ FirstTier = 1
    /\ \A i \in Tiers : i \in Int /\ i >= 1 /\ i <= N
BY TierAssumption DEF Tiers, FirstTier

LEMMA IdleFacts == Idle \in Jobs /\ Shape(Idle) /\ Idle.at = "idle"
BY TierFacts DEF Idle, Jobs, Parts, Values, Shape

\* The client's own call is j; those of the others are as before, or have met c.
Moves(c, j) ==
    /\ job' \in [Clients -> Jobs]
    /\ job'[c] = j
    /\ \A d \in Clients \ {c} :
        /\ job'[d].at = job[d].at /\ job'[d].part = job[d].part /\ job'[d].data = job[d].data
        /\ job'[d].todo = job[d].todo /\ job'[d].tier = job[d].tier
        /\ job'[d].span = job[d].span /\ job'[d].failed = job[d].failed
        /\ job'[d].alone => job[d].alone

LEMMA GoMoves ==
    ASSUME TypeOK, NEW c \in Clients, NEW j \in Jobs, job' = [job EXCEPT ![c] = j]
    PROVE  Moves(c, j)
BY DEF Moves, TypeOK

\* Shapes is a matter of the moving client alone.
LEMMA ShapesKept ==
    ASSUME Shapes, NEW c \in Clients, NEW j \in Jobs, Moves(c, j), Shape(j)
    PROVE  Shapes'
<1> SUFFICES ASSUME NEW d \in Clients PROVE Shape(job'[d])
  BY DEF Shapes, Shape
<1>1. CASE d = c
  BY <1>1 DEF Moves
<1>2. CASE d # c
  BY <1>2 DEF Moves, Shapes, Shape
<1> QED BY <1>1, <1>2

\* The client's next state j belongs to the call it is in, or ends it, or evicts.
Continues(c, j) ==
    \/ j.at = "idle"
    \/ j.at \in {"exists", "delete"} /\ j.span < N
    \/ /\ j.span = job[c].span /\ (j.alone => job[c].alone)
       /\ \/ j.at = "put" /\ job[c].at = "put"
          \/ j.at \in {"exists", "delete"} /\ job[c].at \in {"exists", "delete"}
    \/ j.at \in {"get", "fill"} /\ job[c].at \in {"get", "fill"}

\* A client that does not start a call keeps the others alone.
LEMMA AloneKept ==
    ASSUME TypeOK, AloneMeans, NEW c \in Clients, NEW j \in Jobs, Moves(c, j), Shape(j),
           Continues(c, j)
    PROVE  AloneMeans'
<1> SUFFICES ASSUME NEW d \in Clients, NEW e \in Clients \ {d},
                    job'[d].alone, job'[d].at \in {"put", "exists", "delete"}
             PROVE  job'[e].at = "idle" \/ Evicting(e)'
  BY DEF AloneMeans
<1>1. CASE d = c
  <2>1. j.alone /\ j.span = N /\ j.at \in {"put", "exists", "delete"}
    BY <1>1 DEF Moves, Shape
  <2>2. job[c].alone /\ job[c].at \in {"put", "exists", "delete"}
    BY <2>1, TierFacts DEF Continues
  <2>3. job[e].at = "idle" \/ Evicting(e)
    BY <2>2, <1>1 DEF AloneMeans
  <2> QED BY <2>3, <1>1 DEF Moves, Evicting
<1>2. CASE d # c /\ e # c
  BY <1>2 DEF Moves, AloneMeans, Evicting
<1>3. CASE d # c /\ e = c
  <2>1. job[d].alone /\ job[d].at \in {"put", "exists", "delete"}
    BY <1>3 DEF Moves
  <2>2. job[c].at = "idle" \/ Evicting(c)
    BY <2>1, <1>3 DEF AloneMeans
  <2> QED BY <2>2, <1>3 DEF Moves, Evicting, Continues
<1> QED BY <1>1, <1>2, <1>3

\* Progress, for a step that leaves the tiers alone.
LEMMA ProgressKept ==
    ASSUME Progress, NEW c \in Clients, NEW j \in Jobs, Moves(c, j), tiers' = tiers,
           PutSoFar(j), DeleteSoFar(j)
    PROVE  Progress'
<1> SUFFICES ASSUME NEW d \in Clients PROVE PutSoFar(job[d])' /\ DeleteSoFar(job[d])'
  BY DEF Progress
<1>1. CASE d = c
  BY <1>1 DEF Moves, PutSoFar, DeleteSoFar, Held
<1>2. CASE d # c
  BY <1>2 DEF Moves, Progress, PutSoFar, DeleteSoFar, Held
<1> QED BY <1>1, <1>2

\* Progress, for a step that writes v to a tier: beside a Put or Delete that is
\* alone only an eviction does.
LEMMA ProgressWritten ==
    ASSUME TypeOK, Progress, AloneMeans, NEW c \in Clients, NEW j \in Jobs, Moves(c, j),
           NEW i \in Tiers, NEW p \in Parts, NEW v \in Values,
           tiers' = [tiers EXCEPT ![i][p] = v],
           job[c].at # "idle",
           Evicting(c) => i < N /\ v = NoObject,
           PutSoFar(job[c])', DeleteSoFar(job[c])'
    PROVE  Progress'
<1> SUFFICES ASSUME NEW d \in Clients PROVE PutSoFar(job[d])' /\ DeleteSoFar(job[d])'
  BY DEF Progress
<1>1. CASE d = c
  BY <1>1
<1>2. CASE d # c /\ job'[d].alone /\ job'[d].at \in {"put", "delete"}
  <2>1. job[d].alone /\ job[d].at \in {"put", "delete"}
    BY <1>2 DEF Moves
  <2>2. Evicting(c)
    BY <2>1, <1>2 DEF AloneMeans
  <2>3. PutSoFar(job[d]) /\ DeleteSoFar(job[d])
    BY DEF Progress
  <2>4. \A k \in Tiers, q \in Parts :
            tiers'[k][q] = tiers[k][q] \/ (k < N /\ tiers'[k][q] = NoObject)
    BY <2>2 DEF TypeOK
  <2>5. "meta" \in Parts /\ "body" \in Parts
    BY DEF Parts
  <2>6. PutSoFar(job[d])'
    BY <2>3, <2>4, <2>5, <1>2 DEF Moves, PutSoFar, Held
  <2>7. DeleteSoFar(job[d])'
    BY <2>3, <2>4, <2>5, <1>2 DEF Moves, DeleteSoFar
  <2> QED BY <2>6, <2>7
<1>3. CASE ~(job'[d].alone /\ job'[d].at \in {"put", "delete"})
  BY <1>3 DEF PutSoFar, DeleteSoFar
<1> QED BY <1>1, <1>2, <1>3

\* A call that may run while the store is settled.
Harmless(j) ==
    /\ j.at \in {"idle", "get", "fill"} \/ (j.at \in {"exists", "delete"} /\ j.span < N)
    /\ j.at = "fill" => Settles(j.data)

LEMMA SettledKept ==
    ASSUME TypeOK, SettledQuiet, SettledAgree, NEW c \in Clients, NEW j \in Jobs, Moves(c, j),
           tiers' = tiers, settled' = settled, settled # Unknown => Harmless(j)
    PROVE  SettledQuiet' /\ SettledAgree'
<1>1. SettledAgree'
  BY DEF SettledAgree
<1>2. SettledQuiet'
  BY DEF SettledQuiet, Harmless, Settles, Moves, Evicting
<1> QED BY <1>1, <1>2

LEMMA SettledWritten ==
    ASSUME TypeOK, SettledQuiet, SettledAgree, NEW c \in Clients, NEW j \in Jobs, Moves(c, j),
           NEW i \in Tiers, NEW p \in Parts, NEW v \in Values,
           tiers' = [tiers EXCEPT ![i][p] = v], settled' = settled,
           settled # Unknown => Harmless(j) /\ i < N /\ (v = NoObject \/ Settles(v))
    PROVE  SettledQuiet' /\ SettledAgree'
<1>1. SettledQuiet'
  BY DEF SettledQuiet, Harmless, Settles, Moves, Evicting
<1>2. SettledAgree'
  <2> SUFFICES ASSUME settled # Unknown, NEW q \in Parts, NEW k \in Tiers
               PROVE  /\ tiers'[N][q] = settled
                      /\ \/ tiers'[k][q] \in {settled, NoObject}
                         \/ tiers'[k][q] = Damaged /\ Torn # {} /\ settled # NoObject
    BY DEF SettledAgree
  <2>1. tiers'[N][q] = tiers[N][q]
    BY TierFacts DEF TypeOK
  <2>2. tiers'[k][q] = tiers[k][q] \/ tiers'[k][q] = v
    BY DEF TypeOK
  <2> QED BY <2>1, <2>2 DEF SettledAgree, Settles
<1> QED BY <1>1, <1>2

LEMMA SettledReset ==
    ASSUME settled' = Unknown
    PROVE  SettledQuiet' /\ SettledAgree'
BY DEF SettledQuiet, SettledAgree

-----------------------------------------------------------------------------
(* Every step keeps the invariant. *)

LEMMA StartedMoves ==
    ASSUME TypeOK, NEW c \in Clients, NEW j \in Jobs, NEW changes \in BOOLEAN,
           job' = Started(c, j, changes)
    PROVE  /\ Moves(c, job'[c]) /\ job'[c] \in Jobs
           /\ job'[c].at = j.at /\ job'[c].part = j.part /\ job'[c].data = j.data
           /\ job'[c].todo = j.todo /\ job'[c].tier = j.tier /\ job'[c].span = j.span
           /\ job'[c].alone /\ changes =>
                \A e \in Clients \ {c} : job[e].at = "idle" \/ Evicting(e)
           /\ \A d \in Clients \ {c} : job'[d].alone => ~changes /\ Reading(d)
<1> DEFINE b == \A e \in Clients \ {c} :
                 job[e].at = "idle" \/ Evicting(e) \/ (~changes /\ Reading(e) /\ job[e].alone)
<1>1. job'[c] = [j EXCEPT !.alone = b]
  BY DEF Started
<1>2. b \in BOOLEAN
  OBVIOUS
<1>3. job'[c] \in Jobs
  BY <1>1, <1>2 DEF Jobs
<1>4. /\ job'[c].at = j.at /\ job'[c].part = j.part /\ job'[c].data = j.data
      /\ job'[c].todo = j.todo /\ job'[c].tier = j.tier /\ job'[c].span = j.span
      /\ job'[c].alone = b
  BY <1>1 DEF Jobs
<1>5. ASSUME NEW d \in Clients \ {c}
      PROVE  /\ job'[d] \in Jobs
             /\ job'[d].at = job[d].at /\ job'[d].part = job[d].part /\ job'[d].data = job[d].data
             /\ job'[d].todo = job[d].todo /\ job'[d].tier = job[d].tier
             /\ job'[d].span = job[d].span /\ job'[d].failed = job[d].failed
             /\ job'[d].alone = (job[d].alone /\ ~changes /\ Reading(d))
  <2>1. job'[d] = [job[d] EXCEPT !.alone = job[d].alone /\ ~changes /\ Reading(d)]
    BY DEF Started
  <2>2. job[d] \in Jobs /\ (job[d].alone /\ ~changes /\ Reading(d)) \in BOOLEAN
    BY DEF TypeOK
  <2> QED BY <2>1, <2>2 DEF Jobs
<1>6. job' \in [Clients -> Jobs]
  BY <1>3, <1>5 DEF Started
<1>7. Moves(c, job'[c])
  BY <1>5, <1>6 DEF Moves
<1>8. job'[c].alone /\ changes => \A e \in Clients \ {c} : job[e].at = "idle" \/ Evicting(e)
  BY <1>4
<1>9. \A d \in Clients \ {c} : job'[d].alone => ~changes /\ Reading(d)
  BY <1>5
<1> QED BY <1>3, <1>4, <1>7, <1>8, <1>9

LEMMA StartKeeps ==
    ASSUME IndInv, NEW c \in Clients, Start(c)
    PROVE  IndInv'
<1>0. /\ TypeOK /\ Shapes /\ AloneMeans /\ Progress /\ SettledQuiet /\ SettledAgree
      /\ Idle \in Jobs /\ Idle.at = "idle"
  BY IdleFacts DEF IndInv
<1>1. ASSUME NEW v \in Versions, StartPut(c, v) PROVE IndInv'
  <2> DEFINE j == [Idle EXCEPT !.at = "put", !.data = v, !.todo = Tiers]
  <2>1. /\ j \in Jobs /\ j.at = "put" /\ j.data = v /\ j.todo = Tiers /\ j.span = N
        /\ j.part = "meta"
    BY TierFacts DEF Idle, Jobs, Parts, Values
  <2>2. job' = Started(c, j, TRUE) /\ tiers' = tiers /\ settled' = Unknown
    BY <1>1 DEF StartPut
  <2> HIDE DEF j
  <2>3. /\ Moves(c, job'[c]) /\ job'[c] \in Jobs
        /\ job'[c].at = "put" /\ job'[c].data = v /\ job'[c].todo = Tiers /\ job'[c].span = N
        /\ job'[c].part = "meta"
        /\ job'[c].alone => \A e \in Clients \ {c} : job[e].at = "idle" \/ Evicting(e)
        /\ \A d \in Clients \ {c} : ~job'[d].alone
    BY <1>0, <2>1, <2>2, StartedMoves
  <2>4. TypeOK'
    BY <1>0, <2>2, <2>3 DEF TypeOK, Moves
  <2>5. Shapes'
    BY <1>0, <2>3, ShapesKept DEF Shape
  <2>6. AloneMeans'
    BY <2>3 DEF AloneMeans, Moves, Evicting
  <2>7. PutSoFar(job'[c]) /\ DeleteSoFar(job'[c])
    BY <2>3 DEF PutSoFar, DeleteSoFar
  <2>8. Progress'
    BY <1>0, <2>2, <2>3, <2>7, ProgressKept
  <2> QED BY <2>2, <2>4, <2>5, <2>6, <2>8, SettledReset DEF IndInv
<1>2. CASE StartGet(c)
  <2> DEFINE j == [Idle EXCEPT !.at = "get", !.tier = FirstTier]
  <2>1. j \in Jobs /\ j.at = "get" /\ j.span = N
    BY TierFacts DEF Idle, Jobs, Parts, Values
  <2>2. job' = Started(c, j, FALSE) /\ tiers' = tiers /\ settled' = settled
    BY <1>2 DEF StartGet
  <2> HIDE DEF j
  <2>3. /\ Moves(c, job'[c]) /\ job'[c] \in Jobs /\ job'[c].at = "get" /\ job'[c].span = N
        /\ \A d \in Clients \ {c} : job'[d].alone => Reading(d)
    BY <1>0, <2>1, <2>2, StartedMoves
  <2>4. TypeOK'
    BY <1>0, <2>2, <2>3 DEF TypeOK, Moves
  <2>5. Shapes'
    BY <1>0, <2>3, ShapesKept DEF Shape
  <2>6. AloneMeans'
    BY <2>3 DEF AloneMeans, Moves, Reading
  <2>7. PutSoFar(job'[c]) /\ DeleteSoFar(job'[c]) /\ Harmless(job'[c])
    BY <2>3 DEF PutSoFar, DeleteSoFar, Harmless
  <2>8. Progress'
    BY <1>0, <2>2, <2>3, <2>7, ProgressKept
  <2>9. SettledQuiet' /\ SettledAgree'
    BY <1>0, <2>2, <2>3, <2>7, SettledKept
  <2> QED BY <2>4, <2>5, <2>6, <2>8, <2>9 DEF IndInv
<1>3. CASE StartDelete(c)
  <2> DEFINE j == [Idle EXCEPT !.at = "exists"]
  <2>1. /\ j \in Jobs /\ j.at = "exists" /\ j.span = N /\ j.tier = 1 /\ j.todo = {}
        /\ j.part = "meta"
    BY TierFacts DEF Idle, Jobs, Parts, Values
  <2>2. job' = Started(c, j, TRUE) /\ tiers' = tiers /\ settled' = Unknown
    BY <1>3 DEF StartDelete
  <2> HIDE DEF j
  <2>3. /\ Moves(c, job'[c]) /\ job'[c] \in Jobs
        /\ job'[c].at = "exists" /\ job'[c].span = N /\ job'[c].tier = 1 /\ job'[c].todo = {}
        /\ job'[c].part = "meta"
        /\ job'[c].alone => \A e \in Clients \ {c} : job[e].at = "idle" \/ Evicting(e)
        /\ \A d \in Clients \ {c} : ~job'[d].alone
    BY <1>0, <2>1, <2>2, StartedMoves
  <2>4. TypeOK'
    BY <1>0, <2>2, <2>3 DEF TypeOK, Moves
  <2>5. Shapes'
    BY <1>0, <2>3, ShapesKept, TierFacts DEF Shape
  <2>6. AloneMeans'
    BY <2>3 DEF AloneMeans, Moves, Evicting
  <2>7. PutSoFar(job'[c]) /\ DeleteSoFar(job'[c])
    BY <2>3 DEF PutSoFar, DeleteSoFar
  <2>8. Progress'
    BY <1>0, <2>2, <2>3, <2>7, ProgressKept
  <2> QED BY <2>2, <2>4, <2>5, <2>6, <2>8, SettledReset DEF IndInv
<1>4. CASE StartEvict(c)
  <2> DEFINE j == [Idle EXCEPT !.at = "exists", !.span = 1]
  <2>1. /\ j \in Jobs /\ j.at = "exists" /\ j.span = 1 /\ j.tier = 1 /\ j.todo = {}
        /\ j.alone = FALSE /\ j.part = "meta"
    BY TierFacts DEF Idle, Jobs, Parts, Values
  <2>2. job' = [job EXCEPT ![c] = j] /\ tiers' = tiers /\ settled' = settled /\ N > 1
    BY <1>4 DEF StartEvict
  <2> HIDE DEF j
  <2>3. Moves(c, j)
    BY <1>0, <2>1, <2>2, GoMoves
  <2>4. TypeOK'
    BY <1>0, <2>2, <2>3 DEF TypeOK, Moves
  <2>5. Shape(j) /\ j.span < N
    BY <2>1, <2>2 DEF Shape
  <2>6. Shapes' /\ AloneMeans'
    BY <1>0, <2>1, <2>3, <2>5, ShapesKept, AloneKept DEF Continues
  <2>7. PutSoFar(j) /\ DeleteSoFar(j) /\ Harmless(j)
    BY <2>1, <2>5 DEF PutSoFar, DeleteSoFar, Harmless
  <2>8. Progress' /\ SettledQuiet' /\ SettledAgree'
    BY <1>0, <2>1, <2>2, <2>3, <2>7, ProgressKept, SettledKept
  <2> QED BY <2>4, <2>6, <2>8 DEF IndInv
<1> QED BY <1>1, <1>2, <1>3, <1>4 DEF Start

\* A step of c that only moves its call on.
LEMMA CallStep ==
    ASSUME IndInv, NEW c \in Clients, NEW j \in Jobs, Moves(c, j), Shape(j), Continues(c, j),
           tiers' = tiers, settled' = settled,
           PutSoFar(j), DeleteSoFar(j), settled # Unknown => Harmless(j)
    PROVE  IndInv'
<1>0. TypeOK /\ Shapes /\ AloneMeans /\ Progress /\ SettledQuiet /\ SettledAgree
  BY DEF IndInv
<1>1. TypeOK'
  BY <1>0 DEF TypeOK, Moves
<1>2. Shapes' /\ AloneMeans'
  BY <1>0, ShapesKept, AloneKept
<1>3. Progress' /\ SettledQuiet' /\ SettledAgree'
  BY <1>0, ProgressKept, SettledKept
<1> QED BY <1>1, <1>2, <1>3 DEF IndInv

\* A step of c that also writes v to a tier.
LEMMA WriteStep ==
    ASSUME IndInv, NEW c \in Clients, NEW j \in Jobs, Moves(c, j), Shape(j), Continues(c, j),
           NEW i \in Tiers, NEW p \in Parts, NEW v \in Values,
           tiers' = [tiers EXCEPT ![i][p] = v], settled' = settled,
           job[c].at # "idle",
           Evicting(c) => i < N /\ v = NoObject,
           PutSoFar(job[c])', DeleteSoFar(job[c])',
           settled # Unknown => Harmless(j) /\ i < N /\ (v = NoObject \/ Settles(v))
    PROVE  IndInv'
<1>0. TypeOK /\ Shapes /\ AloneMeans /\ Progress /\ SettledQuiet /\ SettledAgree
  BY DEF IndInv
<1>1. TypeOK'
  BY <1>0 DEF TypeOK, Moves
<1>2. Shapes' /\ AloneMeans'
  BY <1>0, ShapesKept, AloneKept
<1>3. Progress'
  BY <1>0, ProgressWritten
<1>4. SettledQuiet' /\ SettledAgree'
  BY <1>0, SettledWritten
<1> QED BY <1>1, <1>2, <1>3, <1>4 DEF IndInv

\* A call that returns an error, or nothing that settles the store.
LEMMA ReturnKeeps ==
    ASSUME IndInv, NEW c \in Clients, Return(c), tiers' = tiers, settled' = settled
    PROVE  IndInv'
<1>1. Idle \in Jobs /\ Shape(Idle) /\ Idle.at = "idle" /\ TypeOK
  BY IdleFacts DEF IndInv
<1>2. Moves(c, Idle)
  BY <1>1, GoMoves DEF Return
<1>3. PutSoFar(Idle) /\ DeleteSoFar(Idle) /\ Harmless(Idle) /\ Continues(c, Idle)
  BY <1>1 DEF PutSoFar, DeleteSoFar, Harmless, Continues
<1> QED BY <1>1, <1>2, <1>3, CallStep

\* A Put or Delete of the whole store returns; it was alone and settles on v.
LEMMA SettleKeeps ==
    ASSUME IndInv, NEW c \in Clients, Return(c), tiers' = tiers,
           NEW v \in Versions \cup {NoObject}, settled' = v,
           job[c].alone, job[c].at \in {"put", "exists", "delete"},
           \A i \in Tiers : \A p \in Parts : Held(i, p, v)
    PROVE  IndInv'
<1>0. TypeOK /\ Shapes /\ AloneMeans /\ Progress /\ SettledQuiet /\ SettledAgree
  BY DEF IndInv
<1>1. Idle \in Jobs /\ Shape(Idle) /\ Idle.at = "idle"
  BY IdleFacts
<1>2. Moves(c, Idle)
  BY <1>0, <1>1, GoMoves DEF Return
<1>3. PutSoFar(Idle) /\ DeleteSoFar(Idle) /\ Continues(c, Idle)
  BY <1>1 DEF PutSoFar, DeleteSoFar, Continues
<1>4. TypeOK'
  BY <1>0, <1>2 DEF TypeOK, Moves
<1>5. Shapes' /\ AloneMeans' /\ Progress'
  BY <1>0, <1>1, <1>2, <1>3, ShapesKept, AloneKept, ProgressKept
<1>6. SettledQuiet'
  <2> SUFFICES ASSUME NEW d \in Clients
               PROVE  (job'[d].at = "idle" \/ Evicting(d)') /\ job'[d].at # "fill"
    BY DEF SettledQuiet
  <2>1. CASE d = c
    BY <2>1, <1>1, <1>2 DEF Moves
  <2>2. CASE d # c
    BY <2>2, <1>0, <1>2 DEF AloneMeans, Moves, Evicting
  <2> QED BY <2>1, <2>2
<1>7. SettledAgree'
  BY TierFacts DEF SettledAgree, Held
<1> QED BY <1>4, <1>5, <1>6, <1>7 DEF IndInv

\* What a failing write leaves is a value; once settled, it agrees.
LEMMA FailureFacts ==
    ASSUME IndInv, NEW i \in Tiers, NEW p \in Parts, NEW v \in AfterFailure(i, p)
    PROVE  /\ v \in Values
           /\ settled # Unknown =>
                \/ v = NoObject \/ Settles(v)
                \/ v = Damaged /\ settled = NoObject
           /\ v = tiers[i][p] \/ (v = Damaged /\ Torn # {})
BY DEF IndInv, TypeOK, AfterFailure, Values, SettledAgree, Settles

LEMMA PutKeeps ==
    ASSUME IndInv, NEW c \in Clients, Put(c)
    PROVE  IndInv'
<1>0. /\ TypeOK /\ Shape(job[c]) /\ PutSoFar(job[c]) /\ job[c] \in Jobs
      /\ job[c].part \in Parts /\ tiers \in [Tiers -> [Parts -> Values]]
  BY DEF IndInv, TypeOK, Shapes, Progress, Jobs
<1>1. ASSUME job[c].at = "put" PROVE settled = Unknown /\ ~Evicting(c) /\ job[c].data \in Versions
  BY <1>0, <1>1 DEF IndInv, SettledQuiet, Evicting, Shape
<1>2. ASSUME NEW i \in Tiers, PutTier(c, i) PROVE IndInv'
  <2> DEFINE j == [job[c] EXCEPT !.todo = @ \ {i}]
  <2>1. /\ j \in Jobs /\ j.at = "put" /\ j.part = job[c].part /\ j.data = job[c].data
        /\ j.todo = job[c].todo \ {i} /\ j.span = job[c].span
        /\ j.alone = job[c].alone /\ j.failed = job[c].failed
    BY <1>0, <1>2 DEF PutTier, Jobs
  <2>2. /\ job' = [job EXCEPT ![c] = j] /\ settled' = settled /\ job[c].at = "put"
        /\ tiers' = [tiers EXCEPT ![i][job[c].part] = job[c].data]
    BY <1>2 DEF PutTier, Go
  <2> HIDE DEF j
  <2>3. Moves(c, j) /\ Shape(j) /\ Continues(c, j)
    BY <1>0, <2>1, <2>2, GoMoves DEF Shape, Continues
  <2>4. DeleteSoFar(job[c])'
    BY <2>1, <2>3 DEF DeleteSoFar, Moves
  <2>5. PutSoFar(job[c])'
    BY <1>0, <2>1, <2>2, <2>3 DEF PutSoFar, Held, Parts, Moves
  <2>6. job[c].data \in Values
    BY <1>0 DEF Jobs
  <2> QED BY <1>0, <1>1, <2>1, <2>2, <2>3, <2>4, <2>5, <2>6, WriteStep
<1>3. ASSUME NEW i \in Tiers, PutTierFails(c, i) PROVE IndInv'
  <2> DEFINE j == [job[c] EXCEPT !.todo = @ \ {i}, !.failed = TRUE]
  <2>1. /\ j \in Jobs /\ j.at = "put" /\ j.part = job[c].part /\ j.data = job[c].data
        /\ j.todo = job[c].todo \ {i} /\ j.span = job[c].span
        /\ j.alone = job[c].alone /\ j.failed = TRUE
    BY <1>0, <1>3 DEF PutTierFails, Jobs
  <2>2. /\ job' = [job EXCEPT ![c] = j] /\ settled' = settled /\ job[c].at = "put"
        /\ \E v \in AfterFailure(i, job[c].part) : tiers' = [tiers EXCEPT ![i][job[c].part] = v]
    BY <1>3 DEF PutTierFails, Go
  <2> HIDE DEF j
  <2>3. Moves(c, j) /\ Shape(j) /\ Continues(c, j)
    BY <1>0, <2>1, <2>2, GoMoves DEF Shape, Continues
  <2>4. DeleteSoFar(job[c])' /\ PutSoFar(job[c])'
    BY <2>1, <2>3 DEF DeleteSoFar, PutSoFar, Moves
  <2>5. PICK v \in AfterFailure(i, job[c].part) : tiers' = [tiers EXCEPT ![i][job[c].part] = v]
    BY <2>2
  <2>6. v \in Values
    BY <1>0, FailureFacts
  <2> QED BY <1>0, <1>1, <2>1, <2>2, <2>3, <2>4, <2>5, <2>6, WriteStep
<1>4. CASE PutPart(c) /\ job[c].part = "meta"
  <2> DEFINE j == [job[c] EXCEPT !.part = "body", !.todo = Tiers]
  <2>1. /\ j \in Jobs /\ j.at = "put" /\ j.part = "body" /\ j.data = job[c].data
        /\ j.todo = Tiers /\ j.span = job[c].span
        /\ j.alone = job[c].alone /\ j.failed = job[c].failed
    BY <1>0, <1>4 DEF PutPart, Jobs, Parts
  <2>2. /\ job' = [job EXCEPT ![c] = j] /\ settled' = settled /\ tiers' = tiers
        /\ job[c].at = "put" /\ job[c].todo = {}
    BY <1>4 DEF PutPart, Go
  <2> HIDE DEF j
  <2>3. Moves(c, j) /\ Shape(j) /\ Continues(c, j)
    BY <1>0, <2>1, <2>2, GoMoves DEF Shape, Continues
  <2>4. DeleteSoFar(j) /\ PutSoFar(j)
    BY <1>0, <2>1, <2>2 DEF DeleteSoFar, PutSoFar
  <2> QED BY <1>1, <2>1, <2>2, <2>3, <2>4, CallStep
<1>5. CASE PutPart(c) /\ job[c].part # "meta" /\ job[c].alone
  <2>1. /\ Return(c) /\ tiers' = tiers /\ settled' = job[c].data
        /\ job[c].at = "put" /\ job[c].todo = {} /\ ~job[c].failed /\ job[c].part = "body"
    BY <1>0, <1>5 DEF PutPart, Parts
  <2>2. \A i \in Tiers : \A p \in Parts : Held(i, p, job[c].data)
    BY <1>0, <1>5, <2>1 DEF PutSoFar, Parts
  <2> QED BY <1>1, <1>5, <2>1, <2>2, SettleKeeps
<1>6. CASE PutPart(c) /\ job[c].part # "meta" /\ ~job[c].alone
  BY <1>6, ReturnKeeps DEF PutPart
<1>7. CASE PutFails(c)
  BY <1>7, ReturnKeeps DEF PutFails
<1> QED BY <1>2, <1>3, <1>4, <1>5, <1>6, <1>7 DEF Put

LEMMA DeleteKeeps ==
    ASSUME IndInv, NEW c \in Clients, Delete(c)
    PROVE  IndInv'
<1>0. /\ TypeOK /\ Shape(job[c]) /\ DeleteSoFar(job[c]) /\ job[c] \in Jobs
      /\ job[c].part \in Parts /\ tiers \in [Tiers -> [Parts -> Values]]
  BY DEF IndInv, TypeOK, Shapes, Progress, Jobs
<1>1. ASSUME job[c].at \in {"exists", "delete"}
      PROVE  settled # Unknown => job[c].span < N
  BY <1>1 DEF IndInv, SettledQuiet, Evicting
<1>2. job[c].span \in Tiers /\ job[c].tier \in Tiers
  BY <1>0 DEF Jobs
<1>3. CASE ExistsTier(c)
  <2> DEFINE j == [job[c] EXCEPT !.at = "delete", !.todo = 1..job[c].span]
  <2>0. 1..job[c].span \in SUBSET Tiers
    BY <1>2, TierFacts DEF Tiers
  <2>1. /\ j \in Jobs /\ j.at = "delete" /\ j.part = job[c].part /\ j.todo = 1..job[c].span
        /\ j.span = job[c].span /\ j.tier = job[c].tier
        /\ j.alone = job[c].alone /\ j.failed = job[c].failed
    BY <1>0, <2>0 DEF Jobs
  <2>2. /\ job' = [job EXCEPT ![c] = j] /\ settled' = settled /\ tiers' = tiers
        /\ job[c].at = "exists"
    BY <1>3 DEF ExistsTier, Go
  <2> HIDE DEF j
  <2>3. Moves(c, j) /\ Shape(j) /\ Continues(c, j)
    BY <1>0, <2>1, <2>2, GoMoves DEF Shape, Continues
  <2>4. PutSoFar(j) /\ (settled # Unknown => Harmless(j))
    BY <1>1, <2>1, <2>2 DEF PutSoFar, Harmless
  <2>5. DeleteSoFar(j)
    <3>1. j.alone => j.todo = Tiers
      BY <2>1, <2>3 DEF Shape, Tiers
    <3>2. j.part = "meta"
      BY <1>0, <2>1, <2>2 DEF Shape
    <3> QED BY <3>1, <3>2 DEF DeleteSoFar
  <2> QED BY <2>1, <2>2, <2>3, <2>4, <2>5, CallStep
<1>4. CASE ExistsNext(c) /\ job[c].tier = job[c].span
  BY <1>4, ReturnKeeps DEF ExistsNext
<1>5. CASE ExistsNext(c) /\ job[c].tier # job[c].span
  <2> DEFINE j == [job[c] EXCEPT !.tier = @ + 1]
  <2>0. job[c].at = "exists" /\ job[c].tier + 1 <= job[c].span
    BY <1>0, <1>2, <1>5, TierFacts DEF ExistsNext, Shape
  <2>1. /\ j \in Jobs /\ j.at = "exists" /\ j.todo = job[c].todo /\ j.part = job[c].part
        /\ j.span = job[c].span /\ j.tier = job[c].tier + 1 /\ j.alone = job[c].alone
    <3>1. job[c].tier + 1 \in Tiers
      BY <1>2, <2>0, TierFacts DEF Tiers
    <3> QED BY <1>0, <2>0, <3>1 DEF Jobs
  <2>2. job' = [job EXCEPT ![c] = j] /\ settled' = settled /\ tiers' = tiers
    BY <1>5 DEF ExistsNext, Go
  <2> HIDE DEF j
  <2>3. Moves(c, j) /\ Shape(j) /\ Continues(c, j)
    BY <1>0, <2>0, <2>1, <2>2, GoMoves DEF Shape, Continues
  <2>4. PutSoFar(j) /\ DeleteSoFar(j) /\ (settled # Unknown => Harmless(j))
    BY <1>1, <2>0, <2>1 DEF PutSoFar, DeleteSoFar, Harmless
  <2> QED BY <2>1, <2>2, <2>3, <2>4, CallStep
<1>6. ASSUME NEW i \in Tiers, DeleteTier(c, i) PROVE IndInv'
  <2> DEFINE j == [job[c] EXCEPT !.todo = @ \ {i}]
  <2>1. /\ j \in Jobs /\ j.at = "delete" /\ j.part = job[c].part
        /\ j.todo = job[c].todo \ {i} /\ j.span = job[c].span /\ j.tier = job[c].tier
        /\ j.alone = job[c].alone /\ j.failed = job[c].failed
    BY <1>0, <1>6 DEF DeleteTier, Jobs
  <2>2. /\ job' = [job EXCEPT ![c] = j] /\ settled' = settled
        /\ job[c].at = "delete" /\ i \in job[c].todo
        /\ tiers' = [tiers EXCEPT ![i][job[c].part] = NoObject]
    BY <1>6 DEF DeleteTier, Go
  <2> HIDE DEF j
  <2>3. Moves(c, j) /\ Shape(j) /\ Continues(c, j)
    BY <1>0, <2>1, <2>2, GoMoves DEF Shape, Continues
  <2>4. PutSoFar(job[c])' /\ (settled # Unknown => Harmless(j))
    BY <1>1, <2>1, <2>2, <2>3 DEF PutSoFar, Harmless, Moves
  <2>5. DeleteSoFar(job[c])'
    BY <1>0, <2>1, <2>2, <2>3 DEF DeleteSoFar, Parts, Moves
  <2>6. job[c].span < N => i < N
    <3>1. i \in 1..job[c].span
      BY <1>0, <2>2 DEF Shape
    <3>2. job[c].span \in Int /\ i \in Int /\ N \in Int
      BY <1>2, TierFacts
    <3> QED BY <3>1, <3>2
  <2>7. Evicting(c) => i < N
    BY <2>6 DEF Evicting
  <2>8. NoObject \in Values
    BY DEF Values
  <2> QED BY <1>0, <1>1, <2>1, <2>2, <2>3, <2>4, <2>5, <2>6, <2>7, <2>8, WriteStep
<1>7. ASSUME NEW i \in Tiers, DeleteTierFails(c, i) PROVE IndInv'
  <2> DEFINE j == [job[c] EXCEPT !.todo = @ \ {i}, !.failed = TRUE]
  <2>1. /\ j \in Jobs /\ j.at = "delete" /\ j.part = job[c].part
        /\ j.todo = job[c].todo \ {i} /\ j.span = job[c].span /\ j.tier = job[c].tier
        /\ j.alone = job[c].alone /\ j.failed = TRUE
    BY <1>0, <1>7 DEF DeleteTierFails, Jobs
  <2>2. /\ job' = [job EXCEPT ![c] = j] /\ settled' = settled /\ tiers' = tiers
        /\ job[c].at = "delete"
    BY <1>7 DEF DeleteTierFails, Go
  <2> HIDE DEF j
  <2>3. Moves(c, j) /\ Shape(j) /\ Continues(c, j)
    BY <1>0, <2>1, <2>2, GoMoves DEF Shape, Continues
  <2>4. PutSoFar(j) /\ DeleteSoFar(j) /\ (settled # Unknown => Harmless(j))
    BY <1>1, <2>1, <2>2 DEF PutSoFar, DeleteSoFar, Harmless
  <2> QED BY <2>1, <2>2, <2>3, <2>4, CallStep
<1>8. CASE DeletePart(c) /\ job[c].part = "meta"
  <2> DEFINE j == [job[c] EXCEPT !.part = "body", !.todo = 1..job[c].span]
  <2>0. 1..job[c].span \in SUBSET Tiers
    BY <1>2, TierFacts DEF Tiers
  <2>1. /\ j \in Jobs /\ j.at = job[c].at /\ j.part = "body" /\ j.todo = 1..job[c].span
        /\ j.span = job[c].span /\ j.tier = job[c].tier
        /\ j.alone = job[c].alone /\ j.failed = job[c].failed
    BY <1>0, <2>0 DEF Jobs, Parts
  <2>2. /\ job' = [job EXCEPT ![c] = j] /\ settled' = settled /\ tiers' = tiers
        /\ job[c].at = "delete" /\ job[c].todo = {}
    BY <1>8 DEF DeletePart, Go
  <2> HIDE DEF j
  <2>3. Moves(c, j) /\ Shape(j) /\ Continues(c, j)
    BY <1>0, <2>1, <2>2, GoMoves DEF Shape, Continues
  <2>4. PutSoFar(j) /\ (settled # Unknown => Harmless(j))
    BY <1>1, <2>1, <2>2 DEF PutSoFar, Harmless
  <2>5. DeleteSoFar(j)
    <3>1. j.alone => j.todo = Tiers
      BY <2>1, <2>3 DEF Shape, Tiers
    <3> QED BY <1>0, <2>1, <2>2, <3>1 DEF DeleteSoFar
  <2> QED BY <2>1, <2>2, <2>3, <2>4, <2>5, CallStep
<1>9. CASE DeletePart(c) /\ job[c].part # "meta" /\ job[c].alone
  <2>1. /\ Return(c) /\ tiers' = tiers /\ settled' = NoObject
        /\ job[c].at = "delete" /\ job[c].todo = {} /\ ~job[c].failed /\ job[c].part = "body"
    BY <1>0, <1>9 DEF DeletePart, Parts
  <2>2. \A i \in Tiers : \A p \in Parts : Held(i, p, NoObject)
    BY <1>0, <1>9, <2>1 DEF DeleteSoFar, Parts, Held
  <2> QED BY <1>9, <2>1, <2>2, SettleKeeps
<1>10. CASE DeletePart(c) /\ job[c].part # "meta" /\ ~job[c].alone
  BY <1>10, ReturnKeeps DEF DeletePart
<1>11. CASE DeleteFails(c)
  BY <1>11, ReturnKeeps DEF DeleteFails
<1> QED BY <1>3, <1>4, <1>5, <1>6, <1>7, <1>8, <1>9, <1>10, <1>11 DEF Delete

\* The next state of a Get: idle, at a tier, or filling with what it read.
ReadsOn(c, j) ==
    /\ j \in Jobs /\ Shape(j)
    /\ j.at \in {"idle", "get", "fill"}
    /\ j.at = "fill" => job[c].at = "fill" /\ j.data = job[c].data

LEMMA ReadsOnFacts ==
    ASSUME IndInv, NEW c \in Clients, Reading(c), NEW j \in Jobs, ReadsOn(c, j), Moves(c, j)
    PROVE  /\ Continues(c, j) /\ PutSoFar(j) /\ DeleteSoFar(j)
           /\ PutSoFar(job[c])' /\ DeleteSoFar(job[c])'
           /\ settled # Unknown => Harmless(j)
<1>1. Continues(c, j) /\ PutSoFar(j) /\ DeleteSoFar(j)
  BY DEF ReadsOn, Reading, Continues, PutSoFar, DeleteSoFar
<1>2. PutSoFar(job[c])' /\ DeleteSoFar(job[c])'
  BY DEF ReadsOn, Moves, PutSoFar, DeleteSoFar
<1>3. settled # Unknown => Harmless(j)
  BY DEF ReadsOn, Harmless, IndInv, SettledQuiet
<1> QED BY <1>1, <1>2, <1>3

LEMMA PartReadGoes ==
    ASSUME IndInv, NEW c \in Clients, NEW v, PartRead(c, v)
    PROVE  \E j \in Jobs : job' = [job EXCEPT ![c] = j] /\ ReadsOn(c, j)
<1>1. CASE Return(c)
  <2>1. Idle \in Jobs /\ ReadsOn(c, Idle)
    BY IdleFacts DEF ReadsOn
  <2> QED BY <1>1, <2>1 DEF Return
<1>2. CASE ~Return(c)
  <2> DEFINE j == [Idle EXCEPT !.at = "get", !.part = "body", !.tier = FirstTier,
                               !.alone = job[c].alone]
  <2>1. job[c].alone \in BOOLEAN
    BY DEF IndInv, TypeOK, Jobs
  <2>2. j \in Jobs /\ j.at = "get" /\ j.span = N
    BY <2>1, TierFacts DEF Idle, Jobs, Parts, Values
  <2>3. job' = [job EXCEPT ![c] = j]
    BY <1>2 DEF PartRead, Go
  <2> HIDE DEF j
  <2>4. ReadsOn(c, j)
    BY <2>2 DEF ReadsOn, Shape
  <2> QED BY <2>2, <2>3, <2>4
<1> QED BY <1>1, <1>2

LEMMA FilledGoes ==
    ASSUME IndInv, NEW c \in Clients, NEW i \in Tiers, Filling(c, i), Filled(c, i)
    PROVE  \E j \in Jobs : job' = [job EXCEPT ![c] = j] /\ ReadsOn(c, j)
<1>1. CASE job[c].todo = {i}
  BY <1>1, PartReadGoes DEF Filled
<1>2. CASE job[c].todo # {i}
  <2> DEFINE j == [job[c] EXCEPT !.todo = @ \ {i}]
  <2>1. job[c] \in Jobs /\ Shape(job[c]) /\ job[c].at = "fill"
    BY DEF IndInv, TypeOK, Shapes, Filling
  <2>2. /\ j \in Jobs /\ j.at = "fill" /\ j.data = job[c].data /\ j.span = job[c].span
        /\ j.tier = job[c].tier /\ j.todo = job[c].todo \ {i} /\ j.alone = job[c].alone
    BY <2>1 DEF Jobs
  <2>3. job' = [job EXCEPT ![c] = j]
    BY <1>2 DEF Filled, Go
  <2> HIDE DEF j
  <2>4. ReadsOn(c, j)
    BY <2>1, <2>2 DEF ReadsOn, Shape
  <2> QED BY <2>2, <2>3, <2>4
<1> QED BY <1>1, <1>2

LEMMA GetKeeps ==
    ASSUME IndInv, NEW c \in Clients, Get(c)
    PROVE  IndInv'
<1>0. /\ TypeOK /\ Shape(job[c]) /\ job[c] \in Jobs /\ job[c].tier \in Tiers
      /\ job[c].part \in Parts /\ tiers \in [Tiers -> [Parts -> Values]]
  BY DEF IndInv, TypeOK, Shapes, Jobs
<1>1. CASE GetTier(c) /\ job[c].tier = 1
  <2>1. /\ Reading(c) /\ PartRead(c, tiers[job[c].tier][job[c].part])
        /\ tiers' = tiers /\ settled' = settled
    BY <1>1 DEF GetTier, Reading
  <2>2. PICK j \in Jobs : job' = [job EXCEPT ![c] = j] /\ ReadsOn(c, j)
    BY <2>1, PartReadGoes
  <2>3. Moves(c, j) /\ Shape(j)
    BY <1>0, <2>2, GoMoves DEF ReadsOn
  <2> QED BY <2>1, <2>2, <2>3, ReadsOnFacts, CallStep
<1>2. CASE GetTier(c) /\ job[c].tier # 1
  <2> DEFINE v == tiers[job[c].tier][job[c].part]
             j == [job[c] EXCEPT !.at = "fill", !.data = v, !.todo = 1..(job[c].tier - 1)]
  <2>0. v \in Values /\ 1..(job[c].tier - 1) \in SUBSET Tiers
    BY <1>0, TierFacts DEF Tiers
  <2>1. /\ j \in Jobs /\ j.at = "fill" /\ j.data = v /\ j.todo = 1..(job[c].tier - 1)
        /\ j.tier = job[c].tier /\ j.span = job[c].span /\ j.alone = job[c].alone
    BY <1>0, <2>0 DEF Jobs
  <2>2. /\ job' = [job EXCEPT ![c] = j] /\ tiers' = tiers /\ settled' = settled
        /\ job[c].at = "get" /\ v # NoObject
    BY <1>2 DEF GetTier, Go
  <2>3. settled # Unknown => Settles(v)
    BY <1>0, <2>2 DEF IndInv, SettledAgree, Settles
  <2> HIDE DEF j, v
  <2>4. Moves(c, j) /\ Shape(j) /\ Continues(c, j)
    BY <1>0, <2>1, <2>2, GoMoves DEF Shape, Continues
  <2>5. PutSoFar(j) /\ DeleteSoFar(j) /\ (settled # Unknown => Harmless(j))
    BY <2>1, <2>3 DEF PutSoFar, DeleteSoFar, Harmless
  <2> QED BY <2>1, <2>2, <2>4, <2>5, CallStep
<1>3. CASE NextTier(c) /\ job[c].tier = N
  BY <1>3, ReturnKeeps DEF NextTier
<1>4. CASE NextTier(c) /\ job[c].tier # N
  <2> DEFINE absent == tiers[job[c].tier][job[c].part] = NoObject
             New(d) == [job[d] EXCEPT !.tier  = IF d = c THEN @ + 1 ELSE @,
                                      !.alone = @ /\ absent]
  <2>1. /\ job[c].at = "get" /\ tiers' = tiers /\ settled' = settled
        /\ job' = [d \in Clients |-> New(d)]
    BY <1>4 DEF NextTier
  <2>2. job[c].tier + 1 \in Tiers
    BY <1>0, <1>4, TierFacts DEF Tiers
  <2>3. ASSUME NEW d \in Clients
        PROVE  /\ New(d) \in Jobs
               /\ New(d).at = job[d].at /\ New(d).part = job[d].part
               /\ New(d).data = job[d].data /\ New(d).todo = job[d].todo
               /\ New(d).span = job[d].span /\ New(d).failed = job[d].failed
               /\ New(d).tier = (IF d = c THEN job[c].tier + 1 ELSE job[d].tier)
               /\ New(d).alone = (job[d].alone /\ absent)
    <3>1. job[d] \in Jobs /\ (job[d].alone /\ absent) \in BOOLEAN
      BY <1>0 DEF TypeOK
    <3> QED BY <2>2, <3>1 DEF Jobs
  <2> HIDE DEF New, absent
  <2>4. job' \in [Clients -> Jobs]
    BY <2>1, <2>3
  <2>5. Moves(c, New(c)) /\ New(c) \in Jobs
    BY <2>1, <2>3, <2>4 DEF Moves
  <2>6. Shape(New(c)) /\ Continues(c, New(c)) /\ New(c).at = "get"
    BY <1>0, <2>1, <2>3 DEF Shape, Continues
  <2>7. PutSoFar(New(c)) /\ DeleteSoFar(New(c)) /\ Harmless(New(c))
    BY <2>6 DEF PutSoFar, DeleteSoFar, Harmless
  <2> QED BY <2>1, <2>5, <2>6, <2>7, CallStep
<1>5. CASE GetBreaks(c)
  BY <1>5, ReturnKeeps DEF GetBreaks
<1>6. ASSUME NEW i \in Tiers, Filling(c, i), Filled(c, i), settled' = settled,
             NEW v \in Values, tiers' = [tiers EXCEPT ![i][job[c].part] = v],
             settled # Unknown => v = NoObject \/ Settles(v)
      PROVE  IndInv'
  <2>1. Reading(c) /\ ~Evicting(c) /\ job[c].at = "fill" /\ i \in job[c].todo
    BY <1>6 DEF Reading, Filling, Evicting
  <2>2. i < N
    <3>1. i \in 1..(job[c].tier - 1)
      BY <1>0, <2>1 DEF Shape
    <3>2. job[c].tier \in Int /\ job[c].tier <= N /\ i \in Int /\ N \in Int
      BY <1>0, TierFacts
    <3> QED BY <3>1, <3>2
  <2>3. PICK j \in Jobs : job' = [job EXCEPT ![c] = j] /\ ReadsOn(c, j)
    BY <1>6, FilledGoes
  <2>4. Moves(c, j) /\ Shape(j)
    BY <1>0, <2>3, GoMoves DEF ReadsOn
  <2>5. /\ Continues(c, j) /\ PutSoFar(job[c])' /\ DeleteSoFar(job[c])'
        /\ settled # Unknown => Harmless(j)
    BY <2>1, <2>3, <2>4, ReadsOnFacts
  <2> QED BY <1>0, <1>6, <2>1, <2>2, <2>4, <2>5, WriteStep
<1>7. ASSUME NEW i \in Tiers, Filling(c, i)
      PROVE  job[c].data \in Values /\ (settled # Unknown => Settles(job[c].data))
  BY <1>0, <1>7 DEF IndInv, SettledQuiet, Filling, Jobs
<1>8. ASSUME NEW i \in Tiers, Backfill(c, i) PROVE IndInv'
  BY <1>6, <1>7, <1>8 DEF Backfill
<1>9. ASSUME NEW i \in Tiers, BackfillFails(c, i) PROVE IndInv'
  <2>1. Filling(c, i) /\ Filled(c, i) /\ settled' = settled
    BY <1>9 DEF BackfillFails
  <2>2. PICK v \in AfterFailure(i, job[c].part) : tiers' = [tiers EXCEPT ![i][job[c].part] = v]
    BY <1>9 DEF BackfillFails
  <2>3. v \in Values /\ (settled # Unknown => v = NoObject \/ Settles(v))
    <3>1. settled # Unknown => settled # NoObject
      BY <1>7, <2>1 DEF Settles
    <3> QED BY <1>0, <3>1, FailureFacts
  <2> QED BY <1>6, <2>1, <2>2, <2>3
<1> QED BY <1>1, <1>2, <1>3, <1>4, <1>5, <1>8, <1>9 DEF Get

-----------------------------------------------------------------------------
LEMMA InitEstablishes == Init => IndInv
<1> SUFFICES ASSUME Init PROVE IndInv
  OBVIOUS
<1>1. Idle \in Jobs /\ Shape(Idle) /\ Idle.at = "idle" /\ \A c \in Clients : job[c] = Idle
  BY IdleFacts DEF Init
<1>2. TypeOK
  BY <1>1, TierAssumption DEF Init, TypeOK
<1>3. Shapes /\ AloneMeans /\ Progress
  BY <1>1 DEF Shapes, AloneMeans, Progress, PutSoFar, DeleteSoFar
<1>4. SettledQuiet /\ SettledAgree
  BY DEF Init, SettledQuiet, SettledAgree
<1> QED BY <1>2, <1>3, <1>4 DEF IndInv

LEMMA NextKeeps == IndInv /\ [Next]_vars => IndInv'
<1> SUFFICES ASSUME IndInv, [Next]_vars PROVE IndInv'
  OBVIOUS
<1>1. ASSUME NEW c \in Clients, Start(c) \/ Put(c) \/ Get(c) \/ Delete(c) PROVE IndInv'
  BY <1>1, StartKeeps, PutKeeps, GetKeeps, DeleteKeeps
<1>2. CASE UNCHANGED vars
  BY <1>2 DEF vars, IndInv, TypeOK, Shapes, Shape, AloneMeans, Evicting, Progress, PutSoFar,
              DeleteSoFar, Held, SettledQuiet, Settles, SettledAgree
<1> QED BY <1>1, <1>2 DEF Next

\* The inductive invariant holds in every reachable state of the tiers.
THEOREM TieredInvariance == Spec => []IndInv
BY InitEstablishes, NextKeeps, PTL DEF Spec

\* Tiers, calls and what is settled keep their types.
THEOREM TieredTypeCorrect == Spec => []TypeOK
<1>1. IndInv => TypeOK
  BY DEF IndInv
<1> QED BY <1>1, TieredInvariance, PTL

\* What Tiered.Put and Tiered.Delete report as done, having met no other call, stays
\* done in every tier through reads, backfills, evictions and failing tiers.
THEOREM TiersSettle == Spec => []SettledAgree
<1>1. IndInv => SettledAgree
  BY DEF IndInv
<1> QED BY <1>1, TieredInvariance, PTL
=============================================================================
