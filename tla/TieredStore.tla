----------------------------- MODULE TieredStore -----------------------------
(***************************************************************************)
(* cache.Put, Get and Delete (internal/cache/cache.go) of one entry over   *)
(* several storage tiers (internal/storage/tiered.go), called by requests  *)
(* and by the invalidate and evict commands at once.                       *)
(*                                                                         *)
(* Keys never meet in this code, so the module has one entry with its two  *)
(* objects.  A call on one tier is one step: module EntryStore takes the   *)
(* local tier's calls apart.  The goroutines that Put and Delete start     *)
(* finish in any order; Get, its backfill and Exists go tier by tier.      *)
(***************************************************************************)
EXTENDS Integers, FiniteSets

CONSTANTS
    N,              \* the number of tiers, fastest first
    Clients,        \* the goroutines and processes that use the store
    Versions,       \* what may be put: a version stands for a response
    Operations,     \* the operations clients perform
    Torn,           \* the tiers where a failing write may damage the object
    Damaged,        \* an object that is only partly written
    NoObject,       \* the tier has no such object
    Unknown,        \* for settled: the outcome is not determined
    ReadFaults,     \* BOOLEAN: reading from a tier may fail
    WriteFaults,    \* BOOLEAN: writing to or deleting from a tier may fail
    InitialTiers    \* what the tiers may hold at the start

VARIABLES
    tiers,      \* tier -> part -> the version it holds, Damaged or NoObject
    job,        \* client -> the call it is in
    settled     \* history: what the store must hold, by the last Put or Delete that
                \*   succeeded and ran alone, unless another has started since

vars == <<tiers, job, settled>>

Tiers  == 1..N
Parts  == {"meta", "body"}
Values == Versions \cup {Damaged, NoObject}

ASSUME TierAssumption ==
    /\ N \in Nat \ {0}
    /\ Torn \subseteq Tiers
    /\ ReadFaults \in BOOLEAN /\ WriteFaults \in BOOLEAN
    /\ Operations \subseteq {"put", "get", "delete", "evict"}
    /\ InitialTiers \subseteq [Tiers -> [Parts -> Values]]

ASSUME ValueAssumption ==
    /\ Damaged \notin Versions \cup {NoObject, Unknown}
    /\ NoObject \notin Versions \cup {Unknown}
    /\ Unknown \notin Versions

\* at     where the call is
\* part   the object it is at
\* data   the version to put, or what was read from a tier
\* todo   the tiers still to be written or deleted from
\* tier   the tier that is looked at
\* span   the number of tiers of the storage it uses: evict has the local one only
\* failed some tier's goroutine has failed
\* alone  history: no Put or Delete has run beside it and, if it is one, no Get; for
\*        a Get, neither a read error nor another Get that was not alone
Jobs == [at : {"idle", "put", "get", "fill", "exists", "delete"}, part : Parts,
         data : Values, todo : SUBSET Tiers, tier : Tiers, span : Tiers,
         failed : BOOLEAN, alone : BOOLEAN]

Idle == [at |-> "idle", part |-> "meta", data |-> NoObject, todo |-> {}, tier |-> 1,
         span |-> N, failed |-> FALSE, alone |-> FALSE]

Init ==
    /\ tiers \in InitialTiers
    /\ job = [c \in Clients |-> Idle]
    /\ settled = Unknown

Reading(c)  == job[c].at \in {"get", "fill"}
Evicting(c) == job[c].at \in {"exists", "delete"} /\ job[c].span < N

-----------------------------------------------------------------------------
(* Calls start and return. *)

\* The jobs once c has started j, a call that changes the entry or not.
Started(c, j, changes) ==
    [d \in Clients |->
        IF d = c
        THEN [j EXCEPT !.alone = \A e \in Clients \ {c} :
                 job[e].at = "idle" \/ Evicting(e) \/ (~changes /\ Reading(e) /\ job[e].alone)]
        ELSE [job[d] EXCEPT !.alone = @ /\ ~changes /\ Reading(d)]]

StartPut(c, v) ==
    /\ "put" \in Operations
    /\ job[c] = Idle
    /\ job' = Started(c, [Idle EXCEPT !.at = "put", !.data = v, !.todo = Tiers], TRUE)
    /\ settled' = Unknown
    /\ UNCHANGED tiers

\* Mutant: the search starts at the second tier.
SecondTier == IF N > 1 THEN 2 ELSE 1

FirstTier == 1

StartGet(c) ==
    /\ "get" \in Operations
    /\ job[c] = Idle
    /\ job' = Started(c, [Idle EXCEPT !.at = "get", !.tier = FirstTier], FALSE)
    /\ UNCHANGED <<tiers, settled>>

StartDelete(c) ==
    /\ "delete" \in Operations
    /\ job[c] = Idle
    /\ job' = Started(c, [Idle EXCEPT !.at = "exists"], TRUE)
    /\ settled' = Unknown
    /\ UNCHANGED tiers

\* The evict command deletes from the local tier only.
StartEvict(c) ==
    /\ "evict" \in Operations
    /\ N > 1
    /\ job[c] = Idle
    /\ job' = [job EXCEPT ![c] = [Idle EXCEPT !.at = "exists", !.span = 1]]
    /\ UNCHANGED <<tiers, settled>>

Return(c)  == job' = [job EXCEPT ![c] = Idle]
Go(c, j)   == job' = [job EXCEPT ![c] = j]

-----------------------------------------------------------------------------
(* Tiered.Put: one goroutine per tier. *)

PutTier(c, i) ==
    /\ job[c].at = "put"
    /\ i \in job[c].todo
    /\ tiers' = [tiers EXCEPT ![i][job[c].part] = job[c].data]
    /\ Go(c, [job[c] EXCEPT !.todo = @ \ {i}])
    /\ UNCHANGED settled

\* What a tier may hold after a write to it has failed.
AfterFailure(i, p) == {tiers[i][p]} \cup (IF i \in Torn THEN {Damaged} ELSE {})

\* Mutant: only the first tier's error is reported.
LowerTierMayFail(c, i) ==
    /\ WriteFaults
    /\ job[c].at = "put"
    /\ i \in job[c].todo
    /\ \E v \in AfterFailure(i, job[c].part) : tiers' = [tiers EXCEPT ![i][job[c].part] = v]
    /\ Go(c, [job[c] EXCEPT !.todo = @ \ {i}, !.failed = @ \/ i = 1])
    /\ UNCHANGED settled

PutTierFails(c, i) ==
    /\ WriteFaults
    /\ job[c].at = "put"
    /\ i \in job[c].todo
    /\ \E v \in AfterFailure(i, job[c].part) : tiers' = [tiers EXCEPT ![i][job[c].part] = v]
    /\ Go(c, [job[c] EXCEPT !.todo = @ \ {i}, !.failed = TRUE])
    /\ UNCHANGED settled

\* wg.Wait; the metadata is followed by the body.
PutPart(c) ==
    /\ job[c].at = "put"
    /\ job[c].todo = {}
    /\ ~job[c].failed
    /\ IF job[c].part = "meta"
       THEN /\ Go(c, [job[c] EXCEPT !.part = "body", !.todo = Tiers])
            /\ UNCHANGED settled
       ELSE /\ Return(c)
            /\ settled' = IF job[c].alone THEN job[c].data ELSE settled
    /\ UNCHANGED tiers

PutFails(c) ==
    /\ job[c].at = "put"
    /\ job[c].todo = {}
    /\ job[c].failed
    /\ Return(c)
    /\ UNCHANGED <<tiers, settled>>

-----------------------------------------------------------------------------
(* Tiered.Get: the first tier that has the object, and the backfill of those *)
(* before it.  An error counts as a miss.                                    *)

\* The object is at hand: a damaged .meta does not unmarshal; then the body.
PartRead(c, v) ==
    IF job[c].part = "meta" /\ v # Damaged
    THEN Go(c, [Idle EXCEPT !.at = "get", !.part = "body", !.tier = FirstTier,
                            !.alone = job[c].alone])
    ELSE Return(c)

GetTier(c) ==
    /\ job[c].at = "get"
    /\ LET v == tiers[job[c].tier][job[c].part]
       IN /\ v # NoObject
          /\ IF job[c].tier = 1
             THEN PartRead(c, v)
             ELSE Go(c, [job[c] EXCEPT !.at = "fill", !.data = v, !.todo = 1..(job[c].tier - 1)])
    /\ UNCHANGED <<tiers, settled>>

\* The tier has no such object, or fails: on to the next one.
NextTier(c) ==
    /\ job[c].at = "get"
    /\ LET absent == tiers[job[c].tier][job[c].part] = NoObject
       IN /\ absent \/ ReadFaults
          /\ IF job[c].tier = N THEN Return(c)
             ELSE job' = [d \in Clients |->
                    [job[d] EXCEPT !.tier  = IF d = c THEN @ + 1 ELSE @,
                                   !.alone = @ /\ absent]]
    /\ UNCHANGED <<tiers, settled>>

\* io.ReadAll of a lower tier's object fails.
GetBreaks(c) ==
    /\ ReadFaults
    /\ job[c].at = "get"
    /\ job[c].tier > 1
    /\ tiers[job[c].tier][job[c].part] # NoObject
    /\ Return(c)
    /\ UNCHANGED <<tiers, settled>>

\* The tier to be filled next.
Filling(c, i) ==
    /\ job[c].at = "fill"
    /\ i \in job[c].todo
    /\ \A j \in job[c].todo : i <= j

Filled(c, i) ==
    IF job[c].todo = {i} THEN PartRead(c, job[c].data)
    ELSE Go(c, [job[c] EXCEPT !.todo = @ \ {i}])

Backfill(c, i) ==
    /\ Filling(c, i)
    /\ tiers' = [tiers EXCEPT ![i][job[c].part] = job[c].data]
    /\ Filled(c, i)
    /\ UNCHANGED settled

\* Its error is dropped.
BackfillFails(c, i) ==
    /\ WriteFaults
    /\ Filling(c, i)
    /\ \E v \in AfterFailure(i, job[c].part) : tiers' = [tiers EXCEPT ![i][job[c].part] = v]
    /\ Filled(c, i)
    /\ UNCHANGED settled

-----------------------------------------------------------------------------
(* cache.Delete: Tiered.Exists of the metadata, then Tiered.Delete of both   *)
(* objects, again with one goroutine per tier.                               *)

ExistsTier(c) ==
    /\ job[c].at = "exists"
    /\ tiers[job[c].tier]["meta"] # NoObject
    /\ Go(c, [job[c] EXCEPT !.at = "delete", !.todo = 1..job[c].span])
    /\ UNCHANGED <<tiers, settled>>

\* No metadata here, or the tier fails.  After the last one: ErrNotFound.
ExistsNext(c) ==
    /\ job[c].at = "exists"
    /\ tiers[job[c].tier]["meta"] = NoObject \/ ReadFaults
    /\ IF job[c].tier = job[c].span THEN Return(c)
       ELSE Go(c, [job[c] EXCEPT !.tier = @ + 1])
    /\ UNCHANGED <<tiers, settled>>

DeleteTier(c, i) ==
    /\ job[c].at = "delete"
    /\ i \in job[c].todo
    /\ tiers' = [tiers EXCEPT ![i][job[c].part] = NoObject]
    /\ Go(c, [job[c] EXCEPT !.todo = @ \ {i}])
    /\ UNCHANGED settled

DeleteTierFails(c, i) ==
    /\ WriteFaults
    /\ job[c].at = "delete"
    /\ i \in job[c].todo
    /\ Go(c, [job[c] EXCEPT !.todo = @ \ {i}, !.failed = TRUE])
    /\ UNCHANGED <<tiers, settled>>

DeletePart(c) ==
    /\ job[c].at = "delete"
    /\ job[c].todo = {}
    /\ ~job[c].failed
    /\ IF job[c].part = "meta"
       THEN /\ Go(c, [job[c] EXCEPT !.part = "body", !.todo = 1..job[c].span])
            /\ UNCHANGED settled
       ELSE /\ Return(c)
            /\ settled' = IF job[c].alone THEN NoObject ELSE settled
    /\ UNCHANGED tiers

DeleteFails(c) ==
    /\ job[c].at = "delete"
    /\ job[c].todo = {}
    /\ job[c].failed
    /\ Return(c)
    /\ UNCHANGED <<tiers, settled>>

-----------------------------------------------------------------------------
Put(c)    == PutPart(c) \/ PutFails(c) \/ \E i \in Tiers : PutTier(c, i) \/ PutTierFails(c, i)
Get(c)    == \/ GetTier(c) \/ NextTier(c) \/ GetBreaks(c)
             \/ \E i \in Tiers : Backfill(c, i) \/ BackfillFails(c, i)
Delete(c) == \/ ExistsTier(c) \/ ExistsNext(c) \/ DeletePart(c) \/ DeleteFails(c)
             \/ \E i \in Tiers : DeleteTier(c, i) \/ DeleteTierFails(c, i)
Start(c)  == StartGet(c) \/ StartDelete(c) \/ StartEvict(c) \/ \E v \in Versions : StartPut(c, v)

Next == \E c \in Clients : Start(c) \/ Put(c) \/ Get(c) \/ Delete(c)

Spec == Init /\ [][Next]_vars

-----------------------------------------------------------------------------
(* Properties. *)

\* Every variable keeps its type.
TypeOK ==
    /\ tiers \in [Tiers -> [Parts -> Values]]
    /\ job \in [Clients -> Jobs]
    /\ settled \in Versions \cup {NoObject, Unknown}

\* After a Put or a Delete that reported success and met no other call, the last
\* tier holds exactly what it left, and a faster tier nothing else: reads, their
\* backfills, evictions and failures of single tiers never bring an older version
\* or a deleted entry back (Tiered.Put and Delete report every tier's error).
SettledAgree ==
    settled # Unknown => \A p \in Parts :
        /\ tiers[N][p] = settled
        /\ \A i \in Tiers : \/ tiers[i][p] \in {settled, NoObject}
                            \/ tiers[i][p] = Damaged /\ Torn # {} /\ settled # NoObject

\* What Get would return of a part: the first tier's that has it.
Holders(p) == {i \in Tiers : tiers[i][p] # NoObject}
Visible(p) == IF Holders(p) = {} THEN NoObject
              ELSE tiers[CHOOSE i \in Holders(p) : \A j \in Holders(p) : i <= j][p]

\* A backfill does not change what the next Get returns, although the tiers may
\* disagree after failures, unless a Put or a Delete ran beside the Gets in
\* flight, a tier could not be read, or a write was cut short (Tiered.Get).
BackfillTransparent == [][\A c \in Clients : \A p \in Parts :
    job[c].at = "fill" /\ job'[c] # job[c] /\ job[c].alone
        => Visible(p)' = Visible(p) \/ Damaged \in {Visible(p), Visible(p)'}]_vars
=============================================================================
