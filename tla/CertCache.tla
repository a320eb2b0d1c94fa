------------------------------ MODULE CertCache ------------------------------
(***************************************************************************)
(* The cache of TLS leaf certificates (internal/tls/certs.go).  Every      *)
(* intercepted CONNECT asks GetOrCreate for a certificate of its host; the *)
(* whole call runs under one mutex, so each of its outcomes is one step.   *)
(* Time is counted in hours.                                               *)
(***************************************************************************)
EXTENDS Integers, Sequences, SequencesExt

CONSTANTS
    Hosts,      \* the hosts that clients connect to
    MaxSize,    \* maxSize, 1000 in the program
    Lifetime,   \* validity of a new leaf, 24 in the program
    renewMargin,\* 1 in the program
    MaxClock,   \* bound on the clock
    NoCert      \* the map has no entry for the host

VARIABLES
    clock,
    cache,      \* host -> NotAfter of its cached leaf, or NoCert
    order,      \* the order in which leaves were put into the cache
    served      \* the last certificate returned and when, or NoCert on error

vars == <<clock, cache, order, served>>

ASSUME SizeAssumption  == MaxSize \in Nat \ {0}
ASSUME TimeAssumption  == /\ Lifetime \in Nat /\ renewMargin \in Nat /\ MaxClock \in Nat
                          /\ renewMargin < Lifetime
ASSUME NoCertAssumption == NoCert \notin Nat \cup [host : Hosts, notAfter : Nat, at : Nat]

Cached == {h \in Hosts : cache[h] # NoCert}

Init ==
    /\ clock = 0
    /\ cache = [h \in Hosts |-> NoCert]
    /\ order = <<>>
    /\ served = NoCert

Serve(h, notAfter) == served' = [host |-> h, notAfter |-> notAfter, at |-> clock]

\* Mutant: a leaf is handed out until it expires.
UnexpiredOnly(h) == cache[h] # NoCert /\ clock < cache[h]

\* c.now().Add(renewMargin).Before(NotAfter)
Fresh(h) == cache[h] # NoCert /\ clock + renewMargin < cache[h]

Hit(h) ==
    /\ Fresh(h)
    /\ Serve(h, cache[h])
    /\ UNCHANGED <<clock, cache, order>>

\* Mutant: the expiring leaf stays in the eviction order.
DropFromMap(h) == order

\* The order once an expiring leaf of the host is dropped.
Dropped(h) == IF cache[h] = NoCert THEN order ELSE RemoveFirst(order, h)

\* generate, then insert; the head of the order goes when there are too many.
Create(h) ==
    /\ ~Fresh(h)
    /\ LET notAfter == clock + Lifetime
           grown    == Append(Dropped(h), h)
           filled   == [cache EXCEPT ![h] = notAfter]
       IN /\ IF Len(grown) > MaxSize
             THEN /\ order' = Tail(grown)
                  /\ cache' = [filled EXCEPT ![Head(grown)] = NoCert]
             ELSE order' = grown /\ cache' = filled
          /\ Serve(h, notAfter)
    /\ UNCHANGED clock

\* generate fails: an expiring leaf is gone all the same.
CreateFails(h) ==
    /\ ~Fresh(h)
    /\ order' = Dropped(h)
    /\ cache' = [cache EXCEPT ![h] = NoCert]
    /\ served' = NoCert
    /\ UNCHANGED clock

GetOrCreate(h) == Hit(h) \/ Create(h) \/ CreateFails(h)

Tick == clock < MaxClock /\ clock' = clock + 1 /\ UNCHANGED <<cache, order, served>>

Next == Tick \/ \E h \in Hosts : GetOrCreate(h)

Spec == Init /\ [][Next]_vars

-----------------------------------------------------------------------------
\* Every variable keeps its type.
TypeOK ==
    /\ clock \in 0..MaxClock
    /\ cache \in [Hosts -> Nat \cup {NoCert}]
    /\ order \in Seq(Hosts)
    /\ served \in [host : Hosts, notAfter : Nat, at : Nat] \cup {NoCert}

\* The map and the eviction order name the same hosts, each once, and no more
\* than the limit: over any mixture of hits, renewals, failures and evictions
\* no leaf is unevictable and no eviction is wasted on a host that is gone
\* (GetOrCreate, the map and slice updates).
OrderMatchesMap ==
    /\ {order[i] : i \in 1..Len(order)} = Cached
    /\ \A i, j \in 1..Len(order) : order[i] = order[j] => i = j
    /\ Len(order) <= MaxSize

\* A call that serves a certificate serves one that outlives the margin, also
\* the call that finds the leaf exactly at the margin (renewMargin).
ServedOutlivesMargin ==
    served # NoCert => served.at + renewMargin < served.notAfter
=============================================================================
