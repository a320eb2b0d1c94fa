------------------------------ MODULE Authority ------------------------------
(***************************************************************************)
(* The certificate authority (internal/tls/ca.go): its two files ca.crt    *)
(* and ca.key, the processes that make or load them when they start, the   *)
(* root certificate that the ca export command prints for clients to       *)
(* trust, and the leaves that a running proxy signs (module CertCache).    *)
(*                                                                         *)
(* serve, record and offline call EnsureCA once and keep what it returns   *)
(* in memory; ca export calls it and prints the certificate.  No lock      *)
(* keeps two of them apart.  os.WriteFile creates or truncates the file    *)
(* and then writes; a process may die between any two of these steps.      *)
(* With --ca-cert and --ca-key EnsureCA only loads: the steps LoadCert and *)
(* LoadKey, from a start on files that exist.                              *)
(***************************************************************************)
EXTENDS CertCache

CONSTANTS
    Server,         \* the process that is a proxy
    Exporters,      \* the processes that run ca export
    NoFile,         \* there is no such file; there is no such root
    Damaged,        \* an empty file or a part of one: it has no PEM block
    Faults,         \* BOOLEAN: a call may fail
    MaxAuthorities  \* bound on the authorities generated

VARIABLES
    certFile,   \* ca.crt: the authority it belongs to, NoFile or Damaged
    keyFile,    \* ca.key, likewise
    generated,  \* how many authorities were generated: each has a fresh key
    process,    \* where a process is, and the CA it holds
    trusted,    \* history: the root that the last ca export printed, or NoFile
    overwritten \* history: a process generated files where there were some, or
                \* while another was writing them

files    == <<certFile, keyFile>>
authVars == <<files, generated, process, trusted, overwritten>>
allVars  == <<vars, authVars>>

Processes   == Exporters \cup {Server}
Authorities == 1..MaxAuthorities

ASSUME AuthorityAssumption ==
    /\ MaxAuthorities \in Nat
    /\ Faults \in BOOLEAN
    /\ Server \notin Exporters
    /\ NoFile # Damaged /\ {NoFile, Damaged} \cap Nat = {}

Off == [at |-> "off", cert |-> NoFile, key |-> NoFile]

AuthorityInit ==
    /\ Init
    /\ certFile = NoFile /\ keyFile = NoFile
    /\ generated = 0
    /\ process = [p \in Processes |-> Off]
    /\ trusted = NoFile
    /\ overwritten = FALSE

Become(p, state) == process' = [process EXCEPT ![p] = state]
Goto(p, at)      == process' = [process EXCEPT ![p].at = at]

\* In SaveCA, or about to enter it.
Saving(p) == process[p].at \in {"createCert", "writeCert", "createKey", "writeKey"}

-----------------------------------------------------------------------------
(* EnsureCA: os.Stat of the certificate tells whether to load or generate.   *)
(* Any error of it, not only that there is no such file, leads to generate;  *)
(* MkdirAll finds nothing wrong with a directory that is there.              *)

StartAndLoad(p) ==
    /\ process[p].at = "off"
    /\ certFile # NoFile
    /\ Goto(p, "loadCert")
    /\ UNCHANGED <<vars, files, generated, trusted, overwritten>>

GenerateCA(p) ==
    /\ generated < MaxAuthorities
    /\ generated' = generated + 1
    /\ Become(p, [at |-> "createCert", cert |-> generated + 1, key |-> generated + 1])

AnotherSaves(p) == \E q \in Processes \ {p} : Saving(q)

StartAndGenerate(p) ==
    /\ process[p].at = "off"
    /\ certFile = NoFile \/ Faults
    /\ GenerateCA(p)
    /\ overwritten' = (overwritten \/ certFile # NoFile \/ AnotherSaves(p))
    /\ UNCHANGED <<vars, files, trusted>>

\* MkdirAll or GenerateCA fails, before any file is touched.
StartFails(p) ==
    /\ Faults
    /\ process[p].at = "off"
    /\ UNCHANGED allVars

(* LoadCA.  Nothing checks that key and certificate belong together.         *)

\* Mutant: a file that does not load is taken for a first run.
Regenerate(p) ==
    /\ GenerateCA(p)
    /\ overwritten' = (overwritten \/ AnotherSaves(p))

\* A file that does not load: the command ends with the error.
GiveUp(p) ==
    /\ Become(p, Off)
    /\ UNCHANGED <<generated, overwritten>>

LoadCert(p) ==
    /\ process[p].at = "loadCert"
    /\ \/ /\ certFile \in Authorities
          /\ Become(p, [at |-> "loadKey", cert |-> certFile, key |-> NoFile])
          /\ UNCHANGED <<generated, overwritten>>
       \/ /\ Faults \/ certFile \notin Authorities
          /\ GiveUp(p)
    /\ UNCHANGED <<vars, files, trusted>>

LoadKey(p) ==
    /\ process[p].at = "loadKey"
    /\ \/ /\ keyFile \in Authorities
          /\ Become(p, [at |-> "up", cert |-> process[p].cert, key |-> keyFile])
          /\ UNCHANGED <<generated, overwritten>>
       \/ /\ Faults \/ keyFile \notin Authorities
          /\ GiveUp(p)
    /\ UNCHANGED <<vars, files, trusted>>

(* SaveCA: two files, each truncated and then written.                       *)

CreateCert(p) ==
    /\ process[p].at = "createCert"
    /\ certFile' = Damaged
    /\ Goto(p, "writeCert")
    /\ UNCHANGED <<vars, keyFile, generated, trusted, overwritten>>

WriteCert(p) ==
    /\ process[p].at = "writeCert"
    /\ certFile' = process[p].cert
    /\ Goto(p, "createKey")
    /\ UNCHANGED <<vars, keyFile, generated, trusted, overwritten>>

CreateKey(p) ==
    /\ process[p].at = "createKey"
    /\ keyFile' = Damaged
    /\ Goto(p, "writeKey")
    /\ UNCHANGED <<vars, certFile, generated, trusted, overwritten>>

WriteKey(p) ==
    /\ process[p].at = "writeKey"
    /\ keyFile' = process[p].key
    /\ Goto(p, "up")
    /\ UNCHANGED <<vars, certFile, generated, trusted, overwritten>>

\* A call of SaveCA fails; a write leaves a part of its bytes, or none.  The
\* files stay as they are then.
SaveFails(p) ==
    /\ Faults
    /\ Saving(p)
    /\ Become(p, Off)
    /\ certFile' \in {certFile} \cup (IF process[p].at = "writeCert" THEN {Damaged} ELSE {})
    /\ keyFile' \in {keyFile} \cup (IF process[p].at = "writeKey" THEN {Damaged} ELSE {})
    /\ UNCHANGED <<vars, generated, trusted, overwritten>>

EnsureCA(p) ==
    \/ StartAndLoad(p) \/ StartAndGenerate(p) \/ StartFails(p) \/ LoadCert(p) \/ LoadKey(p)
    \/ CreateCert(p) \/ WriteCert(p) \/ CreateKey(p) \/ WriteKey(p) \/ SaveFails(p)

-----------------------------------------------------------------------------
\* ca export prints the certificate, and the user has his tools trust it.
Export(p) ==
    /\ p \in Exporters
    /\ process[p].at = "up"
    /\ trusted' = process[p].cert
    /\ Become(p, Off)
    /\ UNCHANGED <<vars, files, generated, overwritten>>

\* The process is stopped or killed, at any point; the proxy's cache of leaves
\* is gone with it.
Stop(p) ==
    /\ process[p].at # "off"
    /\ Become(p, Off)
    /\ IF p = Server
       THEN /\ cache' = [h \in Hosts |-> NoCert]
            /\ order' = <<>>
            /\ served' = NoCert
       ELSE UNCHANGED <<cache, order, served>>
    /\ UNCHANGED <<clock, files, generated, trusted, overwritten>>

\* tlsCfg asks the cache for a leaf.  x509.CreateCertificate (external) signs
\* only with the key of the parent certificate.
Connect(h) ==
    /\ process[Server].at = "up"
    /\ \/ Hit(h)
       \/ process[Server].cert = process[Server].key /\ Create(h)
       \/ CreateFails(h)
    /\ UNCHANGED authVars

Pass == Tick /\ UNCHANGED authVars

AuthorityNext ==
    \/ \E p \in Processes : EnsureCA(p) \/ Export(p) \/ Stop(p)
    \/ \E h \in Hosts : Connect(h)
    \/ Pass

AuthoritySpec == AuthorityInit /\ [][AuthorityNext]_allVars

-----------------------------------------------------------------------------
(* What is said of the files holds until some are generated over others: by  *)
(* processes that start at the same time on an empty directory, or by one    *)
(* that could not stat the certificate that was there, which replaces the    *)
(* root (ca.go:117).  The README says what holds then.                       *)

\* Once a root was exported, both files hold it and go on holding it, as long
\* as os.Stat finds them and no two processes generate at once: no crash, no
\* failure to read or write a file, no start of the proxy or of another export
\* replaces what clients have installed, nor leaves a file behind that does not
\* load (EnsureCA, LoadCA, SaveCA).
ExportedRootKept ==
    trusted # NoFile /\ ~overwritten => certFile = trusted /\ keyFile = trusted

\* Under the same conditions every certificate that the proxy serves, from the
\* cache or fresh, chains to the root that clients trust, through any number of
\* restarts of the proxy and exports before, between and after (EnsureCA,
\* NewCertCache, tlsCfg).
ServedChainsToTrusted ==
    served # NoCert /\ trusted # NoFile /\ ~overwritten => process[Server].cert = trusted

\* Under the same conditions a proxy that came up can sign: it never runs with
\* the key of another authority, although the files are written and loaded one
\* by one, a process may die between any two of these steps, and LoadCA does
\* not compare them (LoadCA, SaveCA).
PairMatches ==
    process[Server].at = "up" /\ ~overwritten => process[Server].cert = process[Server].key
=============================================================================
