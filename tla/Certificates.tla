---------------------------- MODULE Certificates ----------------------------
(***************************************************************************)
(* CertificateService.run for the nodes of a target folder, all at once, as *)
(* `config` and `renewCertificates` call it. metadata.yml, written last,    *)
(* says for which keys a folder's certificates were made; with the right    *)
(* one the certificate is kept, or renewed by the same authority when it is *)
(* about to expire. openssl writes the files one after the other; the       *)
(* command may be killed, or fail, between any two of them.                 *)
(*                                                                         *)
(* A key stands for the main and transport key of a node, which metadata    *)
(* .yml names together; a certificate is its key and its last day. A file   *)
(* that is missing or cut off is `Unreadable`.                              *)
(***************************************************************************)
EXTENDS Naturals

CONSTANTS
    Nodes,       \* the nodes of the preset
    Keys,        \* their possible keys
    CaDays,      \* caCertificateExpirationInDays
    NodeDays,    \* nodeCertificateExpirationInDays
    WarningDays, \* certificateExpirationWarningInDays
    MaxDay       \* bound: the last day

ASSUME CertificatesAssumption ==
    /\ 0 \notin Keys
    /\ CaDays \in Nat /\ NodeDays \in Nat /\ WarningDays \in Nat /\ MaxDay \in Nat

VARIABLES
    day,        \* today
    addresses,  \* addresses.yml: the keys of the nodes; 0 before the first config
    ca,         \* ca[n]: ca.cert.pem
    crt,        \* crt[n]: node.crt.pem
    full,       \* full[n]: node.full.crt.pem, both together, which the node uses
    metadata,   \* metadata[n]: the keys in metadata.yml, or 0
    pc,         \* "idle", or the part of the command that is running
    mode,       \* ONLY_WARNING (config), WHEN_REQUIRED or ALWAYS (--force)
    keys,       \* providedCertificates of the nodes
    stage,      \* stage[n]: where the call for n is
    renew,      \* renew[n]: the call renews, rather than creates
    began,      \* the day the command began
    cut         \* ghost, cut[n]: what was killed half-way in n's folder

files == <<ca, crt, full, metadata>>
command == <<mode, keys, began>>
vars == <<day, addresses, files, pc, command, stage, renew, cut>>

Certificate == [key : Keys \cup {0}, end : Nat]
Unreadable == [key |-> 0, end |-> 0]
Chain == [crt : Certificate, ca : Certificate]
NoChain == [crt |-> Unreadable, ca |-> Unreadable]

Stages ==
    {"todo", "delete", "ca", "sign", "write", "verify", "join", "metadata", "fill", "done"}
Cuts == {"none", "creation", "deletion", "renewal", "metadata"}
Modes == {"ONLY_WARNING", "WHEN_REQUIRED", "ALWAYS"}

TypeOK ==
    /\ day \in Nat /\ began \in Nat
    /\ addresses \in [Nodes -> Keys \cup {0}]
    /\ ca \in [Nodes -> Certificate] /\ crt \in [Nodes -> Certificate]
    /\ full \in [Nodes -> Chain]
    /\ metadata \in [Nodes -> Keys \cup {0}]
    /\ pc \in {"idle", "certificates", "addresses"}
    /\ mode \in Modes
    /\ keys \in [Nodes -> Keys \cup {0}]
    /\ stage \in [Nodes -> Stages]
    /\ renew \in [Nodes -> BOOLEAN]
    /\ cut \in [Nodes -> Cuts]

Init ==
    /\ day = 0 /\ began = 0
    /\ addresses = [n \in Nodes |-> 0] /\ keys = [n \in Nodes |-> 0]
    /\ ca = [n \in Nodes |-> Unreadable] /\ crt = [n \in Nodes |-> Unreadable]
    /\ full = [n \in Nodes |-> NoChain]
    /\ metadata = [n \in Nodes |-> 0]
    /\ pc = "idle" /\ mode = "ONLY_WARNING"
    /\ stage = [n \in Nodes |-> "todo"]
    /\ renew = [n \in Nodes |-> FALSE]
    /\ cut = [n \in Nodes |-> "none"]

-----------------------------------------------------------------------------
Start(m, k) ==
    /\ pc = "idle"
    /\ pc' = "certificates"
    /\ mode' = m /\ keys' = k /\ began' = day
    /\ UNCHANGED <<day, addresses, files, stage, renew, cut>>

\* config: new keys, those of addresses.yml or those of a custom preset.
StartConfig == \E k \in [Nodes -> Keys] : Start("ONLY_WARNING", k)

\* renewCertificates, perhaps with --force: preset.yml and addresses.yml must
\* be there.
StartRenew ==
    /\ \A n \in Nodes : addresses[n] # 0
    /\ \E m \in {"WHEN_REQUIRED", "ALWAYS"} : Start(m, addresses)

Exit ==
    /\ pc' = "idle"
    /\ mode' = "ONLY_WARNING" /\ keys' = [n \in Nodes |-> 0] /\ began' = 0
    /\ stage' = [n \in Nodes |-> "todo"]
    /\ renew' = [n \in Nodes |-> FALSE]

\* What a kill at this moment leaves of n's folder (ghost).
CutNow(n) ==
    IF stage[n] \in {"todo", "delete", "done"} THEN cut[n]
    ELSE IF ~renew[n] THEN "creation"
    ELSE IF stage[n] \in {"write", "verify", "join"} THEN "renewal"
    ELSE IF stage[n] = "fill" THEN "metadata"
    ELSE cut[n]

\* The process is killed or a call throws, which ends it.
Abort ==
    /\ pc # "idle"
    /\ cut' = [n \in Nodes |-> CutNow(n)]
    /\ Exit
    /\ UNCHANGED <<day, addresses, files>>

-----------------------------------------------------------------------------
At(n, s) == pc = "certificates" /\ stage[n] = s
Go(n, s) ==
    /\ stage' = [stage EXCEPT ![n] = s]
    /\ UNCHANGED <<day, addresses, pc, command>>

ShouldGenerate(n) == metadata[n] # keys[n]

\* openssl x509 -checkend (external): a day before it is too late.
WillExpire(n) == crt[n].end <= day + WarningDays

ShouldRenew(n) == mode = "ALWAYS" \/ (mode = "WHEN_REQUIRED" /\ WillExpire(n))

\* Mutant: the day of expiration counts as one more.
ExamineLate(n) ==
    /\ At(n, "todo")
    /\ \/ ShouldGenerate(n) /\ Go(n, "delete") /\ UNCHANGED renew
       \/ /\ ~ShouldGenerate(n)
          /\ crt[n] # Unreadable
          /\ IF mode = "ALWAYS" \/ (mode = "WHEN_REQUIRED" /\ crt[n].end < day + WarningDays)
             THEN Go(n, "ca") /\ renew' = [renew EXCEPT ![n] = TRUE]
             ELSE Go(n, "done") /\ UNCHANGED renew
    /\ UNCHANGED <<files, cut>>

\* Compare metadata.yml; with the right keys read the expiration date, which
\* fails without a readable certificate.
Examine(n) ==
    /\ At(n, "todo")
    /\ \/ ShouldGenerate(n) /\ Go(n, "delete") /\ UNCHANGED renew
       \/ /\ ~ShouldGenerate(n)
          /\ crt[n] # Unreadable
          /\ IF ShouldRenew(n)
             THEN Go(n, "ca") /\ renew' = [renew EXCEPT ![n] = TRUE]
             ELSE Go(n, "done") /\ UNCHANGED renew
    /\ UNCHANGED <<files, cut>>

\* The files are deleted in the order of the directory, which Node sorts.
Deleted(n, gone) ==
    /\ ca' = IF "ca" \in gone THEN [ca EXCEPT ![n] = Unreadable] ELSE ca
    /\ metadata' = IF "metadata" \in gone THEN [metadata EXCEPT ![n] = 0] ELSE metadata
    /\ crt' = IF "crt" \in gone THEN [crt EXCEPT ![n] = Unreadable] ELSE crt
    /\ full' = IF "full" \in gone THEN [full EXCEPT ![n] = NoChain] ELSE full

\* Mutant: the old folder is not emptied.
DeleteFolderNever(n) ==
    /\ At(n, "delete")
    /\ Go(n, "ca")
    /\ UNCHANGED <<files, renew, cut>>

\* A new certificate: the old folder is emptied.
DeleteFolder(n) ==
    /\ At(n, "delete")
    /\ Deleted(n, {"ca", "metadata", "crt", "full"})
    /\ Go(n, "ca")
    /\ UNCHANGED <<renew, cut>>

\* ... or the process is killed on the way. Without its authority alone the
\* folder looks untouched.
DeleteCut(n) ==
    /\ At(n, "delete")
    /\ \/ /\ Deleted(n, {"ca"})
          /\ cut' = [i \in Nodes |-> IF i # n THEN CutNow(i)
                                     ELSE IF metadata[n] = 0 THEN "creation" ELSE "deletion"]
       \/ /\ \E gone \in {{"ca", "metadata"}, {"ca", "metadata", "crt"}} : Deleted(n, gone)
          /\ cut' = [i \in Nodes |-> IF i # n THEN CutNow(i) ELSE "creation"]
    /\ Exit
    /\ UNCHANGED <<day, addresses>>

\* Mutant: a renewal makes a new authority.
MakeCaAlways(n) ==
    /\ At(n, "ca")
    /\ ca' = [ca EXCEPT ![n] = [key |-> keys[n], end |-> day + CaDays]]
    /\ Go(n, "sign")
    /\ UNCHANGED <<crt, full, metadata, renew, cut>>

\* Mutant: metadata.yml is written before the certificates are made.
MakeCaAfterMetadata(n) ==
    /\ At(n, "ca")
    /\ IF renew[n] THEN ca[n] # Unreadable /\ UNCHANGED ca
       ELSE ca' = [ca EXCEPT ![n] = [key |-> keys[n], end |-> day + CaDays]]
    /\ metadata' = [metadata EXCEPT ![n] = keys[n]]
    /\ Go(n, "sign")
    /\ UNCHANGED <<crt, full, renew, cut>>

\* createNodeCertificates.sh: the authority's certificate, which a renewal
\* only reads.
MakeCa(n) ==
    /\ At(n, "ca")
    /\ IF renew[n] THEN ca[n] # Unreadable /\ UNCHANGED ca
       ELSE ca' = [ca EXCEPT ![n] = [key |-> keys[n], end |-> day + CaDays]]
    /\ Go(n, "sign")
    /\ UNCHANGED <<crt, full, metadata, renew, cut>>

\* openssl ca opens its output, then writes it.
OpenCrt(n) ==
    /\ At(n, "sign") /\ ca[n].key = keys[n]
    /\ crt' = [crt EXCEPT ![n] = Unreadable]
    /\ Go(n, "write")
    /\ UNCHANGED <<ca, full, metadata, renew, cut>>

FillCrt(n) ==
    /\ At(n, "write")
    /\ crt' = [crt EXCEPT ![n] = [key |-> keys[n], end |-> day + NodeDays]]
    /\ Go(n, "verify")
    /\ UNCHANGED <<ca, full, metadata, renew, cut>>

\* openssl verify fails for an authority that has expired; then cat opens the
\* full certificate, and writes it.
OpenFull(n) ==
    /\ At(n, "verify") /\ day < ca[n].end
    /\ full' = [full EXCEPT ![n] = NoChain]
    /\ Go(n, "join")
    /\ UNCHANGED <<ca, crt, metadata, renew, cut>>

FillFull(n) ==
    /\ At(n, "join")
    /\ full' = [full EXCEPT ![n] = [crt |-> crt[n], ca |-> ca[n]]]
    /\ Go(n, "metadata")
    /\ UNCHANGED <<ca, crt, metadata, renew, cut>>

\* metadata.yml is emptied, then written. Empty, it is read as that of no keys.
OpenMetadata(n) ==
    /\ At(n, "metadata")
    /\ metadata' = [metadata EXCEPT ![n] = 0]
    /\ Go(n, "fill")
    /\ UNCHANGED <<ca, crt, full, renew, cut>>

FillMetadata(n) ==
    /\ At(n, "fill")
    /\ metadata' = [metadata EXCEPT ![n] = keys[n]]
    /\ cut' = [cut EXCEPT ![n] = "none"]
    /\ Go(n, "done")
    /\ UNCHANGED <<ca, crt, full, renew>>

AllDone == \A n \in Nodes : stage[n] = "done"

\* renewCertificates ends; config goes on to addresses.yml.
FinishRenew ==
    /\ pc = "certificates" /\ AllDone /\ mode # "ONLY_WARNING"
    /\ Exit
    /\ UNCHANGED <<day, addresses, files, cut>>

FinishCertificates ==
    /\ pc = "certificates" /\ AllDone /\ mode = "ONLY_WARNING"
    /\ pc' = "addresses"
    /\ UNCHANGED <<day, addresses, files, command, stage, renew, cut>>

WriteAddresses ==
    /\ pc = "addresses"
    /\ addresses' = keys
    /\ Exit
    /\ UNCHANGED <<day, files, cut>>

\* Midnight.
NewDay ==
    /\ day < MaxDay
    /\ day' = day + 1
    /\ UNCHANGED <<addresses, files, pc, command, stage, renew, cut>>

NodeStep(n) ==
    \/ Examine(n) \/ DeleteFolder(n) \/ DeleteCut(n) \/ MakeCa(n)
    \/ OpenCrt(n) \/ FillCrt(n) \/ OpenFull(n) \/ FillFull(n)
    \/ OpenMetadata(n) \/ FillMetadata(n)

Next ==
    \/ StartConfig \/ StartRenew \/ Abort
    \/ \E n \in Nodes : NodeStep(n)
    \/ FinishRenew \/ FinishCertificates \/ WriteAddresses
    \/ NewDay

Spec == Init /\ [][Next]_vars

-----------------------------------------------------------------------------
\* metadata.yml never describes other files: whatever was killed and whichever
\* keys came and went, a certificate beside it is for the keys it names.
MetadataTells ==
    \A n \in Nodes : metadata[n] # 0 =>
        \A f \in {ca[n], crt[n], full[n].crt, full[n].ca} :
            f = Unreadable \/ f.key = metadata[n]

\* "regenerating the node.csr.pem files but reusing the current private keys":
\* the authority, which other nodes may know, is never replaced for the same
\* keys, unless metadata.yml was never written beside it, its creation having
\* been killed, or was emptied by a renewal that was killed right then.
RenewalKeepsAuthority ==
    [][\A n \in Nodes : ca'[n] # ca[n] /\ ca[n].key = keys[n] =>
         cut[n] \in {"creation", "metadata"}]_vars

Completes == FinishRenew \/ WriteAddresses

\* A creation that was killed anywhere, or a renewal killed while it wrote
\* metadata.yml, is made good by every later command that completes.
CreationHeals ==
    [][Completes => \A n \in Nodes : cut[n] \notin {"creation", "metadata"}]_vars

\* A command that completes leaves every node, unless a renewal or a deletion in
\* its folder was killed earlier, the full certificate of its current keys; and
\* after renewCertificates it is not about to expire.
CompletedIsCurrent ==
    [][Completes => \A n \in Nodes : cut[n] = "none" =>
         /\ crt[n].key = keys[n] /\ ca[n].key = keys[n]
         /\ full[n] = [crt |-> crt[n], ca |-> ca[n]]
         /\ mode # "ONLY_WARNING" /\ WarningDays < NodeDays =>
                crt[n].end > began + WarningDays]_vars
=============================================================================
