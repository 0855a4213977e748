---------------------------- MODULE ConfigTarget ----------------------------
(***************************************************************************)
(* The life of a target folder. `config` (ConfigService.run) generates the  *)
(* keys, certificates, node and gateway configuration and nemesis seed of a *)
(* network, or upgrades them; `compose` writes docker-compose.yml; `run`    *)
(* starts the containers; `start` is the three in a row; `clean`, --reset   *)
(* and `resetData` delete. There is no transaction over the folder: a       *)
(* command may stop (killed, or an exception) between any two steps, and    *)
(* the next one finds what is there.                                        *)
(*                                                                         *)
(* A key is a positive number; 0 is "not there". "main" stands for the main *)
(* and the transport key, which every node has; the roles of a node decide  *)
(* whether it has a remote and a VRF key too. A preset is the sequence of   *)
(* its nodes; the empty sequence is "no file". Voting key files are in      *)
(* VotingKeys, certificate renewal is not part of config.                   *)
(***************************************************************************)
EXTENDS Naturals, Sequences

CONSTANTS
    Names,          \* the node names that occur
    Networks        \* what the folder may be for: the custom presets the user may
                    \* pass, the nemesis seeds that its presets may ask for, and
                    \* the bound of the keys generated

NoFile == << >>

\* The keys of a node, those that depend on its roles, and having none.
Kinds == {"main", "remote", "vrf"}
RoleKinds == {"remote", "vrf"}
NoKeys == [k \in Kinds |-> 0]

\* A node of a preset: its name, the private keys provided, the keys that its
\* roles call for, and whether it is excludeFromNemesis.
PresetNode ==
    [name : Names, provided : [Kinds -> Nat], roles : SUBSET RoleKinds, excluded : BOOLEAN]
Called(node) == {"main"} \cup node.roles

\* Where a preset has the nemesis from: shouldCreateNemesis is 0, a number is
\* the content of a seed folder, nemesisSeedFolder or the network's own.
ASSUME TargetAssumption ==
    \A w \in Networks :
        /\ w.customs \subseteq Seq(PresetNode) \ {NoFile}
        /\ \A c \in w.customs : \A i, j \in DOMAIN c : c[i].name = c[j].name => i = j
        /\ w.seeds \subseteq Nat
        /\ w.maxKeys \in Nat

\* No key, a generated one, or one that a custom preset provides.
Customs == UNION {w.customs : w \in Networks}
Keys == (UNION {0..w.maxKeys : w \in Networks})
        \cup (UNION {{c[i].provided[k] : i \in DOMAIN c, k \in Kinds} : c \in Customs})
KeysOfNode == [Kinds -> Keys]
Node == [name : Names, keys : KeysOfNode]

VARIABLES
    network,      \* the one of Networks, for good
    presetYml,    \* preset.yml: the nodes of the last completed config
    addressesYml, \* addresses.yml: the keys of the nodes, in their order
    cert,         \* cert[n]: the main key of the certificate files and of metadata.yml
    server,       \* server[n]: the keys in the server-config and broker-config
    gateway,      \* the certificate copied into the gateway's api-node-config
    bins,         \* bins[n][k]: the key linked by nemesis/transactions/k_n.bin
    nemesis,      \* nemesis/seed
    seed,         \* seed[n]: the node's copy of it
    compose,      \* docker-compose.yml: the preset it was made from
    data,         \* data[n]: the seed that the node's chain data grew from
    pc,           \* where the running command is
    cmd,          \* the running command and its parameters
    preset,       \* presetData, in memory
    addresses,    \* addresses, in memory
    isUpgrade,    \* both files were there
    stage,        \* stage[n]: where the current Promise.all is for n
    fresh         \* the last key generated

disk == <<presetYml, addressesYml, cert, server, gateway, bins, nemesis, seed, compose, data>>
run == <<cmd, preset, addresses, isUpgrade>>
vars == <<network, disk, pc, run, stage, fresh>>

\* The origin of blocks: a seed folder, or a nemesis created with the link
\* transactions links[n][k].
NoLinks == [n \in Names |-> [k \in RoleKinds |-> 0]]
Origin(kind, folder, links) == [kind |-> kind, folder |-> folder, links |-> links]
NoSeed == Origin("none", 0, NoLinks)
CopyOf(folder) == Origin("folder", folder, NoLinks)
Created(links) == Origin("created", 0, links)
Seed == [kind : {"none", "folder", "created"}, folder : Nat,
         links : [Names -> [RoleKinds -> Keys]]]
NoCert == [files |-> 0, metadata |-> 0]

\* `seed` is what the preset that the command resolves says of the nemesis.
Command ==
    [kind : {"config", "start"}, reset : BOOLEAN, upgrade : BOOLEAN,
     custom : Customs \cup {NoFile}, seed : UNION {w.seeds : w \in Networks}]
    \cup [kind : {"compose"}, reset : {FALSE}, upgrade : BOOLEAN, custom : {NoFile}, seed : {0}]
    \cup [kind : {"run"}, reset : {FALSE}, upgrade : {FALSE}, custom : {NoFile}, seed : {0}]
NoCommand == [kind |-> "run", reset |-> FALSE, upgrade |-> FALSE, custom |-> NoFile, seed |-> 0]
Labels == {"idle", "reset", "check", "clean", "certs", "nodes", "gateway", "nemesis",
           "vrf", "remote", "nemgen", "copy", "seeds", "addresses", "preset", "dropCompose",
           "compose", "up"}
Stages == {"todo", "delete", "create", "metadata", "done"}

TypeOK ==
    /\ network \in Networks
    /\ presetYml \in Seq(PresetNode) /\ addressesYml \in Seq(Node)
    /\ cert \in [Names -> [files : Keys, metadata : Keys]]
    /\ server \in [Names -> KeysOfNode]
    /\ gateway \in Keys
    /\ bins \in [Names -> [RoleKinds -> Keys]]
    /\ nemesis \in Seed
    /\ seed \in [Names -> Seed]
    /\ compose \in Seq(PresetNode)
    /\ data \in [Names -> Seed]
    /\ pc \in Labels
    /\ cmd \in Command
    /\ preset \in Seq(PresetNode) /\ addresses \in Seq(Node)
    /\ isUpgrade \in BOOLEAN
    /\ stage \in [Names -> Stages]
    /\ fresh \in 0..network.maxKeys

NamesOf(p) == {p[i].name : i \in DOMAIN p}

Init ==
    /\ network \in Networks
    /\ presetYml = NoFile /\ addressesYml = NoFile /\ compose = NoFile
    /\ cert = [n \in Names |-> NoCert]
    /\ server = [n \in Names |-> NoKeys] /\ gateway = 0 /\ bins = NoLinks
    /\ nemesis = NoSeed
    /\ seed = [n \in Names |-> NoSeed] /\ data = [n \in Names |-> NoSeed]
    /\ pc = "idle"
    /\ cmd = NoCommand
    /\ preset = NoFile /\ addresses = NoFile /\ isUpgrade = FALSE
    /\ stage = [n \in Names |-> "done"]
    /\ fresh = 0

-----------------------------------------------------------------------------
\* The process ends: completed, with an exception, or killed.
Exit ==
    /\ pc' = "idle"
    /\ cmd' = NoCommand
    /\ preset' = NoFile /\ addresses' = NoFile /\ isUpgrade' = FALSE
    /\ stage' = [n \in Names |-> "done"]

Abort ==
    /\ pc # "idle"
    /\ Exit
    /\ UNCHANGED <<disk, fresh>>

FirstLabel(c) ==
    IF c.kind = "compose" THEN "dropCompose"
    ELSE IF c.kind = "run" THEN "up"
    ELSE IF c.reset THEN "reset" ELSE "check"

\* compose on its own loads preset.yml, which must be there.
StartCommand(c) ==
    /\ pc = "idle"
    /\ c.custom \in network.customs \cup {NoFile}
    /\ c.kind \in {"config", "start"} => c.seed \in network.seeds
    /\ c.kind = "compose" => presetYml # NoFile
    /\ cmd' = c
    /\ pc' = FirstLabel(c)
    /\ preset' = IF c.kind = "compose" THEN presetYml ELSE NoFile
    /\ UNCHANGED <<disk, addresses, isUpgrade, stage, fresh>>

\* deleteFolder(target), piece by piece in the order of the directory, which
\* Node sorts; `gone` is what is deleted.
Order == <<"addresses", "docker", "gateways", "nemesis", "nodes", "preset">>
First(i) == {Order[j] : j \in 1..i}
Pieces == First(Len(Order))
Delete(gone) ==
    /\ presetYml' = IF "preset" \in gone THEN NoFile ELSE presetYml
    /\ addressesYml' = IF "addresses" \in gone THEN NoFile ELSE addressesYml
    /\ compose' = IF "docker" \in gone THEN NoFile ELSE compose
    /\ gateway' = IF "gateways" \in gone THEN 0 ELSE gateway
    /\ IF "nodes" \in gone
       THEN /\ cert' = [n \in Names |-> NoCert] /\ server' = [n \in Names |-> NoKeys]
            /\ seed' = [n \in Names |-> NoSeed] /\ data' = [n \in Names |-> NoSeed]
       ELSE UNCHANGED <<cert, server, seed, data>>
    /\ IF "nemesis" \in gone
       THEN nemesis' = NoSeed /\ bins' = NoLinks
       ELSE UNCHANGED <<nemesis, bins>>

Reset ==
    /\ pc = "reset"
    /\ Delete(Pieces)
    /\ pc' = "check"
    /\ UNCHANGED <<run, stage, fresh>>

\* ... or the process is killed on the way.
ResetCut ==
    /\ pc = "reset"
    /\ \E i \in 0..Len(Order) : Delete(First(i))
    /\ Exit
    /\ UNCHANGED fresh

\* The clean command, or the part of it that is done before it is killed.
Clean ==
    /\ pc = "idle"
    /\ \E i \in 0..Len(Order) : Delete(First(i))
    /\ UNCHANGED <<pc, run, stage, fresh>>

\* The resetData command, or run --resetData: preset.yml must be there. It may
\* be killed when some nodes are done.
ResetData ==
    /\ pc = "idle" /\ presetYml # NoFile
    /\ \E gone \in SUBSET NamesOf(presetYml) :
         data' = [n \in Names |-> IF n \in gone THEN NoSeed ELSE data[n]]
    /\ UNCHANGED <<presetYml, addressesYml, cert, server, gateway, bins, nemesis, seed,
                   compose, pc, run, stage, fresh>>

-----------------------------------------------------------------------------
\* preset.yml is there and --upgrade was not given: the configuration is left
\* alone. (Without addresses.yml this is an exception: Abort.)
Reuse ==
    /\ pc = "check"
    /\ presetYml # NoFile /\ ~cmd.upgrade
    /\ addressesYml # NoFile
    /\ IF cmd.kind = "start"
       THEN /\ pc' = "dropCompose"
            /\ preset' = presetYml
            /\ UNCHANGED <<cmd, addresses, isUpgrade, stage>>
       ELSE Exit
    /\ UNCHANGED <<disk, fresh>>

\* createPresetData: a custom preset replaces the cached one, which has lost
\* its private keys.
Resolved(custom, old) ==
    IF custom = NoFile THEN [i \in DOMAIN old |-> [old[i] EXCEPT !.provided = NoKeys]]
    ELSE custom

Stored(old, i, k) == IF i \in DOMAIN old THEN old[i].keys[k] ELSE 0

\* Mutant: the old addresses are ignored.
ResolveAccountAnew(p, old, i, k) ==
    IF k \notin Called(p[i]) THEN 0
    ELSE IF p[i].provided[k] # 0 THEN p[i].provided[k]
    ELSE fresh + i

\* resolveNodeAccounts and resolveAccount: a key that the roles do not call for
\* is left out, whether stored or provided; else a provided key is taken, or
\* the one at the same index of the old addresses, or a new one.
ResolveAccount(p, old, i, k) ==
    IF k \notin Called(p[i]) THEN 0
    ELSE IF p[i].provided[k] # 0 THEN p[i].provided[k]
    ELSE IF Stored(old, i, k) # 0 THEN Stored(old, i, k)
    ELSE fresh + i
Generates(p, old) ==
    \E i \in DOMAIN p : \E k \in Called(p[i]) : p[i].provided[k] = 0 /\ Stored(old, i, k) = 0

\* A new configuration or an upgrade. (With only one of the two files, or with
\* no preset to be found, this is an exception: Abort.)
Resolve ==
    /\ pc = "check"
    /\ presetYml = NoFile \/ cmd.upgrade
    /\ (presetYml = NoFile) = (addressesYml = NoFile)
    /\ preset' = Resolved(cmd.custom, presetYml)
    /\ preset' # NoFile
    /\ addresses' = [i \in DOMAIN preset' |->
                       [name |-> preset'[i].name,
                        keys |-> [k \in Kinds |-> ResolveAccount(preset', addressesYml, i, k)]]]
    /\ fresh' = IF Generates(preset', addressesYml) THEN fresh + Len(preset') ELSE fresh
    /\ fresh' <= network.maxKeys
    /\ isUpgrade' = (presetYml # NoFile)
    /\ pc' = "clean"
    /\ UNCHANGED <<disk, cmd, stage>>

Todo == [n \in Names |-> IF n \in NamesOf(addresses) THEN "todo" ELSE "done"]
AllDone == \A n \in Names : stage[n] = "done"
IndexOf(n) == CHOOSE i \in DOMAIN addresses : addresses[i].name = n
KeysOf(n) == addresses[IndexOf(n)].keys
MainOf(n) == KeysOf(n)["main"]
Advance(n, next) == stage' = [stage EXCEPT ![n] = next]

\* Mutant: the server and broker configurations stay until they are replaced.
ClearSeedsOnly(names) ==
    /\ server' = server
    /\ seed' = [n \in Names |-> IF n \in names THEN NoSeed ELSE seed[n]]

\* cleanUpConfiguration of nodes: server, broker and user configs, and seeds.
Clear(names) ==
    /\ server' = [n \in Names |-> IF n \in names THEN NoKeys ELSE server[n]]
    /\ seed' = [n \in Names |-> IF n \in names THEN NoSeed ELSE seed[n]]

\* ... and of the gateways, which come last.
CleanUp ==
    /\ pc = "clean"
    /\ Clear(NamesOf(preset))
    /\ gateway' = 0
    /\ pc' = "certs" /\ stage' = Todo
    /\ UNCHANGED <<presetYml, addressesYml, cert, bins, nemesis, compose, data, run, fresh>>

\* ... or the process is killed when some nodes are done.
CleanUpCut ==
    /\ pc = "clean"
    /\ \E i \in DOMAIN preset : Clear({preset[j].name : j \in 1..i})
    /\ Exit
    /\ UNCHANGED <<presetYml, addressesYml, cert, gateway, bins, nemesis, compose, data, fresh>>

\* Mutant: the files are not looked at.
CheckCertMetadataOnly(n) ==
    /\ pc = "certs" /\ stage[n] = "todo"
    /\ Advance(n, IF cert[n].metadata = MainOf(n) THEN "done" ELSE "delete")
    /\ UNCHANGED <<disk, pc, run, fresh>>

\* CertificateService.run: metadata.yml tells whether the certificate is the
\* right one. Then its expiration date is read, which fails without the files.
CheckCert(n) ==
    /\ pc = "certs" /\ stage[n] = "todo"
    /\ IF cert[n].metadata = MainOf(n)
       THEN cert[n].files # 0 /\ Advance(n, "done")
       ELSE Advance(n, "delete")
    /\ UNCHANGED <<disk, pc, run, fresh>>

CertStep(n, c, next) ==
    /\ cert' = [cert EXCEPT ![n] = c]
    /\ Advance(n, next)
    /\ UNCHANGED <<presetYml, addressesYml, server, gateway, bins, nemesis, seed, compose,
                   data, pc, run, fresh>>

\* createCertificate: the old folder is deleted, file by file; openssl makes
\* the files; metadata.yml comes last.
DeleteCert(n) ==
    /\ pc = "certs" /\ stage[n] = "delete"
    /\ \/ cert[n].files # 0 /\ CertStep(n, [cert[n] EXCEPT !.files = 0], "delete")
       \/ cert[n].metadata # 0 /\ CertStep(n, [cert[n] EXCEPT !.metadata = 0], "delete")
       \/ cert[n] = NoCert /\ CertStep(n, NoCert, "create")

CreateCert(n) ==
    /\ pc = "certs" /\ stage[n] = "create"
    /\ CertStep(n, [cert[n] EXCEPT !.files = MainOf(n)], "metadata")

WriteMetadata(n) ==
    /\ pc = "certs" /\ stage[n] = "metadata"
    /\ CertStep(n, [cert[n] EXCEPT !.metadata = MainOf(n)], "done")

\* The Promise.all at label `from` is over.
Barrier(from, to, st) ==
    /\ pc = from /\ AllDone
    /\ pc' = to /\ stage' = st
    /\ UNCHANGED <<disk, run, fresh>>

GenerateNode(n) ==
    /\ pc = "nodes" /\ stage[n] = "todo"
    /\ server' = [server EXCEPT ![n] = KeysOf(n)]
    /\ Advance(n, "done")
    /\ UNCHANGED <<presetYml, addressesYml, cert, gateway, bins, nemesis, seed, compose, data,
                   pc, run, fresh>>

\* Mutant: the nemesis is generated again on upgrade.
GenerateGatewayAlways ==
    /\ pc = "gateway"
    /\ gateway' = cert[addresses[1].name].files
    /\ pc' = "nemesis"
    /\ stage' = Todo
    /\ UNCHANGED <<presetYml, addressesYml, cert, server, bins, nemesis, seed, compose, data,
                   run, fresh>>

\* The gateway of the first node gets a copy of that node's certificate.
GenerateGateway ==
    /\ pc = "gateway"
    /\ gateway' = cert[addresses[1].name].files
    /\ pc' = IF cmd.seed = 0 /\ isUpgrade THEN "seeds" ELSE "nemesis"
    /\ stage' = Todo
    /\ UNCHANGED <<presetYml, addressesYml, cert, server, bins, nemesis, seed, compose, data,
                   run, fresh>>

-----------------------------------------------------------------------------
\* resolveNemesis: a nemesis that would be created is kept on upgrade
\* (GenerateGateway skips to the seeds), anything else is replaced.
NemesisStep(from, to, s, b) ==
    /\ pc = from
    /\ nemesis' = s /\ bins' = b
    /\ pc' = to
    /\ UNCHANGED <<presetYml, addressesYml, cert, server, gateway, seed, compose, data, run,
                   fresh>>

\* The key of kind k that the nemesis is to link to node n, which is not
\* excludeFromNemesis and has one.
Linked(n, k) ==
    IF n \in NamesOf(addresses) /\ ~preset[IndexOf(n)].excluded THEN KeysOf(n)[k] ELSE 0
TodoLinks(k) == [n \in Names |-> IF Linked(n, k) # 0 THEN "todo" ELSE "done"]

DropNemesis ==
    IF cmd.seed = 0
    THEN NemesisStep("nemesis", "vrf", NoSeed, bins) /\ stage' = TodoLinks("vrf")
    ELSE NemesisStep("nemesis", "copy", NoSeed, bins) /\ UNCHANGED stage

CopyPresetNemesis == NemesisStep("copy", "seeds", CopyOf(cmd.seed), bins) /\ UNCHANGED stage

\* Mutant: a transaction that is there already is left alone.
StoreTransactionsOnce(n) ==
    /\ pc \in RoleKinds /\ stage[n] = "todo"
    /\ NemesisStep(pc, pc, nemesis, [bins EXCEPT ![n][pc] = IF @ = 0 THEN KeysOf(n)[pc] ELSE @])
    /\ Advance(n, "done")

\* generateNemesisConfig: first the VRF, then the remote key link transactions,
\* then nemgen makes the seed from whatever is in the transactions directory
\* (external).
StoreTransactions(n) ==
    /\ pc \in RoleKinds /\ stage[n] = "todo"
    /\ NemesisStep(pc, pc, nemesis, [bins EXCEPT ![n][pc] = KeysOf(n)[pc]])
    /\ Advance(n, "done")

Nemgen == NemesisStep("nemgen", "seeds", Created(bins), bins) /\ UNCHANGED stage

\* copyNemesis: the seed must be valid.
CopySeed(n) ==
    /\ pc = "seeds" /\ stage[n] = "todo"
    /\ nemesis # NoSeed
    /\ seed' = [seed EXCEPT ![n] = nemesis]
    /\ Advance(n, "done")
    /\ UNCHANGED <<presetYml, addressesYml, cert, server, gateway, bins, nemesis, compose, data,
                   pc, run, fresh>>

WriteAddresses ==
    /\ pc = "addresses"
    /\ addressesYml' = addresses
    /\ pc' = "preset"
    /\ UNCHANGED <<presetYml, cert, server, gateway, bins, nemesis, seed, compose, data,
                   run, stage, fresh>>

WritePreset ==
    /\ pc = "preset"
    /\ presetYml' = preset
    /\ IF cmd.kind = "start"
       THEN pc' = "dropCompose" /\ UNCHANGED <<run, stage>>
       ELSE Exit
    /\ UNCHANGED <<addressesYml, cert, server, gateway, bins, nemesis, seed, compose, data, fresh>>

-----------------------------------------------------------------------------
\* Mutant: the old docker-compose.yml survives an upgrade.
DropComposeNever ==
    /\ pc = "dropCompose"
    /\ pc' = "compose"
    /\ UNCHANGED <<disk, run, stage, fresh>>

\* ComposeService.run
DropCompose ==
    /\ pc = "dropCompose"
    /\ compose' = IF cmd.upgrade THEN NoFile ELSE compose
    /\ pc' = "compose"
    /\ UNCHANGED <<presetYml, addressesYml, cert, server, gateway, bins, nemesis, seed, data,
                   run, stage, fresh>>

WriteCompose ==
    /\ pc = "compose"
    /\ compose' = IF compose = NoFile THEN preset ELSE compose
    /\ IF cmd.kind = "start" THEN pc' = "up" /\ UNCHANGED <<run, stage>> ELSE Exit
    /\ UNCHANGED <<presetYml, addressesYml, cert, server, gateway, bins, nemesis, seed, data,
                   fresh>>

\* RunService.run: docker-compose.yml must be there; a node without chain data
\* starts from its seed (catapult, external).
Up ==
    /\ pc = "up" /\ compose # NoFile
    /\ data' = [n \in Names |->
                  IF n \in NamesOf(compose) /\ data[n] = NoSeed THEN seed[n] ELSE data[n]]
    /\ Exit
    /\ UNCHANGED <<presetYml, addressesYml, cert, server, gateway, bins, nemesis, seed, compose,
                   fresh>>

NodeStep(n) ==
    \/ CheckCert(n) \/ DeleteCert(n) \/ CreateCert(n) \/ WriteMetadata(n)
    \/ GenerateNode(n) \/ StoreTransactions(n) \/ CopySeed(n)

ConfigStep ==
    \/ Reset \/ ResetCut \/ Reuse \/ Resolve \/ CleanUp \/ CleanUpCut
    \/ Barrier("certs", "nodes", Todo)
    \/ Barrier("nodes", "gateway", stage)
    \/ GenerateGateway
    \/ DropNemesis \/ CopyPresetNemesis
    \/ Barrier("vrf", "remote", TodoLinks("remote"))
    \/ Barrier("remote", "nemgen", Todo)
    \/ Nemgen
    \/ Barrier("seeds", "addresses", stage)
    \/ WriteAddresses \/ WritePreset

Next ==
    /\ UNCHANGED network
    /\ \/ \E c \in Command : StartCommand(c)
       \/ Clean \/ ResetData
       \/ ConfigStep
       \/ \E n \in Names : NodeStep(n)
       \/ DropCompose \/ WriteCompose \/ Up
       \/ Abort

Spec == Init /\ [][Next]_vars

-----------------------------------------------------------------------------
\* The certificates, configurations and seeds of the nodes and the gateway's
\* copy are those of preset.yml and addresses.yml.
Consistent ==
    /\ presetYml # NoFile
    /\ DOMAIN presetYml = DOMAIN addressesYml
    /\ \A i \in DOMAIN presetYml :
         LET n == presetYml[i].name
             main == addressesYml[i].keys["main"]
         IN  /\ addressesYml[i].name = n
             /\ cert[n] = [files |-> main, metadata |-> main]
             /\ server[n] = addressesYml[i].keys
             /\ seed[n] = nemesis
    /\ nemesis # NoSeed
    /\ gateway = addressesYml[1].keys["main"]

\* A config that completes makes the folder consistent, whatever stopped
\* commands left behind.
CompletedIsConsistent == [][WritePreset => Consistent']_vars

\* However configs and upgrades were stopped, what they leave is never a mix of
\* two configurations: a node that has its server configuration has no
\* certificate of another main key, and the gateway's copy is a node's. What a
\* plain start then reuses can be incomplete, but not of different keys.
NodesMatch ==
    /\ \A n \in Names :
         server[n] # NoKeys /\ cert[n].files # 0 => cert[n].files = server[n]["main"]
    /\ gateway # 0 => \E n \in Names : cert[n].files = gateway

\* "--upgrade ... reusing the previous keys": a key at an index of addresses.yml
\* becomes another one only if the custom preset provides that, and is dropped
\* only if the roles of the node no longer call for it (when they do again,
\* another one is generated); also when upgrades are stopped and repeated.
KeysKept ==
    [][\A i \in DOMAIN addressesYml \cap DOMAIN addressesYml' : \A k \in Kinds :
         LET old == addressesYml[i].keys[k]
             new == addressesYml'[i].keys[k]
         IN  \/ old \in {0, new}
             \/ i \in DOMAIN preset /\ new = IF k \in Called(preset[i])
                                            THEN preset[i].provided[k] ELSE 0]_vars

\* Chain data grew from the seed of the node: no order of upgrades, resets,
\* starts and kills makes a node run on another network's blocks, unless its
\* network changes the seed folder that it asks for. A nemesis that was created
\* never comes beside other chain data.
DataOfSeed ==
    \A n \in Names :
        \/ NoSeed \in {data[n], seed[n]}
        \/ data[n] = seed[n]
        \/ seed[n].kind = "folder" /\ network.seeds # {seed[n].folder}

\* The seed of a new network links the remote and VRF keys of its nodes, also
\* if earlier attempts were stopped half-way; what it links beyond that was left
\* in the transactions directory by an attempt with another custom preset, whose
\* roles called for it.
NemesisOfNodes ==
    [][WritePreset /\ ~isUpgrade /\ cmd.seed = 0 =>
         \A n \in Names : \A k \in RoleKinds :
            \/ nemesis.links[n][k] = Linked(n, k)
            \/ /\ Linked(n, k) = 0
               /\ \E c \in network.customs \ {preset} : \E i \in DOMAIN c :
                    c[i].name = n /\ k \in c[i].roles /\ ~c[i].excluded]_vars

\* start boots what it has just configured: after a new configuration or an
\* upgrade docker-compose.yml is made from the same preset.
StartBootsPreset ==
    [][Up /\ cmd.kind = "start" /\ addresses # NoFile => compose = presetYml]_vars
=============================================================================
