------------------------- MODULE ConfigTargetProofs -------------------------
(***************************************************************************)
(* Proofs about ConfigTarget, for all networks, custom presets, node names  *)
(* and keys. The inductive invariant has four parts: what the command has   *)
(* in memory (Memory), what it has made of the folder so far (Folder), what *)
(* the chain data grew from (History), and that configurations are not      *)
(* mixed (Matched). What the nemesis of a new network links (LinksInv)      *)
(* rests on these.                                                          *)
(***************************************************************************)
EXTENDS ConfigTarget, SequenceTheorems, TLAPS

Distinct(p) == \A i, j \in DOMAIN p : p[i].name = p[j].name => i = j

\* The labels of config from the first change of the folder on.
Changing ==
    {"certs", "nodes", "gateway", "nemesis", "vrf", "remote", "nemgen", "copy", "seeds",
     "addresses", "preset"}
Configuring == Changing \cup {"clean"}

\* The key in memory is the stored one, or the one that the preset asks for.
Kept(i, k) ==
    \/ Stored(addressesYml, i, k) \in {0, addresses[i].keys[k]}
    \/ addresses[i].keys[k] = IF k \in Called(preset[i]) THEN preset[i].provided[k] ELSE 0

\* The nodes have names of their own, the keys that their roles call for, and
\* these are the old ones or provided.
Named ==
    /\ Distinct(presetYml) /\ Distinct(preset)
    /\ pc \in {"idle", "reset", "check"} => addresses = NoFile
    /\ pc \in Configuring =>
         /\ preset # NoFile
         /\ DOMAIN addresses = DOMAIN preset
         /\ \A i \in DOMAIN addresses :
              /\ addresses[i].name = preset[i].name
              /\ \A k \in Kinds : (addresses[i].keys[k] # 0) = (k \in Called(preset[i]))
              /\ \A k \in Kinds : Kept(i, k)

\* Only nodes of the configuration are worked on.
Staged ==
    \A n \in Names :
        stage[n] # "done" =>
            pc \in Changing \ {"addresses", "preset"} /\ n \in NamesOf(addresses)

Memory == Named /\ Staged

\* Certificate files and metadata.yml that are both there are of one key.
Paired ==
    \A n \in Names :
        cert[n].files # 0 /\ cert[n].metadata # 0 => cert[n].files = cert[n].metadata

CertOf(n) == [files |-> MainOf(n), metadata |-> MainOf(n)]

CertMade(n) ==
    /\ stage[n] = "create" => cert[n] = NoCert
    /\ stage[n] = "metadata" => cert[n] = [files |-> MainOf(n), metadata |-> 0]
    /\ stage[n] = "done" => cert[n] = CertOf(n)

\* What the command has made for a node.
Built(n) ==
    /\ pc = "certs" => CertMade(n)
    /\ pc \in Changing \ {"certs"} => cert[n] = CertOf(n)
    /\ pc = "nodes" /\ stage[n] = "done" => server[n] = KeysOf(n)
    /\ pc \in Changing \ {"certs", "nodes"} => server[n] = KeysOf(n)
    /\ pc \in {"nemesis", "copy", "nemgen"} => stage[n] # "done"
    /\ pc = "seeds" /\ stage[n] = "done" => nemesis # NoSeed /\ seed[n] = nemesis
    /\ pc \in {"addresses", "preset"} => nemesis # NoSeed /\ seed[n] = nemesis

Finished ==
    /\ pc \in Changing \ {"certs", "nodes", "gateway"} => gateway = addresses[1].keys["main"]
    /\ pc = "preset" => addressesYml = addresses

Folder == Paired /\ (\A n \in NamesOf(addresses) : Built(n)) /\ Finished

\* While certificates change, nothing made with the old ones is there.
Cleared ==
    pc = "certs" => gateway = 0 /\ \A n \in NamesOf(addresses) : server[n] = NoKeys

Matched == NodesMatch /\ Cleared

\* Which way the command takes, and what it knows of the folder.
Upgrading ==
    /\ pc \in Configuring =>
         /\ isUpgrade = (presetYml # NoFile) /\ (isUpgrade => cmd.upgrade)
         /\ isUpgrade => addressesYml # NoFile
    /\ pc \in Configuring \cup {"reset", "check"} => cmd.seed \in network.seeds
    /\ pc \in {"vrf", "remote", "nemgen"} => cmd.seed = 0
    /\ pc = "copy" => cmd.seed # 0
    /\ pc \in {"nemesis", "vrf", "remote", "nemgen"} => ~(cmd.seed = 0 /\ isUpgrade)
    /\ pc \in {"dropCompose", "compose"} => presetYml # NoFile /\ preset = presetYml

\* A seed that the presets of the network ask for.
Offered(s) ==
    \/ s = NoSeed
    \/ s.kind = "created" /\ 0 \in network.seeds
    \/ \E f \in network.seeds \ {0} : s = CopyOf(f)

Origins == Offered(nemesis) /\ \A n \in Names : Offered(seed[n]) /\ Offered(data[n])

\* Nothing runs before the first configuration completed.
Untouched == presetYml = NoFile => compose = NoFile /\ \A n \in Names : data[n] = NoSeed

\* The nodes that may have run since then have the nemesis, if that was created,
\* while there is an addresses.yml; a deletion that was killed has deleted that
\* first, and without it nothing can be configured.
Rooted ==
    nemesis.kind = "created" /\ addressesYml # NoFile =>
        \A n \in Names :
            data[n] # NoSeed \/ n \in NamesOf(presetYml) \cup NamesOf(compose) =>
                seed[n] \in {NoSeed, nemesis} /\ data[n] \in {NoSeed, nemesis}

\* After a configuration, docker-compose.yml is made from it.
Composed ==
    addresses # NoFile =>
        /\ pc = "dropCompose" /\ ~cmd.upgrade => compose = NoFile
        /\ pc = "compose" => compose = NoFile
        /\ pc = "up" => compose = presetYml

History == Upgrading /\ Origins /\ Untouched /\ Rooted /\ Composed /\ DataOfSeed

TargetInv == TypeOK /\ Memory /\ Folder /\ Matched /\ History

-----------------------------------------------------------------------------
(* Lemmas about sequences of nodes.                                         *)

\* A sequence is known by the type of its elements.
LEMMA SeqOfNodes ==
    ASSUME NEW T, NEW n \in Nat, NEW p \in [1..n -> T]
    PROVE  p \in Seq(T)
  BY SeqDef

\* What the user may pass are presets of nodes with distinct names.
LEMMA CustomsAreNodes ==
    ASSUME NEW w \in Networks, NEW c \in w.customs
    PROVE  c \in Seq(PresetNode) /\ c # NoFile /\ Distinct(c)
  BY TargetAssumption DEF Distinct

\* What is known of a preset ...
LEMMA PresetSeq ==
    ASSUME NEW p \in Seq(PresetNode)
    PROVE  /\ Len(p) \in Nat /\ DOMAIN p = 1..Len(p)
           /\ \A i \in DOMAIN p : p[i] \in PresetNode /\ p[i].name \in Names
           /\ p # NoFile => 1 \in DOMAIN p
           /\ NamesOf(p) \subseteq Names
<1>1. Len(p) \in Nat /\ DOMAIN p = 1..Len(p) /\ \A i \in DOMAIN p : p[i] \in PresetNode
  BY LenProperties, ElementOfSeq
<1>2. p # NoFile => Len(p) # 0
  BY EmptySeq DEF NoFile
<1>3. \A i \in DOMAIN p : p[i].name \in Names
  BY <1>1 DEF PresetNode
<1>4. NamesOf(p) \subseteq Names
  BY <1>3 DEF NamesOf
<1> QED
  BY <1>1, <1>2, <1>3, <1>4

\* ... and of the addresses.
LEMMA NodesOfSeq ==
    ASSUME NEW p \in Seq(Node)
    PROVE  /\ Len(p) \in Nat /\ DOMAIN p = 1..Len(p)
           /\ \A i \in DOMAIN p : p[i] \in Node /\ p[i].name \in Names /\ p[i].keys \in KeysOfNode
           /\ p # NoFile => 1 \in DOMAIN p
           /\ NamesOf(p) \subseteq Names
<1>1. Len(p) \in Nat /\ DOMAIN p = 1..Len(p) /\ \A i \in DOMAIN p : p[i] \in Node
  BY LenProperties, ElementOfSeq
<1>2. p # NoFile => Len(p) # 0
  BY EmptySeq DEF NoFile
<1>3. \A i \in DOMAIN p : p[i].name \in Names /\ p[i].keys \in KeysOfNode
  BY <1>1 DEF Node
<1>4. NamesOf(p) \subseteq Names
  BY <1>3 DEF NamesOf
<1> QED
  BY <1>1, <1>2, <1>3, <1>4

LEMMA ZeroIsKey ==
    ASSUME network \in Networks
    PROVE  0 \in Keys /\ 0..network.maxKeys \subseteq Keys /\ network.maxKeys \in Nat
<1>1. network.maxKeys \in Nat
  BY TargetAssumption
<1>2. 0..network.maxKeys \subseteq Keys
  BY DEF Keys
<1> QED
  BY <1>1, <1>2

\* KeysOf finds the keys of a node by its name.
LEMMA KeysOfName ==
    ASSUME TypeOK, Named, pc \in Configuring
    PROVE  /\ \A i \in DOMAIN addresses :
                /\ IndexOf(addresses[i].name) = i
                /\ KeysOf(addresses[i].name) = addresses[i].keys
                /\ MainOf(addresses[i].name) = addresses[i].keys["main"]
           /\ \A n \in NamesOf(addresses) :
                /\ n \in Names /\ KeysOf(n) \in KeysOfNode /\ MainOf(n) \in Keys \ {0}
                /\ IndexOf(n) \in DOMAIN addresses /\ addresses[IndexOf(n)].name = n
<1>1. /\ \A i, j \in DOMAIN addresses : addresses[i].name = addresses[j].name => i = j
      /\ \A i \in DOMAIN addresses : addresses[i].keys["main"] # 0
  BY DEF Named, Distinct, Kinds, Called
<1>2. \A i \in DOMAIN addresses : addresses[i].keys \in KeysOfNode /\ addresses[i].name \in Names
  BY NodesOfSeq DEF TypeOK
<1>3. ASSUME NEW i \in DOMAIN addresses
      PROVE  /\ IndexOf(addresses[i].name) = i
             /\ KeysOf(addresses[i].name) = addresses[i].keys
             /\ MainOf(addresses[i].name) = addresses[i].keys["main"]
  <2>1. IndexOf(addresses[i].name) = i
    BY <1>1 DEF IndexOf
  <2> QED
    BY <2>1 DEF KeysOf, MainOf
<1>4. ASSUME NEW n \in NamesOf(addresses)
      PROVE  /\ n \in Names /\ KeysOf(n) \in KeysOfNode /\ MainOf(n) \in Keys \ {0}
             /\ IndexOf(n) \in DOMAIN addresses /\ addresses[IndexOf(n)].name = n
  <2>1. PICK i \in DOMAIN addresses : n = addresses[i].name
    BY DEF NamesOf
  <2>2. IndexOf(n) = i /\ KeysOf(n) = addresses[i].keys /\ MainOf(n) = addresses[i].keys["main"]
    BY <1>3, <2>1
  <2>3. addresses[i].keys["main"] \in Keys \ {0}
    BY <1>1, <1>2 DEF KeysOfNode, Kinds
  <2> QED
    BY <1>2, <2>1, <2>2, <2>3
<1> QED
  BY <1>3, <1>4

\* Nothing but the addresses in memory tells the keys of a node.
LEMMA SameKeys ==
    ASSUME addresses' = addresses
    PROVE  /\ \A n : KeysOf(n)' = KeysOf(n) /\ MainOf(n)' = MainOf(n) /\ CertOf(n)' = CertOf(n)
           /\ NamesOf(addresses)' = NamesOf(addresses)
           /\ \A n : IndexOf(n)' = IndexOf(n)
  BY DEF KeysOf, MainOf, CertOf, IndexOf, NamesOf

\* What "not there" is written as.
LEMMA NothingTyped ==
    ASSUME network \in Networks
    PROVE  /\ NoFile \in Seq(Node) /\ NoFile \in Seq(PresetNode) /\ NoKeys \in KeysOfNode
           /\ NoLinks \in [Names -> [RoleKinds -> Keys]]
           /\ NoSeed \in Seed
           /\ NoCert \in [files : Keys, metadata : Keys]
           /\ NoCommand \in Command
<1>1. 0 \in Keys
  BY ZeroIsKey
<1>2. NoLinks \in [Names -> [RoleKinds -> Keys]]
  BY <1>1 DEF NoLinks
<1>3. NoSeed \in Seed
  BY <1>2 DEF NoSeed, Seed, Origin
<1>4. NoFile \in Seq(Node) /\ NoFile \in Seq(PresetNode)
  BY EmptySeq DEF NoFile
<1>5. NoKeys \in KeysOfNode
  BY <1>1 DEF NoKeys, KeysOfNode
<1>6. NoCommand \in Command
  BY DEF NoCommand, Command
<1> QED
  BY <1>1, <1>2, <1>3, <1>4, <1>5, <1>6 DEF NoCert

-----------------------------------------------------------------------------
(* Type correctness.                                                        *)

\* The presets that the command resolves: a custom one, or the old one without
\* its private keys.
LEMMA ResolvedTyped ==
    ASSUME TypeOK, Named
    PROVE  LET p == Resolved(cmd.custom, presetYml)
           IN  p \in Seq(PresetNode) /\ Distinct(p)
<1>1. CASE cmd.custom = NoFile
  <2> DEFINE Bare(i) == [presetYml[i] EXCEPT !.provided = NoKeys]
  <2>1. Resolved(cmd.custom, presetYml) = [i \in DOMAIN presetYml |-> Bare(i)]
    BY <1>1 DEF Resolved
  <2>2. DOMAIN presetYml = 1..Len(presetYml) /\ Len(presetYml) \in Nat
        /\ \A i \in DOMAIN presetYml : presetYml[i] \in PresetNode
    BY PresetSeq DEF TypeOK
  <2>3. NoKeys \in [Kinds -> Nat]
    BY DEF NoKeys
  <2>4. \A i \in DOMAIN presetYml : Bare(i) \in PresetNode /\ Bare(i).name = presetYml[i].name
    BY <2>2, <2>3 DEF PresetNode
  <2>5. Resolved(cmd.custom, presetYml) \in [1..Len(presetYml) -> PresetNode]
    BY <2>1, <2>2, <2>4
  <2>6. Distinct(Resolved(cmd.custom, presetYml))
    <3> DEFINE q == [i \in DOMAIN presetYml |-> Bare(i)]
    <3>1. DOMAIN q = DOMAIN presetYml /\ \A i \in DOMAIN presetYml : q[i].name = presetYml[i].name
      BY <2>4
    <3>2. Distinct(presetYml)
      BY DEF Named
    <3> HIDE DEF q
    <3>3. Distinct(q)
      BY <3>1, <3>2 DEF Distinct
    <3> QED
      BY <2>1, <3>3 DEF q
  <2> QED
    BY <2>2, <2>5, <2>6, SeqOfNodes
<1>2. CASE cmd.custom # NoFile
  <2>1. Resolved(cmd.custom, presetYml) = cmd.custom
    BY <1>2 DEF Resolved
  <2>2. cmd \in Command
    BY DEF TypeOK
  <2>3. cmd.custom \in Customs
    BY <1>2, <2>2 DEF Command
  <2>4. PICK w \in Networks : cmd.custom \in w.customs
    BY <2>3 DEF Customs
  <2>5. cmd.custom \in Seq(PresetNode) /\ Distinct(cmd.custom)
    BY <2>4, CustomsAreNodes
  <2> QED
    BY <2>1, <2>5
<1> QED
  BY <1>1, <1>2

\* A key that is provided, stored or new is a key.
LEMMA AccountTyped ==
    ASSUME TypeOK, Named, NEW p \in Seq(PresetNode),
           \A i \in DOMAIN p : \A k \in Kinds : p[i].provided[k] \in Keys,
           Generates(p, addressesYml) => fresh + Len(p) <= network.maxKeys,
           NEW i \in DOMAIN p, NEW k \in Kinds
    PROVE  LET key == ResolveAccount(p, addressesYml, i, k)
           IN  /\ key \in Keys
               /\ (key # 0) = (k \in Called(p[i]))
               /\ \/ Stored(addressesYml, i, k) \in {0, key}
                  \/ key = IF k \in Called(p[i]) THEN p[i].provided[k] ELSE 0
<1>1. 0 \in Keys /\ 0..network.maxKeys \subseteq Keys /\ network.maxKeys \in Nat
      /\ fresh \in 0..network.maxKeys
  BY ZeroIsKey DEF TypeOK
<1>2. Len(p) \in Nat /\ DOMAIN p = 1..Len(p)
  BY PresetSeq
<1>3. Stored(addressesYml, i, k) \in Keys
  <2>1. i \in DOMAIN addressesYml => addressesYml[i].keys \in KeysOfNode
    BY NodesOfSeq DEF TypeOK
  <2> QED
    BY <1>1, <2>1 DEF Stored, KeysOfNode
<1>4. CASE k \notin Called(p[i])
  BY <1>1, <1>4 DEF ResolveAccount
<1>5. CASE k \in Called(p[i]) /\ p[i].provided[k] # 0
  BY <1>5 DEF ResolveAccount
<1>6. CASE k \in Called(p[i]) /\ p[i].provided[k] = 0 /\ Stored(addressesYml, i, k) # 0
  BY <1>3, <1>6 DEF ResolveAccount
<1>7. CASE k \in Called(p[i]) /\ p[i].provided[k] = 0 /\ Stored(addressesYml, i, k) = 0
  <2>1. ResolveAccount(p, addressesYml, i, k) = fresh + i
    BY <1>7 DEF ResolveAccount
  <2>2. Generates(p, addressesYml)
    BY <1>7 DEF Generates
  <2>3. fresh + i \in 0..network.maxKeys /\ fresh + i # 0
    BY <1>1, <1>2, <2>2
  <2> QED
    BY <1>1, <1>7, <2>1, <2>3
<1> QED
  BY <1>4, <1>5, <1>6, <1>7

\* The private keys that a resolved preset provides are custom ones.
LEMMA ProvidedTyped ==
    ASSUME TypeOK, Named
    PROVE  LET p == Resolved(cmd.custom, presetYml)
           IN  \A i \in DOMAIN p : \A k \in Kinds : p[i].provided[k] \in Keys
<1>1. 0 \in Keys
  BY ZeroIsKey DEF TypeOK
<1>2. CASE cmd.custom = NoFile
  <2>1. \A i \in DOMAIN presetYml : presetYml[i] \in PresetNode
    BY PresetSeq DEF TypeOK
  <2>2. \A i \in DOMAIN presetYml : [presetYml[i] EXCEPT !.provided = NoKeys].provided = NoKeys
    BY <2>1 DEF PresetNode
  <2> QED
    BY <1>1, <1>2, <2>2 DEF Resolved, NoKeys
<1>3. CASE cmd.custom # NoFile
  <2>1. cmd.custom \in Customs
    BY <1>3 DEF TypeOK, Command
  <2>2. \A i \in DOMAIN cmd.custom : \A k \in Kinds : cmd.custom[i].provided[k] \in Keys
    BY <2>1 DEF Keys
  <2> QED
    BY <1>3, <2>2 DEF Resolved
<1> QED
  BY <1>2, <1>3

\* The keys that addresses.yml and the custom preset give to nodes.
LEMMA ResolveTyped ==
    ASSUME TypeOK, Named, Resolve, network' = network
    PROVE  /\ preset' \in Seq(PresetNode) /\ addresses' \in Seq(Node)
           /\ fresh' \in 0..network.maxKeys
           /\ preset' # NoFile /\ Distinct(preset') /\ DOMAIN addresses' = DOMAIN preset'
           /\ \A i \in DOMAIN addresses' :
                /\ addresses'[i].name = preset'[i].name
                /\ \A k \in Kinds : (addresses'[i].keys[k] # 0) = (k \in Called(preset'[i]))
                /\ \A k \in Kinds : Kept(i, k)'
<1> DEFINE p == Resolved(cmd.custom, presetYml)
           keys(i) == [k \in Kinds |-> ResolveAccount(p, addressesYml, i, k)]
<1>1. /\ preset' = p /\ p # NoFile
      /\ addresses' = [i \in DOMAIN p |-> [name |-> p[i].name, keys |-> keys(i)]]
      /\ fresh' = IF Generates(p, addressesYml) THEN fresh + Len(p) ELSE fresh
      /\ fresh' <= network.maxKeys
      /\ addressesYml' = addressesYml
  BY DEF Resolve, disk
<1>2. p \in Seq(PresetNode) /\ Distinct(p)
  BY ResolvedTyped
<1>3. \A i \in DOMAIN p : \A k \in Kinds : p[i].provided[k] \in Keys
  BY ProvidedTyped
<1>4. Len(p) \in Nat /\ DOMAIN p = 1..Len(p) /\ \A i \in DOMAIN p : p[i].name \in Names
  BY <1>2, PresetSeq
<1> HIDE DEF p
<1>5. ASSUME NEW i \in DOMAIN p, NEW k \in Kinds
      PROVE  /\ keys(i)[k] \in Keys
             /\ (keys(i)[k] # 0) = (k \in Called(p[i]))
             /\ \/ Stored(addressesYml, i, k) \in {0, keys(i)[k]}
                \/ keys(i)[k] = IF k \in Called(p[i]) THEN p[i].provided[k] ELSE 0
  <2>1. keys(i)[k] = ResolveAccount(p, addressesYml, i, k)
    OBVIOUS
  <2>2. Generates(p, addressesYml) => fresh + Len(p) <= network.maxKeys
    BY <1>1
  <2> QED
    BY <1>2, <1>3, <2>1, <2>2, AccountTyped
<1>6. \A i \in DOMAIN p : keys(i) \in KeysOfNode
  BY <1>5 DEF KeysOfNode
<1> HIDE DEF keys
<1>7. addresses' \in [1..Len(p) -> Node]
  BY <1>1, <1>4, <1>6 DEF Node
<1>8. addresses' \in Seq(Node)
  BY <1>4, <1>7, SeqOfNodes
<1>9. fresh' \in 0..network.maxKeys
  BY <1>1, <1>4, ZeroIsKey DEF TypeOK
<1>10. DOMAIN addresses' = DOMAIN p
       /\ \A i \in DOMAIN p : addresses'[i].name = p[i].name /\ addresses'[i].keys = keys(i)
  BY <1>1
<1>11. ASSUME NEW i \in DOMAIN p, NEW k \in Kinds
       PROVE  Kept(i, k)'
  <2>1. Stored(addressesYml, i, k)' = Stored(addressesYml, i, k)
    BY <1>1 DEF Stored
  <2>2. Called(preset[i])' = Called(p[i])
    BY <1>1 DEF Called
  <2> QED
    BY <1>1, <1>5, <1>10, <2>1, <2>2 DEF Kept
<1> QED
  BY <1>1, <1>2, <1>5, <1>8, <1>9, <1>10, <1>11

\* What is deleted leaves files of the right type.
LEMMA DeleteTyped ==
    ASSUME TypeOK, NEW gone, Delete(gone)
    PROVE  /\ presetYml' \in Seq(PresetNode) /\ addressesYml' \in Seq(Node)
           /\ compose' \in Seq(PresetNode)
           /\ cert' \in [Names -> [files : Keys, metadata : Keys]]
           /\ server' \in [Names -> KeysOfNode] /\ gateway' \in Keys
           /\ bins' \in [Names -> [RoleKinds -> Keys]]
           /\ nemesis' \in Seed
           /\ seed' \in [Names -> Seed] /\ data' \in [Names -> Seed]
<1>1. network \in Networks
  BY DEF TypeOK
<1> QED
  BY <1>1, NothingTyped, ZeroIsKey DEF TypeOK, Delete

LEMMA ExitTyped ==
    ASSUME network \in Networks, Exit
    PROVE  /\ pc' \in Labels /\ cmd' \in Command
           /\ preset' \in Seq(PresetNode) /\ addresses' \in Seq(Node) /\ isUpgrade' \in BOOLEAN
           /\ stage' \in [Names -> Stages]
  BY NothingTyped DEF Exit, Labels, Stages

LEMMA NodeStepTyped ==
    ASSUME TypeOK, Named, Staged, network' = network, NEW n \in Names, NodeStep(n)
    PROVE  TypeOK'
<1>1. stage[n] # "done" => n \in NamesOf(addresses) /\ pc \in Configuring
  BY DEF Staged, Configuring
<1>2. stage[n] # "done" => MainOf(n) \in Keys /\ KeysOf(n) \in KeysOfNode
  BY <1>1, KeysOfName
<1>3. 0 \in Keys
  BY ZeroIsKey DEF TypeOK
<1> USE <1>2, <1>3 DEF TypeOK, disk, run, Advance
<1>4. CASE CheckCert(n)
  BY <1>4 DEF CheckCert, Stages
<1>5. CASE DeleteCert(n)
  <2>1. cert[n] \in [files : Keys, metadata : Keys]
    OBVIOUS
  <2>2. /\ [cert[n] EXCEPT !.files = 0] \in [files : Keys, metadata : Keys]
        /\ [cert[n] EXCEPT !.metadata = 0] \in [files : Keys, metadata : Keys]
    BY <2>1
  <2>3. PICK c \in [files : Keys, metadata : Keys], next \in Stages : CertStep(n, c, next)
    BY <1>5, <2>1, <2>2 DEF DeleteCert, NoCert, Stages
  <2> QED
    BY <2>3 DEF CertStep
<1>6. CASE CreateCert(n)
  BY <1>6 DEF CreateCert, CertStep, Stages
<1>7. CASE WriteMetadata(n)
  BY <1>7 DEF WriteMetadata, CertStep, Stages
<1>8. CASE GenerateNode(n)
  BY <1>8 DEF GenerateNode, Stages
<1>9. CASE StoreTransactions(n)
  <2>1. /\ pc \in RoleKinds /\ stage[n] # "done" /\ pc' = pc
        /\ bins' = [bins EXCEPT ![n][pc] = KeysOf(n)[pc]] /\ nemesis' = nemesis
        /\ stage' = [stage EXCEPT ![n] = "done"]
        /\ UNCHANGED <<presetYml, addressesYml, cert, server, gateway, seed, compose, data, run,
                       fresh>>
    BY <1>9 DEF StoreTransactions, NemesisStep
  <2>2. KeysOf(n)[pc] \in Keys
    BY <2>1 DEF KeysOfNode, RoleKinds, Kinds
  <2>3. bins' \in [Names -> [RoleKinds -> Keys]]
    BY <2>1, <2>2
  <2> QED
    BY <2>1, <2>3 DEF Stages
<1>10. CASE CopySeed(n)
  BY <1>10 DEF CopySeed, Stages
<1> QED
  BY <1>4, <1>5, <1>6, <1>7, <1>8, <1>9, <1>10 DEF NodeStep

LEMMA TodoTyped == Todo \in [Names -> Stages] /\ \A k : TodoLinks(k) \in [Names -> Stages]
  BY DEF Todo, TodoLinks, Stages

LEMMA ConfigStepTyped ==
    ASSUME TypeOK, Named, network' = network, ConfigStep
    PROVE  TypeOK'
<1>1. network \in Networks
  BY DEF TypeOK
<1>2. CASE Reset
  BY <1>2, DeleteTyped DEF Reset, run, TypeOK, Labels
<1>3. CASE ResetCut
  BY <1>3, <1>1, DeleteTyped, ExitTyped DEF ResetCut, TypeOK
<1>4. CASE Reuse
  BY <1>1, <1>4, ExitTyped DEF Reuse, disk, TypeOK, Labels
<1>5. CASE Resolve
  <2>1. /\ preset' \in Seq(PresetNode) /\ addresses' \in Seq(Node)
        /\ fresh' \in 0..network.maxKeys
    BY <1>5, ResolveTyped
  <2> QED
    BY <1>5, <2>1 DEF Resolve, disk, TypeOK, Labels
<1>6. CASE CleanUp
  BY <1>1, <1>6, ZeroIsKey, NothingTyped, TodoTyped DEF CleanUp, Clear, run, TypeOK, Labels
<1>7. CASE CleanUpCut
  BY <1>1, <1>7, NothingTyped, ExitTyped DEF CleanUpCut, Clear, TypeOK
<1>8. CASE \/ Barrier("certs", "nodes", Todo) \/ Barrier("nodes", "gateway", stage)
           \/ Barrier("vrf", "remote", TodoLinks("remote"))
           \/ Barrier("remote", "nemgen", Todo) \/ Barrier("seeds", "addresses", stage)
  BY <1>8, TodoTyped DEF Barrier, disk, run, TypeOK, Labels
<1>9. CASE GenerateGateway
  <2>1. pc \in Configuring /\ 1 \in DOMAIN addresses
    BY <1>9, NodesOfSeq, PresetSeq DEF GenerateGateway, Configuring, Changing, Named, TypeOK
  <2>2. addresses[1].name \in Names
    BY <2>1, NodesOfSeq DEF TypeOK
  <2> QED
    BY <1>9, <2>2, TodoTyped DEF GenerateGateway, run, TypeOK, Labels
<1>10. CASE DropNemesis \/ CopyPresetNemesis \/ Nemgen
  <2>1. Created(bins) \in Seed
    BY DEF Created, Origin, Seed, TypeOK
  <2>2. cmd.seed \in Nat => CopyOf(cmd.seed) \in Seed
    BY <1>1, NothingTyped DEF CopyOf, Origin, Seed
  <2>3. cmd.seed \in Nat
    <3>1. cmd \in Command
      BY DEF TypeOK
    <3>2. cmd.seed = 0 \/ \E w \in Networks : cmd.seed \in w.seeds
      BY <3>1 DEF Command
    <3> QED
      BY <3>2, TargetAssumption
  <2>4. PICK from, to \in Labels, s \in Seed, st \in [Names -> Stages] :
          NemesisStep(from, to, s, bins) /\ stage' = st
    BY <1>1, <1>10, <2>1, <2>2, <2>3, NothingTyped, TodoTyped
       DEF DropNemesis, CopyPresetNemesis, Nemgen, Labels, TypeOK
  <2> QED
    BY <2>4 DEF NemesisStep, run, TypeOK
<1>11. CASE WriteAddresses
  BY <1>11 DEF WriteAddresses, run, TypeOK, Labels
<1>12. CASE WritePreset
  BY <1>1, <1>12, ExitTyped DEF WritePreset, run, TypeOK, Labels
<1> QED
  BY <1>2, <1>3, <1>4, <1>5, <1>6, <1>7, <1>8, <1>9, <1>10, <1>11, <1>12 DEF ConfigStep

LEMMA TypeStep ==
    ASSUME TypeOK, Named, Staged, Next
    PROVE  TypeOK'
<1>1. network \in Networks /\ network' = network
  BY DEF TypeOK, Next
<1>2. ASSUME NEW c \in Command, StartCommand(c) PROVE TypeOK'
  BY <1>1, <1>2, NothingTyped DEF StartCommand, FirstLabel, disk, TypeOK, Labels, Command
<1>3. CASE Clean
  BY <1>1, <1>3, DeleteTyped DEF Clean, run, TypeOK
<1>4. CASE ResetData
  BY <1>1, <1>4, NothingTyped DEF ResetData, run, TypeOK
<1>5. CASE DropCompose
  BY <1>1, <1>5, NothingTyped DEF DropCompose, run, TypeOK, Labels
<1>6. CASE WriteCompose
  BY <1>1, <1>6, ExitTyped DEF WriteCompose, run, TypeOK, Labels
<1>7. CASE Up
  BY <1>1, <1>7, ExitTyped DEF Up, TypeOK
<1>8. CASE Abort
  BY <1>1, <1>8, ExitTyped DEF Abort, disk, TypeOK
<1>9. CASE ConfigStep
  BY <1>1, <1>9, ConfigStepTyped
<1>10. ASSUME NEW n \in Names, NodeStep(n) PROVE TypeOK'
  BY <1>1, <1>10, NodeStepTyped
<1> QED
  BY <1>2, <1>3, <1>4, <1>5, <1>6, <1>7, <1>8, <1>9, <1>10 DEF Next

-----------------------------------------------------------------------------
(* What the command has in memory.                                          *)

LEMMA NoNodes == Distinct(NoFile) /\ DOMAIN NoFile = {} /\ NamesOf(NoFile) = {}
<1>1. DOMAIN NoFile = {}
  BY DEF NoFile
<1> QED
  BY <1>1 DEF Distinct, NamesOf

\* A step of config that leaves what it has in memory, and addresses.yml or the
\* copy of that in it.
LEMMA SameNamed ==
    ASSUME Named, pc \in Configuring, pc' \in Configuring,
           UNCHANGED <<presetYml, preset, addresses>>, addressesYml' \in {addressesYml, addresses}
    PROVE  Named'
<1>1. ASSUME NEW i \in DOMAIN addresses, NEW k \in Kinds
      PROVE  Kept(i, k)'
  <2>1. Kept(i, k)
    BY DEF Named
  <2>2. CASE addressesYml' = addressesYml
    BY <2>1, <2>2 DEF Kept, Stored, Called
  <2>3. CASE addressesYml' = addresses
    BY <2>3 DEF Kept, Stored
  <2> QED
    BY <2>2, <2>3
<1>2. pc' \notin {"idle", "reset", "check"}
  BY DEF Configuring, Changing
<1> QED
  BY <1>1, <1>2 DEF Named, Distinct, Called

LEMMA NodeStepMemory ==
    ASSUME TypeOK, Memory, NEW n \in Names, NodeStep(n)
    PROVE  Memory' /\ pc' = pc /\ pc \in Changing /\ n \in NamesOf(addresses)
<1>1. /\ UNCHANGED <<presetYml, addressesYml, preset, addresses, pc>>
      /\ pc \in Changing \ {"addresses", "preset"} /\ stage[n] # "done"
      /\ \E next \in Stages : stage' = [stage EXCEPT ![n] = next]
  BY DEF NodeStep, CheckCert, DeleteCert, CreateCert, WriteMetadata, GenerateNode,
     StoreTransactions, CopySeed, CertStep, NemesisStep, Advance, disk, run, Changing, Stages,
     RoleKinds
<1>2. n \in NamesOf(addresses)
  BY <1>1 DEF Memory, Staged
<1>3. Staged'
  BY <1>1, <1>2 DEF Memory, Staged, NamesOf, TypeOK
<1>4. Named'
  BY <1>1, SameNamed DEF Memory, Configuring
<1> QED
  BY <1>1, <1>2, <1>3, <1>4 DEF Memory

\* The process is over, or the command is one that changes no configuration.
LEMMA IdleMemory ==
    ASSUME TypeOK, Memory, pc' \notin Configuring,
           presetYml' \in {presetYml, preset, NoFile},
           preset' \in {presetYml, preset, NoFile},
           addresses' = NoFile \/ (pc' \notin {"idle", "reset", "check"} /\ addresses' = addresses),
           \A n \in Names : stage'[n] = "done"
    PROVE  Memory'
<1>1. Named'
  BY NoNodes DEF Memory, Named, Distinct, Configuring
<1>2. Staged'
  BY DEF Staged
<1> QED
  BY <1>1, <1>2 DEF Memory

LEMMA ExitMemory ==
    ASSUME TypeOK, Memory, Exit, presetYml' \in {presetYml, preset, NoFile}
    PROVE  Memory'
<1>1. /\ pc' = "idle" /\ preset' = NoFile /\ addresses' = NoFile
      /\ \A n \in Names : stage'[n] = "done"
  BY DEF Exit
<1> QED
  BY <1>1, IdleMemory DEF Configuring, Changing

LEMMA TodoOfNodes ==
    ASSUME NEW n \in Names
    PROVE  /\ Todo[n] # "done" => n \in NamesOf(addresses)
           /\ \A k : TodoLinks(k)[n] # "done" => n \in NamesOf(addresses)
  BY DEF Todo, TodoLinks, Linked

LEMMA BarrierMemory ==
    ASSUME TypeOK, Memory, NEW from \in Changing, NEW to \in Changing,
           NEW st \in {stage, Todo, TodoLinks("remote")},
           Barrier(from, to, st), to \in {"addresses", "preset"} => st = stage
    PROVE  Memory'
<1>1. /\ UNCHANGED <<presetYml, addressesYml, preset, addresses>>
      /\ pc = from /\ pc' = to /\ stage' = st /\ AllDone
  BY DEF Barrier, disk, run
<1>2. Named'
  BY <1>1, SameNamed DEF Memory, Configuring
<1>3. Staged'
  BY <1>1, TodoOfNodes DEF Memory, Staged, AllDone, NamesOf
<1> QED
  BY <1>2, <1>3 DEF Memory

LEMMA ConfigStepMemory ==
    ASSUME TypeOK, Memory, network' = network, ConfigStep
    PROVE  Memory'
<1> USE DEF Configuring, Changing
<1>1. \A n \in Names : pc \notin Changing \ {"addresses", "preset"} => stage[n] = "done"
  BY DEF Memory, Staged
<1>2. CASE Reset
  BY <1>1, <1>2, IdleMemory DEF Reset, Delete, run, Memory, Named
<1>3. CASE ResetCut \/ CleanUpCut
  BY <1>3, ExitMemory DEF ResetCut, CleanUpCut, Delete
<1>4. CASE Reuse
  <2>1. CASE cmd.kind = "start"
    BY <1>1, <1>4, <2>1, IdleMemory DEF Reuse, disk, Memory, Named
  <2>2. CASE cmd.kind # "start"
    BY <1>4, <2>2, ExitMemory DEF Reuse, disk
  <2> QED
    BY <2>1, <2>2
<1>5. CASE Resolve
  <2>1. pc = "check" /\ pc' = "clean" /\ UNCHANGED <<presetYml, addressesYml, stage>>
    BY <1>5 DEF Resolve, disk
  <2>2. Named'
    BY <1>5, <2>1, ResolveTyped DEF Memory, Named, Distinct
  <2> QED
    BY <1>1, <2>1, <2>2 DEF Memory, Staged
<1>6. CASE CleanUp
  <2>1. /\ pc = "clean" /\ pc' = "certs" /\ stage' = Todo
        /\ UNCHANGED <<presetYml, addressesYml, preset, addresses>>
    BY <1>6 DEF CleanUp, run
  <2>2. Named'
    BY <2>1, SameNamed DEF Memory
  <2> QED
    BY <2>1, <2>2, TodoOfNodes DEF Memory, Staged, NamesOf
<1>7. CASE \/ Barrier("certs", "nodes", Todo) \/ Barrier("nodes", "gateway", stage)
           \/ Barrier("vrf", "remote", TodoLinks("remote"))
           \/ Barrier("remote", "nemgen", Todo) \/ Barrier("seeds", "addresses", stage)
  BY <1>7, BarrierMemory
<1>8. CASE GenerateGateway
  <2>1. /\ pc = "gateway" /\ pc' \in {"seeds", "nemesis"} /\ stage' = Todo
        /\ UNCHANGED <<presetYml, addressesYml, preset, addresses>>
    BY <1>8 DEF GenerateGateway, run
  <2>2. Named'
    BY <2>1, SameNamed DEF Memory
  <2> QED
    BY <2>1, <2>2, TodoOfNodes DEF Memory, Staged, NamesOf
<1>9. CASE DropNemesis \/ CopyPresetNemesis \/ Nemgen
  <2>1. /\ pc \in {"nemesis", "copy", "nemgen"} /\ pc' \in {"vrf", "copy", "seeds"}
        /\ UNCHANGED <<presetYml, addressesYml, preset, addresses>>
        /\ stage' = stage \/ stage' = TodoLinks("vrf")
    BY <1>9 DEF DropNemesis, CopyPresetNemesis, Nemgen, NemesisStep, run
  <2>2. Named'
    BY <2>1, SameNamed DEF Memory
  <2> QED
    BY <2>1, <2>2, TodoOfNodes DEF Memory, Staged, NamesOf
<1>10. CASE WriteAddresses
  <2>1. /\ pc = "addresses" /\ pc' = "preset" /\ addressesYml' = addresses
        /\ UNCHANGED <<presetYml, preset, addresses, stage>>
    BY <1>10 DEF WriteAddresses, run
  <2>2. Named'
    BY <2>1, SameNamed DEF Memory
  <2> QED
    BY <1>1, <2>1, <2>2 DEF Memory, Staged, NamesOf
<1>11. CASE WritePreset
  <2>1. CASE cmd.kind = "start"
    BY <1>1, <1>11, <2>1, IdleMemory DEF WritePreset, run
  <2>2. CASE cmd.kind # "start"
    BY <1>11, <2>2, ExitMemory DEF WritePreset
  <2> QED
    BY <2>1, <2>2
<1> QED
  BY <1>2, <1>3, <1>4, <1>5, <1>6, <1>7, <1>8, <1>9, <1>10, <1>11 DEF ConfigStep

LEMMA MemoryStep ==
    ASSUME TypeOK, Memory, Next
    PROVE  Memory'
<1> USE DEF Configuring, Changing
<1>1. \A n \in Names : pc \notin Changing \ {"addresses", "preset"} => stage[n] = "done"
  BY DEF Memory, Staged
<1>2. ASSUME NEW c \in Command, StartCommand(c) PROVE Memory'
  BY <1>1, <1>2, IdleMemory DEF StartCommand, FirstLabel, disk, Memory, Named
<1>3. CASE Clean
  BY <1>1, <1>3, IdleMemory DEF Clean, Delete, run, Memory, Named
<1>4. CASE ResetData
  BY <1>1, <1>4, IdleMemory DEF ResetData, run, Memory, Named
<1>5. CASE DropCompose
  BY <1>1, <1>5, IdleMemory DEF DropCompose, run
<1>6. CASE WriteCompose
  <2>1. CASE cmd.kind = "start"
    BY <1>1, <1>6, <2>1, IdleMemory DEF WriteCompose, run
  <2>2. CASE cmd.kind # "start"
    BY <1>6, <2>2, ExitMemory DEF WriteCompose
  <2> QED
    BY <2>1, <2>2
<1>7. CASE Up
  BY <1>7, ExitMemory DEF Up
<1>8. CASE Abort
  BY <1>8, ExitMemory DEF Abort, disk
<1>9. CASE ConfigStep
  BY <1>9, ConfigStepMemory DEF Next
<1>10. ASSUME NEW n \in Names, NodeStep(n) PROVE Memory'
  BY <1>10, NodeStepMemory
<1> QED
  BY <1>2, <1>3, <1>4, <1>5, <1>6, <1>7, <1>8, <1>9, <1>10 DEF Next

-----------------------------------------------------------------------------
(* What the command has made of the folder.                                 *)

LEMMA CertificateFields ==
    ASSUME TypeOK, NEW n \in Names
    PROVE  /\ cert[n] \in [files : Keys, metadata : Keys]
           /\ cert[n] = [files |-> cert[n].files, metadata |-> cert[n].metadata]
  BY DEF TypeOK

\* The steps that make certificates.
LEMMA CertificateStepFolder ==
    ASSUME TypeOK, Memory, Folder, NEW n \in Names,
           CheckCert(n) \/ DeleteCert(n) \/ CreateCert(n) \/ WriteMetadata(n)
    PROVE  Folder'
<1> DEFINE k == MainOf(n)
<1>1. pc = "certs" /\ pc' = "certs" /\ n \in NamesOf(addresses) /\ k # 0
  <2>1. pc = "certs" /\ pc' = "certs" /\ stage[n] # "done"
    BY DEF CheckCert, DeleteCert, CreateCert, WriteMetadata, CertStep
  <2>2. n \in NamesOf(addresses)
    BY <2>1 DEF Memory, Staged
  <2> QED
    BY <2>1, <2>2, KeysOfName DEF Memory, Configuring, Changing
<1>2. /\ UNCHANGED <<addresses, server, seed, nemesis, gateway, addressesYml>>
      /\ \A m \in Names \ {n} : cert'[m] = cert[m] /\ stage'[m] = stage[m]
  BY DEF CheckCert, DeleteCert, CreateCert, WriteMetadata, CertStep, Advance, disk, run, TypeOK
<1>3. \A m \in Names : MainOf(m)' = MainOf(m) /\ CertOf(m)' = CertOf(m)
  BY <1>2, SameKeys
<1>4. CertMade(n)
  BY <1>1 DEF Folder, Built
<1>5. cert[n].files # 0 /\ cert[n].metadata # 0 => cert[n].files = cert[n].metadata
  BY DEF Folder, Paired
<1>6. /\ cert'[n].files # 0 /\ cert'[n].metadata # 0 => cert'[n].files = cert'[n].metadata
      /\ stage'[n] = "create" => cert'[n] = NoCert
      /\ stage'[n] = "metadata" => cert'[n] = [files |-> k, metadata |-> 0]
      /\ stage'[n] = "done" => cert'[n] = [files |-> k, metadata |-> k]
  <2>1. CASE CheckCert(n)
    <3>1. cert' = cert /\ stage'[n] \in {"done", "delete"}
      BY <2>1 DEF CheckCert, Advance, disk, TypeOK
    <3>2. stage'[n] = "done" => cert[n].metadata = k /\ cert[n].files # 0
      BY <2>1 DEF CheckCert, Advance, TypeOK
    <3> QED
      BY <1>1, <1>5, <3>1, <3>2, CertificateFields
  <2>2. CASE DeleteCert(n)
    <3>1. CASE cert[n] = NoCert /\ CertStep(n, NoCert, "create")
      BY <3>1 DEF CertStep, Advance, TypeOK, NoCert
    <3>2. PICK c \in {[cert[n] EXCEPT !.files = 0], [cert[n] EXCEPT !.metadata = 0]} :
             \/ cert[n] = NoCert /\ CertStep(n, NoCert, "create")
             \/ CertStep(n, c, "delete")
      BY <2>2 DEF DeleteCert
    <3>3. c.files = 0 \/ c.metadata = 0
      BY <3>2, CertificateFields
    <3>4. CASE CertStep(n, c, "delete")
      BY <3>3, <3>4 DEF CertStep, Advance, TypeOK
    <3> QED
      BY <3>1, <3>2, <3>4
  <2>3. CASE CreateCert(n)
    <3>1. cert[n] = NoCert
      BY <1>4, <2>3 DEF CertMade, CreateCert
    <3>2. [cert[n] EXCEPT !.files = k] = [files |-> k, metadata |-> 0]
      BY <3>1 DEF NoCert
    <3>3. stage'[n] = "metadata" /\ cert'[n] = [files |-> k, metadata |-> 0]
      BY <2>3, <3>2 DEF CreateCert, CertStep, Advance, TypeOK
    <3> QED
      BY <3>3
  <2>4. CASE WriteMetadata(n)
    <3>1. cert[n] = [files |-> k, metadata |-> 0]
      BY <1>4, <2>4 DEF CertMade, WriteMetadata
    <3>2. [cert[n] EXCEPT !.metadata = k] = [files |-> k, metadata |-> k]
      BY <3>1
    <3>3. stage'[n] = "done" /\ cert'[n] = [files |-> k, metadata |-> k]
      BY <2>4, <3>2 DEF WriteMetadata, CertStep, Advance, TypeOK
    <3> QED
      BY <3>3
  <2> QED
    BY <2>1, <2>2, <2>3, <2>4
<1>7. Paired'
  BY <1>2, <1>6 DEF Folder, Paired
<1>8. ASSUME NEW m \in NamesOf(addresses) PROVE Built(m)'
  <2>1. m \in Names
    BY NodesOfSeq DEF TypeOK
  <2>2. CertMade(m)'
    BY <1>1, <1>2, <1>3, <1>6, <2>1 DEF Folder, Built, CertMade, CertOf
  <2> QED
    BY <1>1, <2>2 DEF Built
<1> QED
  BY <1>1, <1>2, <1>7, <1>8 DEF Folder, Finished, NamesOf

LEMMA NodeStepFolder ==
    ASSUME TypeOK, Memory, Folder, NEW n \in Names, NodeStep(n)
    PROVE  Folder'
<1>1. pc' = pc /\ pc \in Changing /\ n \in NamesOf(addresses)
  BY NodeStepMemory
<1>2. NamesOf(addresses) \subseteq Names
  BY NodesOfSeq DEF TypeOK
<1>3. CASE CheckCert(n) \/ DeleteCert(n) \/ CreateCert(n) \/ WriteMetadata(n)
  BY <1>3, CertificateStepFolder
<1>4. CASE GenerateNode(n) \/ StoreTransactions(n) \/ CopySeed(n)
  <2>1. /\ UNCHANGED <<addresses, cert, nemesis, gateway, addressesYml>>
        /\ \A m \in Names \ {n} :
             server'[m] = server[m] /\ seed'[m] = seed[m] /\ stage'[m] = stage[m]
    BY <1>4 DEF GenerateNode, StoreTransactions, CopySeed, NemesisStep, Advance, disk, run, TypeOK
  <2>2. /\ pc = "nodes" => server'[n] = KeysOf(n)
        /\ pc = "seeds" => nemesis # NoSeed /\ seed'[n] = nemesis
        /\ pc # "nodes" => server'[n] = server[n]
        /\ pc # "seeds" => seed'[n] = seed[n]
        /\ pc \in {"nodes", "vrf", "remote", "seeds"}
    BY <1>4 DEF GenerateNode, StoreTransactions, CopySeed, NemesisStep, TypeOK, RoleKinds
  <2>3. /\ \A m \in Names : KeysOf(m)' = KeysOf(m) /\ CertOf(m)' = CertOf(m)
        /\ NamesOf(addresses)' = NamesOf(addresses)
    BY <2>1, SameKeys
  <2>4. Paired' /\ Finished'
    BY <1>1, <2>1 DEF Folder, Paired, Finished
  <2>5. ASSUME NEW m \in NamesOf(addresses) PROVE Built(m)'
    <3>1. m \in Names /\ Built(m)
      BY <1>2 DEF Folder
    <3>2. CASE m # n
      BY <1>1, <2>1, <2>2, <2>3, <3>1, <3>2 DEF Built
    <3>3. CASE m = n
      BY <1>1, <2>1, <2>2, <2>3, <3>1, <3>3 DEF Built, Changing
    <3> QED
      BY <3>2, <3>3
  <2> QED
    BY <2>3, <2>4, <2>5 DEF Folder
<1> QED
  BY <1>3, <1>4 DEF NodeStep

\* Outside the changes only the certificates matter, and those that are
\* deleted are gone.
LEMMA QuietFolder ==
    ASSUME Folder, pc' \notin Changing, cert' \in {cert, [n \in Names |-> NoCert]}
    PROVE  Folder'
<1>1. Paired'
  BY DEF Folder, Paired, NoCert
<1>2. (\A n \in NamesOf(addresses) : Built(n))' /\ Finished'
  BY DEF Built, Finished, Changing
<1> QED
  BY <1>1, <1>2 DEF Folder

\* A step of config within its changes that leaves keys and certificates.
LEMMA ChangeFolder ==
    ASSUME TypeOK, Memory, Folder, pc \in Changing \cup {"clean"},
           UNCHANGED <<addresses, cert>>,
           \A n \in NamesOf(addresses) :
               KeysOf(n)' = KeysOf(n) /\ CertOf(n)' = CertOf(n) => Built(n)',
           Finished'
    PROVE  Folder'
<1>1. /\ \A n \in NamesOf(addresses) : KeysOf(n)' = KeysOf(n) /\ CertOf(n)' = CertOf(n)
      /\ NamesOf(addresses)' = NamesOf(addresses)
  BY SameKeys
<1>2. Paired'
  BY DEF Folder, Paired
<1> QED
  BY <1>1, <1>2 DEF Folder

LEMMA ConfigStepFolder ==
    ASSUME TypeOK, Memory, Folder, ConfigStep
    PROVE  Folder'
<1> USE DEF Changing
<1>1. NamesOf(addresses) \subseteq Names
  BY NodesOfSeq DEF TypeOK
<1>2. CASE Reset \/ ResetCut \/ CleanUpCut
  BY <1>2, QuietFolder DEF Reset, ResetCut, CleanUpCut, Delete, Exit
<1>3. CASE Reuse \/ Resolve \/ WritePreset
  BY <1>3, QuietFolder DEF Reuse, Resolve, WritePreset, Exit, disk
<1>4. CASE CleanUp
  <2>1. /\ pc = "clean" /\ pc' = "certs" /\ UNCHANGED <<addresses, cert>>
        /\ \A n \in NamesOf(addresses) : stage'[n] = "todo"
    BY <1>1, <1>4 DEF CleanUp, run, Todo
  <2> QED
    BY <2>1, ChangeFolder DEF Built, CertMade, Finished
<1>5. CASE Barrier("certs", "nodes", Todo)
  <2>1. /\ pc = "certs" /\ pc' = "nodes" /\ UNCHANGED <<addresses, cert>>
        /\ \A n \in NamesOf(addresses) : stage[n] = "done" /\ stage'[n] = "todo"
    BY <1>1, <1>5 DEF Barrier, disk, run, Todo, AllDone
  <2> QED
    BY <2>1, ChangeFolder DEF Folder, Built, CertMade, Finished
<1>6. CASE Barrier("nodes", "gateway", stage)
  <2>1. /\ pc = "nodes" /\ pc' = "gateway" /\ UNCHANGED <<addresses, cert, server>>
        /\ \A n \in NamesOf(addresses) : stage[n] = "done"
    BY <1>1, <1>6 DEF Barrier, disk, run, AllDone
  <2> QED
    BY <2>1, ChangeFolder DEF Folder, Built, Finished
<1>7. CASE GenerateGateway
  <2>1. /\ pc = "gateway" /\ pc' \in {"seeds", "nemesis"} /\ UNCHANGED <<addresses, cert, server>>
        /\ \A n \in NamesOf(addresses) : stage'[n] = "todo"
        /\ gateway' = cert[addresses[1].name].files
    BY <1>1, <1>7 DEF GenerateGateway, run, Todo
  <2>2. 1 \in DOMAIN addresses
    BY <2>1, NodesOfSeq, PresetSeq DEF Memory, Named, Configuring, TypeOK
  <2>3. MainOf(addresses[1].name) = addresses[1].keys["main"]
    BY <2>1, <2>2, KeysOfName DEF Memory, Configuring
  <2>4. cert[addresses[1].name] = CertOf(addresses[1].name)
    BY <2>1, <2>2 DEF Folder, Built, NamesOf
  <2>5. gateway' = addresses[1].keys["main"]
    BY <2>1, <2>3, <2>4 DEF CertOf
  <2> QED
    BY <2>1, <2>5, ChangeFolder DEF Folder, Built, Finished
<1>8. CASE DropNemesis \/ CopyPresetNemesis \/ Nemgen
  <2>1. /\ pc \in {"nemesis", "copy", "nemgen"} /\ pc' \in {"vrf", "copy", "seeds"}
        /\ UNCHANGED <<addresses, cert, server, gateway>>
        /\ pc' # "vrf" => stage' = stage
    BY <1>8 DEF DropNemesis, CopyPresetNemesis, Nemgen, NemesisStep, run
  <2> QED
    BY <2>1, ChangeFolder DEF Folder, Built, Finished
<1>9. CASE Barrier("vrf", "remote", TodoLinks("remote"))
  <2>1. /\ pc = "vrf" /\ pc' = "remote" /\ UNCHANGED <<addresses, cert, server, gateway>>
    BY <1>9 DEF Barrier, disk, run
  <2> QED
    BY <2>1, ChangeFolder DEF Folder, Built, Finished
<1>10. CASE Barrier("remote", "nemgen", Todo)
  <2>1. /\ pc = "remote" /\ pc' = "nemgen" /\ UNCHANGED <<addresses, cert, server, gateway>>
        /\ \A n \in NamesOf(addresses) : stage'[n] = "todo"
    BY <1>1, <1>10 DEF Barrier, disk, run, Todo
  <2> QED
    BY <2>1, ChangeFolder DEF Folder, Built, Finished
<1>11. CASE Barrier("seeds", "addresses", stage)
  <2>1. /\ pc = "seeds" /\ pc' = "addresses"
        /\ UNCHANGED <<addresses, cert, server, gateway, seed, nemesis>>
        /\ \A n \in NamesOf(addresses) : stage[n] = "done"
    BY <1>1, <1>11 DEF Barrier, disk, run, AllDone
  <2> QED
    BY <2>1, ChangeFolder DEF Folder, Built, Finished
<1>12. CASE WriteAddresses
  <2>1. /\ pc = "addresses" /\ pc' = "preset" /\ addressesYml' = addresses
        /\ UNCHANGED <<addresses, cert, server, gateway, seed, nemesis>>
    BY <1>12 DEF WriteAddresses, run
  <2> QED
    BY <2>1, ChangeFolder DEF Folder, Built, Finished
<1> QED
  BY <1>2, <1>3, <1>4, <1>5, <1>6, <1>7, <1>8, <1>9, <1>10, <1>11, <1>12 DEF ConfigStep

LEMMA FolderStep ==
    ASSUME TypeOK, Memory, Folder, Next
    PROVE  Folder'
<1> USE DEF Changing
<1>1. ASSUME NEW c \in Command, StartCommand(c) PROVE Folder'
  BY <1>1, QuietFolder DEF StartCommand, FirstLabel, disk
<1>2. CASE Clean \/ ResetData
  BY <1>2, QuietFolder DEF Clean, ResetData, Delete, run
<1>3. CASE DropCompose \/ WriteCompose \/ Up \/ Abort
  BY <1>3, QuietFolder DEF DropCompose, WriteCompose, Up, Abort, Exit, disk
<1>4. CASE ConfigStep
  BY <1>4, ConfigStepFolder
<1>5. ASSUME NEW n \in Names, NodeStep(n) PROVE Folder'
  BY <1>5, NodeStepFolder
<1> QED
  BY <1>1, <1>2, <1>3, <1>4, <1>5 DEF Next

-----------------------------------------------------------------------------
(* What is left of two configurations is not mixed.                         *)

\* What a deletion has deleted when it is killed, or done.
LEMMA FirstPieces ==
    ASSUME NEW i \in 0..Len(Order)
    PROVE  /\ First(i) # {} => "addresses" \in First(i)
           /\ "nodes" \in First(i) => "gateways" \in First(i)
           /\ "preset" \in First(i) => {"docker", "nodes"} \subseteq First(i)
           /\ Pieces = First(Len(Order)) /\ Len(Order) \in 0..Len(Order)
           /\ "preset" \in Pieces
<1>1. /\ Len(Order) = 6 /\ Order[1] = "addresses" /\ Order[2] = "docker" /\ Order[3] = "gateways"
      /\ Order[4] = "nemesis" /\ Order[5] = "nodes" /\ Order[6] = "preset"
  BY DEF Order
<1>2. First(i) # {} => i >= 1
  BY DEF First
<1>3. /\ "preset" \in First(i) => i = 6
      /\ "nodes" \in First(i) => i >= 5
  BY <1>1 DEF First
<1>4. i >= 1 => Order[1] \in First(i)
  BY DEF First
<1>5. /\ i = 6 => {Order[2], Order[5]} \subseteq First(i)
      /\ i >= 5 => Order[3] \in First(i)
  BY DEF First
<1>6. Order[6] \in First(6)
  BY DEF First
<1> QED
  BY <1>1, <1>2, <1>3, <1>4, <1>5, <1>6 DEF Pieces

\* The steps that leave, or clear, what was made with the certificates.
LEMMA QuietMatched ==
    ASSUME TypeOK, NodesMatch, cert' = cert, gateway' \in {gateway, 0}, pc' # "certs",
           \A n \in Names : server'[n] \in {server[n], NoKeys}
    PROVE  Matched'
<1>1. NodesMatch'
  BY DEF NodesMatch
<1> QED
  BY <1>1 DEF Matched, Cleared

LEMMA DeleteMatched ==
    ASSUME TypeOK, NodesMatch, NEW i \in 0..Len(Order), Delete(First(i)), pc' # "certs"
    PROVE  Matched'
<1>1. CASE "nodes" \in First(i)
  <2>1. gateway' = 0 /\ \A n \in Names : server'[n] = NoKeys
    BY <1>1, FirstPieces DEF Delete
  <2> QED
    BY <2>1 DEF Matched, NodesMatch, Cleared
<1>2. CASE "nodes" \notin First(i)
  BY <1>2, QuietMatched DEF Delete
<1> QED
  BY <1>1, <1>2

LEMMA CleanUpMatched ==
    ASSUME TypeOK, Memory, NodesMatch, CleanUp
    PROVE  Matched'
<1>1. /\ pc = "clean" /\ pc' = "certs" /\ gateway' = 0 /\ UNCHANGED <<cert, addresses>>
      /\ \A n \in Names : server'[n] = IF n \in NamesOf(preset) THEN NoKeys ELSE server[n]
  BY DEF CleanUp, Clear, run
<1>2. NamesOf(addresses) = NamesOf(preset) /\ NamesOf(addresses) \subseteq Names
  <2>1. NamesOf(addresses) = NamesOf(preset)
    BY <1>1 DEF Memory, Named, Configuring, NamesOf
  <2> QED
    BY <2>1, NodesOfSeq DEF TypeOK
<1>3. NodesMatch'
  BY <1>1 DEF NodesMatch
<1>4. Cleared'
  <2>1. NamesOf(addresses)' = NamesOf(addresses)
    BY <1>1, SameKeys
  <2> QED
    BY <1>1, <1>2, <2>1 DEF Cleared
<1> QED
  BY <1>3, <1>4 DEF Matched

LEMMA NodeStepMatched ==
    ASSUME TypeOK, Memory, Folder, Matched, NEW n \in Names, NodeStep(n)
    PROVE  Matched'
<1>1. pc' = pc /\ pc \in Changing /\ n \in NamesOf(addresses)
  BY NodeStepMemory
<1>2. CASE CheckCert(n) \/ DeleteCert(n) \/ CreateCert(n) \/ WriteMetadata(n)
  <2>1. /\ pc = "certs" /\ UNCHANGED <<addresses, server, gateway>>
        /\ \A m \in Names \ {n} : cert'[m] = cert[m]
    BY <1>2 DEF CheckCert, DeleteCert, CreateCert, WriteMetadata, CertStep, disk, run, TypeOK
  <2>2. gateway = 0 /\ server[n] = NoKeys
    BY <1>1, <2>1 DEF Matched, Cleared
  <2>3. NodesMatch'
    BY <2>1, <2>2 DEF Matched, NodesMatch
  <2>4. Cleared'
    BY <1>1, <2>1, SameKeys DEF Matched, Cleared
  <2> QED
    BY <2>3, <2>4 DEF Matched
<1>3. CASE GenerateNode(n)
  <2>1. /\ pc = "nodes" /\ UNCHANGED <<cert, gateway>>
        /\ server'[n] = KeysOf(n) /\ \A m \in Names \ {n} : server'[m] = server[m]
    BY <1>3 DEF GenerateNode, TypeOK
  <2>2. cert[n] = CertOf(n)
    BY <1>1, <2>1 DEF Folder, Built, Changing
  <2>3. cert[n].files = server'[n]["main"]
    BY <2>1, <2>2 DEF CertOf, MainOf
  <2>4. NodesMatch'
    BY <2>1, <2>3 DEF Matched, NodesMatch
  <2> QED
    BY <1>1, <2>1, <2>4 DEF Matched, Cleared
<1>4. CASE StoreTransactions(n) \/ CopySeed(n)
  <2>1. pc # "certs" /\ UNCHANGED <<cert, gateway, server>>
    BY <1>4 DEF StoreTransactions, CopySeed, NemesisStep, RoleKinds
  <2> QED
    BY <1>1, <2>1, QuietMatched DEF Matched
<1> QED
  BY <1>2, <1>3, <1>4 DEF NodeStep

LEMMA MatchedStep ==
    ASSUME TypeOK, Memory, Folder, Matched, Next
    PROVE  Matched'
<1>1. NodesMatch
  BY DEF Matched
<1>2. ASSUME NEW c \in Command, StartCommand(c) PROVE Matched'
  BY <1>1, <1>2, QuietMatched DEF StartCommand, FirstLabel, disk
<1>3. CASE Clean \/ Reset \/ ResetCut
  <2>1. (\E i \in 0..Len(Order) : Delete(First(i))) /\ (pc' \in {"check", "idle"} \/ Clean)
    BY <1>3, FirstPieces DEF Clean, Reset, ResetCut, Exit, Order
  <2>2. pc' # "certs"
    BY <2>1 DEF Clean
  <2> QED
    BY <1>1, <2>1, <2>2, DeleteMatched
<1>4. CASE ResetData \/ DropCompose \/ WriteCompose \/ Up \/ Abort \/ Reuse \/ Resolve
           \/ CopyPresetNemesis \/ DropNemesis \/ Nemgen \/ WriteAddresses \/ WritePreset
           \/ Barrier("certs", "nodes", Todo) \/ Barrier("nodes", "gateway", stage)
           \/ Barrier("vrf", "remote", TodoLinks("remote"))
           \/ Barrier("remote", "nemgen", Todo) \/ Barrier("seeds", "addresses", stage)
  <2>1. pc' # "certs" /\ UNCHANGED <<cert, gateway, server>>
    BY <1>4 DEF ResetData, DropCompose, WriteCompose, Up, Abort, Reuse, Resolve, Exit,
       CopyPresetNemesis, DropNemesis, Nemgen, NemesisStep, WriteAddresses, WritePreset, Barrier,
       disk
  <2> QED
    BY <1>1, <2>1, QuietMatched
<1>5. CASE CleanUp
  BY <1>1, <1>5, CleanUpMatched
<1>6. CASE CleanUpCut
  <2>1. pc' # "certs" /\ UNCHANGED <<cert, gateway>>
        /\ \A n \in Names : server'[n] \in {server[n], NoKeys}
    BY <1>6 DEF CleanUpCut, Clear, Exit
  <2> QED
    BY <1>1, <2>1, QuietMatched
<1>7. CASE GenerateGateway
  <2>1. /\ pc = "gateway" /\ pc' # "certs" /\ UNCHANGED <<cert, server>>
        /\ gateway' = cert[addresses[1].name].files
    BY <1>7 DEF GenerateGateway
  <2>2. 1 \in DOMAIN addresses
    BY <2>1, NodesOfSeq, PresetSeq DEF Memory, Named, Configuring, Changing, TypeOK
  <2>3. addresses[1].name \in Names
    BY <2>2, NodesOfSeq DEF TypeOK
  <2>4. NodesMatch'
    BY <1>1, <2>1, <2>3 DEF NodesMatch
  <2> QED
    BY <2>1, <2>4 DEF Matched, Cleared
<1>8. ASSUME NEW n \in Names, NodeStep(n) PROVE Matched'
  BY <1>8, NodeStepMatched
<1> QED
  BY <1>2, <1>3, <1>4, <1>5, <1>6, <1>7, <1>8 DEF Next, ConfigStep

-----------------------------------------------------------------------------
(* What the seeds and the chain data grew from.                             *)

\* Two origins that are not the same: if the later is not a created nemesis, the
\* network has offered two.
LEMMA OtherSeed ==
    ASSUME NEW old, NEW new, Offered(old), Offered(new), old # NoSeed, new # NoSeed, old # new,
           new.kind # "created"
    PROVE  new.kind = "folder" /\ network.seeds # {new.folder}
<1>1. PICK f \in network.seeds \ {0} : new = CopyOf(f)
  BY DEF Offered
<1>2. new.kind = "folder" /\ new.folder = f
  BY <1>1 DEF CopyOf, Origin
<1>3. CASE \E g \in network.seeds \ {0} : old = CopyOf(g)
  BY <1>1, <1>2, <1>3
<1>4. CASE old.kind = "created" /\ 0 \in network.seeds
  BY <1>2, <1>4
<1> QED
  BY <1>3, <1>4 DEF Offered
\* Seeds that are dropped or copied from the nemesis have its origin.
LEMMA SameNemesis ==
    ASSUME History, Upgrading', Composed',
           UNCHANGED <<network, presetYml, addressesYml, compose, data, nemesis>>,
           \A n \in Names :
              \/ seed'[n] \in {seed[n], NoSeed}
              \/ seed'[n] = nemesis /\ (presetYml # NoFile => addressesYml # NoFile)
    PROVE  History'
<1>1. Origins'
  BY DEF History, Origins, Offered
<1>2. Untouched'
  BY DEF History, Untouched
<1>3. Rooted'
  BY DEF History, Rooted, NamesOf
<1>4. DataOfSeed'
  <2> SUFFICES ASSUME NEW n \in Names, data[n] # NoSeed, seed'[n] # NoSeed
               PROVE  \/ data[n] = seed'[n]
                      \/ seed'[n].kind = "folder" /\ network.seeds # {seed'[n].folder}
    BY DEF DataOfSeed
  <2>1. CASE seed'[n] = seed[n]
    BY <2>1 DEF History, DataOfSeed
  <2>2. CASE seed'[n] = nemesis /\ (presetYml # NoFile => addressesYml # NoFile)
    <3>1. addressesYml # NoFile
      BY <2>2 DEF History, Untouched
    <3>2. nemesis.kind = "created" => data[n] = nemesis
      BY <3>1 DEF History, Rooted
    <3>3. nemesis.kind # "created" /\ data[n] # nemesis =>
             nemesis.kind = "folder" /\ network.seeds # {nemesis.folder}
      BY <2>2, OtherSeed DEF History, Origins
    <3> QED
      BY <2>2, <3>2, <3>3
  <2> QED
    BY <2>1, <2>2
<1> QED
  BY <1>1, <1>2, <1>3, <1>4 DEF History

\* So have the chain data that are dropped or started from the seed.
LEMMA SameSeeds ==
    ASSUME History, Upgrading', Composed', presetYml # NoFile,
           UNCHANGED <<network, presetYml, addressesYml, seed, nemesis>>,
           compose' \in {compose, presetYml, NoFile},
           \A n \in Names :
              \/ data'[n] \in {data[n], NoSeed}
              \/ n \in NamesOf(compose) /\ data'[n] = seed[n]
    PROVE  History'
<1>1. Origins' /\ Untouched' /\ DataOfSeed'
  BY DEF History, Origins, Offered, Untouched, DataOfSeed
<1>2. NamesOf(compose') \subseteq NamesOf(compose) \cup NamesOf(presetYml)
  BY NoNodes
<1>3. Rooted'
  <2> SUFFICES ASSUME nemesis.kind = "created", addressesYml # NoFile, NEW n \in Names,
                      data'[n] # NoSeed \/ n \in NamesOf(presetYml) \cup NamesOf(compose')
               PROVE  seed[n] \in {NoSeed, nemesis} /\ data'[n] \in {NoSeed, nemesis}
    BY DEF Rooted
  <2>1. data[n] # NoSeed \/ n \in NamesOf(presetYml) \cup NamesOf(compose)
    BY <1>2
  <2> QED
    BY <2>1 DEF History, Rooted
<1> QED
  BY <1>1, <1>3 DEF History

\* A nemesis is created for nodes that have not run, or copied from a folder.
LEMMA NewNemesis ==
    ASSUME TypeOK, Memory, History, network' = network,
           DropNemesis \/ CopyPresetNemesis \/ Nemgen
    PROVE  History'
<1>1. /\ UNCHANGED <<presetYml, addressesYml, compose, data, seed, addresses, isUpgrade, cmd>>
      /\ pc \in {"nemesis", "copy", "nemgen"} /\ pc' \in {"vrf", "copy", "seeds"}
      /\ pc' = "vrf" => cmd.seed = 0 /\ pc = "nemesis"
      /\ pc' = "copy" => cmd.seed # 0
  BY DEF DropNemesis, CopyPresetNemesis, Nemgen, NemesisStep, run
<1>2. cmd.seed \in network.seeds
  BY <1>1 DEF History, Upgrading, Configuring, Changing
<1>3. Upgrading' /\ Composed'
  BY <1>1 DEF History, Upgrading, Composed, Configuring, Changing
<1>4. Untouched' /\ DataOfSeed'
  BY <1>1 DEF History, Untouched, DataOfSeed
<1>5. CASE DropNemesis \/ CopyPresetNemesis
  <2>1. nemesis' = NoSeed \/ (nemesis' = CopyOf(cmd.seed) /\ cmd.seed # 0)
    BY <1>5 DEF DropNemesis, CopyPresetNemesis, NemesisStep, History, Upgrading
  <2>2. Offered(nemesis)' /\ nemesis'.kind # "created"
    BY <1>2, <2>1 DEF Offered, NoSeed, CopyOf, Origin
  <2>3. Origins' /\ Rooted'
    BY <1>1, <2>2 DEF History, Origins, Offered, Rooted
  <2> QED
    BY <1>3, <1>4, <2>3 DEF History
<1>6. CASE Nemgen
  <2>1. pc = "nemgen" /\ nemesis' = Created(bins)
    BY <1>6 DEF Nemgen, NemesisStep
  <2>2. cmd.seed = 0 /\ presetYml = NoFile
    BY <2>1 DEF History, Upgrading, Configuring, Changing
  <2>3. Offered(nemesis)'
    BY <1>2, <2>1, <2>2 DEF Offered, Created, Origin
  <2>4. Origins'
    BY <1>1, <2>3 DEF History, Origins, Offered
  <2>5. presetYml' = NoFile /\ compose' = NoFile /\ \A n \in Names : data'[n] = NoSeed
    BY <1>1, <2>2 DEF History, Untouched
  <2>6. Rooted'
    BY <2>5, NoNodes DEF Rooted
  <2> QED
    BY <1>3, <1>4, <2>4, <2>6 DEF History
<1> QED
  BY <1>5, <1>6

LEMMA DeleteHistory ==
    ASSUME TypeOK, History, network' = network, NEW i \in 0..Len(Order), Delete(First(i)),
           pc' \notin Configuring, pc' \notin {"dropCompose", "compose", "up"},
           pc' \in {"reset", "check"} => cmd'.seed \in network.seeds
    PROVE  History'
<1>1. Origins' /\ DataOfSeed'
  BY DEF History, Origins, Offered, DataOfSeed, Delete
<1>2. Upgrading' /\ Composed'
  BY DEF History, Upgrading, Composed, Configuring, Changing, Reset
<1>3. Untouched'
  <2>1. CASE "preset" \in First(i)
    <3>1. compose' = NoFile /\ \A n \in Names : data'[n] = NoSeed
      BY <2>1, FirstPieces DEF Delete
    <3> QED
      BY <3>1 DEF Untouched
  <2>2. CASE "preset" \notin First(i)
    BY <2>2 DEF History, Untouched, Delete
  <2> QED
    BY <2>1, <2>2
<1>4. Rooted'
  <2>1. CASE First(i) = {}
    BY <2>1 DEF History, Rooted, Delete, NamesOf
  <2>2. CASE First(i) # {}
    BY <2>2, FirstPieces DEF Rooted, Delete
  <2> QED
    BY <2>1, <2>2
<1> QED
  BY <1>1, <1>2, <1>3, <1>4 DEF History

LEMMA WritePresetHistory ==
    ASSUME TypeOK, Memory, Folder, History, network' = network, WritePreset
    PROVE  History'
<1>1. /\ pc = "preset" /\ presetYml' = preset /\ pc' \in {"dropCompose", "idle"}
      /\ UNCHANGED <<addressesYml, compose, data, seed, nemesis>>
      /\ pc' = "dropCompose" => UNCHANGED <<preset, addresses, cmd>>
  BY DEF WritePreset, Exit, run
<1>2. NamesOf(preset) = NamesOf(addresses) /\ preset # NoFile
  BY <1>1 DEF Memory, Named, NamesOf, Configuring, Changing
<1>3. \A n \in NamesOf(preset) : seed[n] = nemesis
  BY <1>1, <1>2 DEF Folder, Built
<1>4. Upgrading'
  BY <1>1, <1>2 DEF Upgrading, Configuring, Changing
<1>5. Origins' /\ Untouched' /\ DataOfSeed'
  BY <1>1, <1>2 DEF History, Origins, Offered, Untouched, DataOfSeed
<1>6. Rooted'
  BY <1>1, <1>3 DEF History, Rooted
<1>7. ~cmd.upgrade => presetYml = NoFile
  BY <1>1 DEF History, Upgrading, Configuring, Changing, TypeOK
<1>8. Composed'
  BY <1>1, <1>7 DEF History, Composed, Untouched
<1> QED
  BY <1>4, <1>5, <1>6, <1>8 DEF History

LEMMA WriteAddressesHistory ==
    ASSUME TypeOK, Memory, History, network' = network, WriteAddresses
    PROVE  History'
<1>1. /\ pc = "addresses" /\ pc' = "preset" /\ addressesYml' = addresses
      /\ UNCHANGED <<presetYml, compose, data, seed, nemesis, cmd, isUpgrade>>
  BY DEF WriteAddresses, run
<1>2. addresses # NoFile
  <2>1. 1 \in DOMAIN addresses
    BY <1>1, NodesOfSeq DEF Memory, Named, Configuring, Changing, TypeOK
  <2> QED
    BY <2>1, NoNodes
<1>3. Upgrading' /\ Composed'
  BY <1>1, <1>2 DEF History, Upgrading, Composed, Configuring, Changing
<1>4. Origins' /\ Untouched' /\ DataOfSeed'
  BY <1>1 DEF History, Origins, Offered, Untouched, DataOfSeed
<1>5. Rooted'
  <2>1. CASE presetYml = NoFile
    <3>1. compose' = NoFile /\ presetYml' = NoFile /\ \A n \in Names : data'[n] = NoSeed
      BY <1>1, <2>1 DEF History, Untouched
    <3> QED
      BY <3>1, NoNodes DEF Rooted
  <2>2. CASE presetYml # NoFile
    <3>1. addressesYml # NoFile
      BY <1>1, <2>2 DEF History, Upgrading, Configuring, Changing
    <3> QED
      BY <1>1, <3>1 DEF History, Rooted, NamesOf
  <2> QED
    BY <2>1, <2>2
<1> QED
  BY <1>3, <1>4, <1>5 DEF History

LEMMA NodeStepHistory ==
    ASSUME TypeOK, Memory, History, network' = network, NEW n \in Names, NodeStep(n)
    PROVE  History'
<1>1. /\ UNCHANGED <<presetYml, addressesYml, compose, data, pc, cmd, preset, addresses, isUpgrade,
                    nemesis>>
      /\ pc \in Changing
      /\ seed' = seed \/ seed' = [seed EXCEPT ![n] = nemesis]
  BY DEF NodeStep, CheckCert, DeleteCert, CreateCert, WriteMetadata, GenerateNode,
     StoreTransactions, CopySeed, CertStep, NemesisStep, disk, run, Changing, RoleKinds
<1>2. \A m \in Names : seed'[m] \in {seed[m], nemesis}
  BY <1>1 DEF TypeOK
<1>3. Upgrading' /\ Composed'
  BY <1>1 DEF History, Upgrading, Composed, Changing
<1>4. presetYml # NoFile => addressesYml # NoFile
  BY <1>1 DEF History, Upgrading, Configuring
<1> QED
  BY <1>1, <1>2, <1>3, <1>4, SameNemesis

LEMMA ConfigStepHistory ==
    ASSUME TypeOK, Memory, Folder, History, network' = network, ConfigStep
    PROVE  History'
<1> USE DEF Configuring, Changing
<1>1. CASE Reset \/ ResetCut
  <2>1. /\ \E i \in 0..Len(Order) : Delete(First(i))
        /\ pc' = "idle" \/ (pc = "reset" /\ pc' = "check" /\ cmd' = cmd)
    BY <1>1, FirstPieces DEF Reset, ResetCut, Exit, Order, run
  <2>2. pc' \in {"reset", "check"} => cmd'.seed \in network.seeds
    BY <2>1 DEF History, Upgrading
  <2> QED
    BY <2>1, <2>2, DeleteHistory
<1>2. CASE Reuse
  <2>1. /\ UNCHANGED <<presetYml, addressesYml, compose, data, seed, nemesis>> /\ presetYml # NoFile
        /\ \/ pc' = "dropCompose" /\ preset' = presetYml /\ addresses' = addresses
           \/ pc' = "idle" /\ addresses' = NoFile
        /\ pc = "check"
    BY <1>2 DEF Reuse, Exit, disk
  <2>2. addresses' = NoFile
    BY <2>1 DEF Memory, Named
  <2>3. Upgrading' /\ Composed'
    BY <2>1, <2>2 DEF Upgrading, Composed
  <2> QED
    BY <2>1, <2>3, SameNemesis
<1>3. CASE Resolve
  <2>1. /\ UNCHANGED <<presetYml, addressesYml, compose, data, seed, nemesis, cmd>>
        /\ pc = "check" /\ pc' = "clean" /\ isUpgrade' = (presetYml # NoFile)
        /\ presetYml = NoFile \/ cmd.upgrade
        /\ (presetYml = NoFile) = (addressesYml = NoFile)
    BY <1>3 DEF Resolve, disk
  <2>2. Upgrading' /\ Composed'
    BY <2>1 DEF History, Upgrading, Composed
  <2> QED
    BY <2>1, <2>2, SameNemesis
<1>4. CASE \/ CleanUp \/ GenerateGateway
           \/ Barrier("certs", "nodes", Todo) \/ Barrier("nodes", "gateway", stage)
           \/ Barrier("vrf", "remote", TodoLinks("remote"))
           \/ Barrier("remote", "nemgen", Todo) \/ Barrier("seeds", "addresses", stage)
  <2>1. /\ UNCHANGED <<presetYml, addressesYml, compose, data, nemesis, cmd, isUpgrade>>
        /\ pc \in Configuring /\ pc' \in Configuring
        /\ pc' \in {"vrf", "remote", "nemgen"} => pc \in {"vrf", "remote"}
        /\ pc' # "copy"
        /\ pc' = "nemesis" => ~(cmd.seed = 0 /\ isUpgrade)
    BY <1>4 DEF CleanUp, GenerateGateway, Barrier, run, disk
  <2>2. Upgrading' /\ Composed'
    BY <2>1 DEF History, Upgrading, Composed
  <2>3. \A n \in Names : seed'[n] \in {seed[n], NoSeed}
    BY <1>4 DEF CleanUp, Clear, GenerateGateway, Barrier, disk
  <2> QED
    BY <2>1, <2>2, <2>3, SameNemesis
<1>5. CASE DropNemesis \/ CopyPresetNemesis \/ Nemgen
  BY <1>5, NewNemesis
<1>6. CASE WriteAddresses \/ WritePreset
  BY <1>6, WriteAddressesHistory, WritePresetHistory
<1>7. CASE CleanUpCut
  <2>1. /\ UNCHANGED <<presetYml, addressesYml, compose, data, nemesis>>
        /\ pc' = "idle" /\ addresses' = NoFile
        /\ \A n \in Names : seed'[n] \in {seed[n], NoSeed}
    BY <1>7 DEF CleanUpCut, Clear, Exit
  <2>2. Upgrading' /\ Composed'
    BY <2>1 DEF Upgrading, Composed
  <2> QED
    BY <2>1, <2>2, SameNemesis
<1> QED
  BY <1>1, <1>2, <1>3, <1>4, <1>5, <1>6, <1>7 DEF ConfigStep

LEMMA HistoryStep ==
    ASSUME TypeOK, Memory, Folder, History, Next
    PROVE  History'
<1> USE DEF Configuring, Changing
<1>0. network' = network
  BY DEF Next
<1>1. ASSUME NEW c \in Command, StartCommand(c) PROVE History'
  <2>1. /\ UNCHANGED <<presetYml, addressesYml, compose, data, seed, nemesis, addresses>>
        /\ pc' = "dropCompose" => presetYml # NoFile /\ preset' = presetYml
        /\ pc' \in {"reset", "check", "dropCompose", "up"}
        /\ pc' \in {"reset", "check"} => cmd'.seed \in network.seeds
        /\ addresses = NoFile
    BY <1>1 DEF StartCommand, FirstLabel, disk, Memory, Named, Command
  <2>2. Upgrading' /\ Composed'
    BY <1>0, <2>1 DEF Upgrading, Composed
  <2> QED
    BY <1>0, <2>1, <2>2, SameNemesis
<1>2. CASE Clean
  BY <1>0, <1>2, DeleteHistory DEF Clean, run, History, Upgrading
<1>3. CASE ResetData
  <2>1. Upgrading' /\ Composed'
    BY <1>0, <1>3 DEF ResetData, run, History, Upgrading, Composed
  <2> QED
    BY <1>0, <1>3, <2>1, SameSeeds DEF ResetData
<1>4. CASE DropCompose
  <2>1. /\ UNCHANGED <<presetYml, addressesYml, data, seed, nemesis, preset, addresses, cmd>>
        /\ pc = "dropCompose" /\ pc' = "compose"
        /\ compose' = IF cmd.upgrade THEN NoFile ELSE compose
        /\ presetYml # NoFile
    BY <1>4 DEF DropCompose, run, History, Upgrading
  <2>2. Upgrading' /\ Composed'
    BY <2>1 DEF History, Upgrading, Composed
  <2> QED
    BY <1>0, <2>1, <2>2, SameSeeds
<1>5. CASE WriteCompose
  <2>1. /\ UNCHANGED <<presetYml, addressesYml, data, seed, nemesis>>
        /\ pc = "compose" /\ pc' \in {"up", "idle"}
        /\ compose' = IF compose = NoFile THEN presetYml ELSE compose
        /\ presetYml # NoFile
        /\ pc' = "up" => addresses' = addresses
    BY <1>5 DEF WriteCompose, Exit, run, History, Upgrading
  <2>2. Upgrading' /\ Composed'
    BY <2>1 DEF History, Upgrading, Composed
  <2> QED
    BY <1>0, <2>1, <2>2, SameSeeds
<1>6. CASE Up
  <2>1. /\ UNCHANGED <<presetYml, addressesYml, seed, nemesis, compose>> /\ compose # NoFile
        /\ pc' = "idle"
        /\ \A n \in Names : data'[n] = data[n] \/ (n \in NamesOf(compose) /\ data'[n] = seed[n])
    BY <1>6 DEF Up, Exit
  <2>2. Upgrading' /\ Composed'
    BY <2>1 DEF Upgrading, Composed
  <2>3. presetYml # NoFile
    BY <2>1 DEF History, Untouched
  <2> QED
    BY <1>0, <2>1, <2>2, <2>3, SameSeeds
<1>7. CASE Abort
  <2>1. Upgrading' /\ Composed'
    BY <1>7 DEF Abort, Exit, Upgrading, Composed
  <2> QED
    BY <1>0, <1>7, <2>1, SameNemesis DEF Abort, disk
<1>8. CASE ConfigStep
  BY <1>0, <1>8, ConfigStepHistory
<1>9. ASSUME NEW n \in Names, NodeStep(n) PROVE History'
  BY <1>0, <1>9, NodeStepHistory
<1> QED
  BY <1>1, <1>2, <1>3, <1>4, <1>5, <1>6, <1>7, <1>8, <1>9 DEF Next


-----------------------------------------------------------------------------
(* What a completed configuration is.                                       *)

\* What a configuration has made when it writes preset.yml.
LEMMA WritePresetConsistent ==
    ASSUME TypeOK, Memory, Folder, WritePreset
    PROVE  Consistent'
<1> USE DEF Configuring, Changing
<1>1. /\ pc = "preset" /\ presetYml' = preset
      /\ UNCHANGED <<addressesYml, cert, server, gateway, seed, nemesis>>
  BY DEF WritePreset
<1>2. /\ preset # NoFile /\ addresses # NoFile /\ addressesYml = addresses
      /\ DOMAIN addresses = DOMAIN preset
      /\ \A i \in DOMAIN addresses : addresses[i].name = preset[i].name
  <2>1. /\ preset # NoFile /\ addressesYml = addresses /\ DOMAIN addresses = DOMAIN preset
        /\ \A i \in DOMAIN addresses : addresses[i].name = preset[i].name
    BY <1>1 DEF Memory, Named, Folder, Finished
  <2>2. 1 \in DOMAIN addresses
    BY <2>1, PresetSeq DEF TypeOK
  <2> QED
    BY <2>1, <2>2, NoNodes
<1>3. ASSUME NEW i \in DOMAIN addresses
      PROVE  LET n == addresses[i].name
                 k == addresses[i].keys["main"]
             IN  /\ cert[n] = [files |-> k, metadata |-> k]
                 /\ server[n] = addresses[i].keys
                 /\ nemesis # NoSeed /\ seed[n] = nemesis
  <2>1. /\ KeysOf(addresses[i].name) = addresses[i].keys
        /\ MainOf(addresses[i].name) = addresses[i].keys["main"]
    BY <1>1, KeysOfName DEF Memory
  <2>2. addresses[i].name \in NamesOf(addresses)
    BY DEF NamesOf
  <2>3. Built(addresses[i].name)
    BY <2>2 DEF Folder
  <2> QED
    BY <1>1, <2>1, <2>3 DEF Built, CertOf
<1>4. nemesis # NoSeed
  <2>1. 1 \in DOMAIN addresses
    BY <1>2, NodesOfSeq DEF TypeOK
  <2> QED
    BY <1>3, <2>1
<1>5. gateway = addresses[1].keys["main"]
  BY <1>1 DEF Folder, Finished
<1> QED
  BY <1>1, <1>2, <1>3, <1>4, <1>5 DEF Consistent

-----------------------------------------------------------------------------
(* The invariant.                                                           *)

LEMMA InitInv == Init => TargetInv
<1> SUFFICES ASSUME Init PROVE TargetInv
  OBVIOUS
<1>1. TypeOK
  <2>1. network \in Networks
    BY DEF Init
  <2>2. /\ 0 \in Keys /\ 0 \in 0..network.maxKeys
    BY <2>1, ZeroIsKey
  <2>3. /\ seed \in [Names -> Seed] /\ data \in [Names -> Seed] /\ nemesis \in Seed
        /\ cert \in [Names -> [files : Keys, metadata : Keys]]
        /\ stage \in [Names -> Stages]
    BY <2>1, NothingTyped DEF Init, Stages
  <2>4. /\ server \in [Names -> KeysOfNode] /\ bins \in [Names -> [RoleKinds -> Keys]]
        /\ {presetYml, compose, preset} \subseteq Seq(PresetNode)
        /\ {addressesYml, addresses} \subseteq Seq(Node)
        /\ pc \in Labels /\ cmd \in Command
    BY <2>1, NothingTyped DEF Init, Labels
  <2> QED
    BY <2>1, <2>2, <2>3, <2>4 DEF Init, TypeOK
<1>2. Memory
  BY NoNodes DEF Init, Memory, Named, Staged, Configuring, Changing
<1>3. Folder
  BY NoNodes DEF Init, Folder, Paired, NoCert, Finished, Changing
<1>4. Matched
  BY DEF Init, Matched, NodesMatch, Cleared
<1>5. History
  <2>1. Upgrading /\ Composed
    BY DEF Init, Upgrading, Composed, Configuring, Changing
  <2>2. Origins /\ Untouched /\ DataOfSeed
    BY DEF Init, Origins, Offered, Untouched, DataOfSeed
  <2>3. Rooted
    BY DEF Init, Rooted
  <2> QED
    BY <2>1, <2>2, <2>3 DEF History
<1> QED
  BY <1>1, <1>2, <1>3, <1>4, <1>5 DEF TargetInv

LEMMA StepInv == TargetInv /\ [Next]_vars => TargetInv'
<1> SUFFICES ASSUME TargetInv, [Next]_vars PROVE TargetInv'
  OBVIOUS
<1>1. CASE Next
  BY <1>1, TypeStep, MemoryStep, FolderStep, MatchedStep, HistoryStep DEF TargetInv, Memory
<1>2. CASE UNCHANGED vars
  <2> USE <1>2 DEF vars, disk, run
  <2>1. TypeOK'
    BY DEF TargetInv, TypeOK
  <2>2. Memory'
    <3>1. \A i, k : Kept(i, k)' = Kept(i, k) /\ Called(preset[i])' = Called(preset[i])
      BY DEF Kept, Stored, Called
    <3> QED
      BY <3>1 DEF TargetInv, Memory, Named, Staged, Distinct, NamesOf
  <2>3. /\ \A n : KeysOf(n)' = KeysOf(n) /\ MainOf(n)' = MainOf(n) /\ CertOf(n)' = CertOf(n)
        /\ NamesOf(addresses)' = NamesOf(addresses)
    BY SameKeys
  <2>4. Folder'
    <3>1. Paired' /\ Finished'
      BY DEF TargetInv, Folder, Paired, Finished
    <3>2. \A n \in NamesOf(addresses) : Built(n)'
      BY <2>3 DEF TargetInv, Folder, Built, CertMade
    <3> QED
      BY <2>3, <3>1, <3>2 DEF Folder
  <2>5. Matched'
    BY <2>3 DEF TargetInv, Matched, NodesMatch, Cleared
  <2>6. History'
    <3>1. Upgrading' /\ Untouched' /\ Rooted' /\ Composed' /\ DataOfSeed'
      BY DEF TargetInv, History, Upgrading, Untouched, Rooted, Composed, DataOfSeed, NamesOf
    <3>2. Origins'
      BY DEF TargetInv, History, Origins, Offered
    <3> QED
      BY <3>1, <3>2 DEF History
  <2> QED
    BY <2>1, <2>2, <2>4, <2>5, <2>6 DEF TargetInv
<1> QED
  BY <1>1, <1>2

\* TargetInv holds always.
THEOREM Invariance == Spec => []TargetInv
  BY InitInv, StepInv, PTL DEF Spec

-----------------------------------------------------------------------------
(* The theorems.                                                            *)

\* The model of the target folder is type correct: every key in it is one that
\* the user gave or the program generated.
THEOREM TypeCorrect == Spec => []TypeOK
<1>1. TargetInv => TypeOK
  BY DEF TargetInv
<1> QED
  BY <1>1, Invariance, PTL

\* Stopped configurations and upgrades (ConfigService.run, cleanUpConfiguration)
\* leave no node, and no gateway, with the configuration of one key and the
\* certificate of another.
THEOREM NodesAlwaysMatch == Spec => []NodesMatch
<1>1. TargetInv => NodesMatch
  BY DEF TargetInv, Matched
<1> QED
  BY <1>1, Invariance, PTL

\* Every config that completes leaves a consistent folder, whatever it found.
THEOREM CompletedConfigs == Spec => CompletedIsConsistent
<1>1. TargetInv /\ [Next]_vars => [WritePreset => Consistent']_vars
  BY WritePresetConsistent DEF TargetInv
<1> QED
  BY <1>1, Invariance, PTL DEF Spec, CompletedIsConsistent

\* Chain data grew from the seed beside it, unless the seed is a folder's and the
\* presets of the network have asked for another too.
THEOREM DataGrewFromSeed == Spec => []DataOfSeed
<1>1. TargetInv => DataOfSeed
  BY DEF TargetInv, History
<1> QED
  BY <1>1, Invariance, PTL

\* No upgrade changes a key at an index but to the one that was provided, or
\* drops one but for the roles of the node (AddressesService.resolveNodeAccounts).
THEOREM UpgradesKeepKeys == Spec => KeysKept
<1> DEFINE AllKept ==
      \A i \in DOMAIN addressesYml \cap DOMAIN addressesYml' : \A k \in Kinds :
         LET old == addressesYml[i].keys[k]
             new == addressesYml'[i].keys[k]
         IN  \/ old \in {0, new}
             \/ i \in DOMAIN preset /\ new = IF k \in Called(preset[i])
                                            THEN preset[i].provided[k] ELSE 0
<1>1. ASSUME TargetInv, Next PROVE AllKept
  <2>1. CASE addressesYml' = addressesYml
    BY <2>1
  <2>2. CASE addressesYml' = NoFile
    BY <2>2, NoNodes
  <2>3. CASE WriteAddresses
    <3>1. pc = "addresses" /\ addressesYml' = addresses
      BY <2>3 DEF WriteAddresses
    <3>2. DOMAIN addresses = DOMAIN preset /\ \A i \in DOMAIN addresses, k \in Kinds : Kept(i, k)
      BY <1>1, <3>1 DEF TargetInv, Memory, Named, Configuring, Changing
    <3> QED
      BY <3>1, <3>2 DEF Kept, Stored
  <2>4. addressesYml' \in {addressesYml, NoFile} \/ WriteAddresses
    BY <1>1 DEF Next, StartCommand, Clean, ResetData, Delete, DropCompose, WriteCompose, Up, Abort,
       ConfigStep, Reset, ResetCut, Reuse, Resolve, CleanUp, CleanUpCut, Barrier, GenerateGateway,
       DropNemesis, CopyPresetNemesis, Nemgen, WritePreset, NodeStep, CheckCert, DeleteCert,
       CreateCert, WriteMetadata, GenerateNode, StoreTransactions, CopySeed, CertStep, NemesisStep,
       disk
  <2> QED
    BY <2>1, <2>2, <2>3, <2>4
<1>2. TargetInv /\ [Next]_vars => [AllKept]_vars
  BY <1>1
<1> QED
  BY <1>2, Invariance, PTL DEF Spec, KeysKept

\* start boots what it has configured.
THEOREM StartBootsItsPreset == Spec => StartBootsPreset
<1>1. TargetInv /\ [Next]_vars =>
        [Up /\ cmd.kind = "start" /\ addresses # NoFile => compose = presetYml]_vars
  BY DEF TargetInv, History, Composed, Up
<1> QED
  BY <1>1, Invariance, PTL DEF Spec, StartBootsPreset
-----------------------------------------------------------------------------
(* What the seed of a new network links.                                    *)

\* Two presets of the same nodes, with the same roles.
Alike(p, c) ==
    /\ DOMAIN p = DOMAIN c
    /\ \A i \in DOMAIN p :
         p[i].name = c[i].name /\ p[i].roles = c[i].roles /\ p[i].excluded = c[i].excluded

FromCustom(p) == \E c \in network.customs : Alike(p, c)

\* All presets come from the custom ones.
Sourced ==
    /\ cmd.custom \in network.customs \cup {NoFile}
    /\ presetYml # NoFile => FromCustom(presetYml)
    /\ preset # NoFile => FromCustom(preset)

\* Custom preset c has the key of kind k of node n linked.
Wants(c, n, k) == \E i \in DOMAIN c : c[i].name = n /\ k \in c[i].roles /\ ~c[i].excluded

\* Link transactions are for keys that a custom preset calls for.
Confined ==
    \A n \in Names : \A k \in RoleKinds :
        bins[n][k] # 0 => \E c \in network.customs : Wants(c, n, k)

\* They are renewed for the keys of the configuration, kind by kind, before the
\* seed is made from them.
RenewedFor(k) == \A n \in Names : Linked(n, k) \in {0, bins[n][k]}
Renewed ==
    /\ pc \in RoleKinds =>
         \A n \in Names :
            IF stage[n] = "done" THEN Linked(n, pc) \in {0, bins[n][pc]} ELSE Linked(n, pc) # 0
    /\ pc \in {"remote", "nemgen"} => RenewedFor("vrf")
    /\ pc = "nemgen" => RenewedFor("remote")

\* The seed of a new network, once it is made.
Seeded ==
    pc \in {"seeds", "addresses", "preset"} /\ ~isUpgrade /\ cmd.seed = 0 =>
        \A n \in Names : \A k \in RoleKinds :
            \/ nemesis.links[n][k] = Linked(n, k)
            \/ Linked(n, k) = 0 /\ \E c \in network.customs : Wants(c, n, k)

LinksInv == Sourced /\ Confined /\ Renewed /\ Seeded

\* Without a custom preset, the cached one is used again with its nodes.
LEMMA SourcedStep ==
    ASSUME TypeOK, Upgrading, Sourced, Next
    PROVE  Sourced'
<1>0. /\ network' = network
      /\ NoCommand.custom = NoFile
  BY DEF Next, NoCommand
<1>1. ASSUME cmd'.custom \in {cmd.custom, NoFile},
             presetYml' \in {presetYml, preset, NoFile},
             preset' \in {presetYml, preset, NoFile}
      PROVE  Sourced'
  BY <1>0, <1>1 DEF Sourced, FromCustom, Alike
<1>2. ASSUME NEW c \in Command, StartCommand(c) PROVE Sourced'
  BY <1>0, <1>2 DEF StartCommand, disk, Sourced, FromCustom, Alike
<1>3. CASE Clean \/ Reset \/ ResetCut
  <2>1. \E gone : Delete(gone)
    BY <1>3 DEF Clean, Reset, ResetCut
  <2>2. presetYml' \in {presetYml, NoFile}
    BY <2>1 DEF Delete
  <2>3. cmd'.custom \in {cmd.custom, NoFile} /\ preset' \in {preset, NoFile}
    BY <1>0, <1>3 DEF Clean, Reset, ResetCut, Exit, run
  <2> QED
    BY <1>1, <2>2, <2>3
<1>4. CASE Resolve
  <2>1. /\ preset' = Resolved(cmd.custom, presetYml) /\ preset' # NoFile
        /\ presetYml' = presetYml /\ cmd' = cmd
    BY <1>4 DEF Resolve, disk
  <2>2. CASE cmd.custom = NoFile
    <3>1. preset' = [i \in DOMAIN presetYml |-> [presetYml[i] EXCEPT !.provided = NoKeys]]
      BY <2>1, <2>2 DEF Resolved
    <3>2. \A i \in DOMAIN presetYml : presetYml[i] \in PresetNode
      BY PresetSeq DEF TypeOK
    <3>3. /\ DOMAIN preset' = DOMAIN presetYml
          /\ \A i \in DOMAIN presetYml :
               /\ preset'[i].name = presetYml[i].name /\ preset'[i].roles = presetYml[i].roles
               /\ preset'[i].excluded = presetYml[i].excluded
      BY <3>1, <3>2 DEF PresetNode
    <3>4. \A c \in network.customs : Alike(presetYml, c) => Alike(preset', c)
      BY <3>3 DEF Alike
    <3>6. presetYml # NoFile
      <4>1. SUFFICES ASSUME presetYml = NoFile PROVE FALSE
        OBVIOUS
      <4>2. DOMAIN preset' = {}
        BY <3>3, <4>1, NoNodes
      <4>3. preset' = << >>
        BY <3>1, <4>1, <4>2 DEF NoFile
      <4> QED
        BY <2>1, <4>3 DEF NoFile
    <3> QED
      BY <1>0, <2>1, <3>4, <3>6 DEF Sourced, FromCustom
  <2>3. CASE cmd.custom # NoFile
    <3>1. preset' = cmd.custom /\ cmd.custom \in network.customs
      BY <2>1, <2>3 DEF Resolved, Sourced
    <3>2. Alike(preset', cmd.custom)
      BY <3>1 DEF Alike
    <3> QED
      BY <1>0, <2>1, <3>1, <3>2 DEF Sourced, FromCustom
  <2> QED
    BY <2>2, <2>3
<1>5. CASE \/ ResetData \/ Reuse \/ CleanUp \/ CleanUpCut \/ GenerateGateway \/ DropNemesis
           \/ CopyPresetNemesis \/ Nemgen \/ WriteAddresses \/ WritePreset
           \/ DropCompose \/ WriteCompose \/ Up \/ Abort
           \/ Barrier("certs", "nodes", Todo) \/ Barrier("nodes", "gateway", stage)
           \/ Barrier("vrf", "remote", TodoLinks("remote"))
           \/ Barrier("remote", "nemgen", Todo) \/ Barrier("seeds", "addresses", stage)
  <2>1. /\ cmd'.custom \in {cmd.custom, NoFile}
        /\ presetYml' \in {presetYml, preset}
        /\ preset' \in {presetYml, preset, NoFile}
    BY <1>0, <1>5 DEF ResetData, Reuse, CleanUp, CleanUpCut, GenerateGateway, DropNemesis,
       CopyPresetNemesis, Nemgen, NemesisStep, WriteAddresses, WritePreset, DropCompose,
       WriteCompose, Up, Abort, Barrier, Exit, disk, run
  <2> QED
    BY <1>1, <2>1
<1>6. ASSUME NEW n \in Names, NodeStep(n) PROVE Sourced'
  <2>1. UNCHANGED <<cmd, presetYml, preset>>
    BY <1>6 DEF NodeStep, CheckCert, DeleteCert, CreateCert, WriteMetadata, GenerateNode,
       StoreTransactions, CopySeed, CertStep, NemesisStep, disk, run
  <2> QED
    BY <1>1, <2>1
<1> QED
  BY <1>2, <1>3, <1>4, <1>5, <1>6 DEF Next, ConfigStep

\* A key that the nemesis is to link is the node's, and a custom preset has it
\* linked; and what the preset itself has linked is there.
LEMMA LinkedKey ==
    ASSUME TypeOK, Named, pc \in Configuring, Sourced, NEW n \in Names, NEW k \in RoleKinds
    PROVE  /\ Linked(n, k) # 0 =>
                Linked(n, k) = KeysOf(n)[k] /\ \E c \in network.customs : Wants(c, n, k)
           /\ Wants(preset, n, k) => Linked(n, k) # 0
<1>1. /\ preset # NoFile /\ DOMAIN addresses = DOMAIN preset /\ k \in Kinds /\ k # "main"
      /\ \A i \in DOMAIN addresses :
           /\ addresses[i].name = preset[i].name
           /\ (addresses[i].keys[k] # 0) = (k \in preset[i].roles)
  BY DEF Named, Kinds, RoleKinds, Called
<1>2. ASSUME Linked(n, k) # 0
      PROVE  Linked(n, k) = KeysOf(n)[k] /\ \E c \in network.customs : Wants(c, n, k)
  <2>1. /\ n \in NamesOf(addresses) /\ ~preset[IndexOf(n)].excluded
        /\ Linked(n, k) = KeysOf(n)[k]
    BY <1>2 DEF Linked
  <2>2. IndexOf(n) \in DOMAIN addresses /\ addresses[IndexOf(n)].name = n
    BY <2>1, KeysOfName
  <2>3. k \in preset[IndexOf(n)].roles /\ preset[IndexOf(n)].name = n
    BY <1>1, <1>2, <2>1, <2>2 DEF KeysOf
  <2>4. PICK c \in network.customs : Alike(preset, c)
    BY <1>1 DEF Sourced, FromCustom
  <2>5. Wants(c, n, k)
    BY <1>1, <2>1, <2>2, <2>3, <2>4 DEF Alike, Wants
  <2> QED
    BY <2>1, <2>5
<1>3. ASSUME Wants(preset, n, k) PROVE Linked(n, k) # 0
  <2>1. PICK i \in DOMAIN preset :
          preset[i].name = n /\ k \in preset[i].roles /\ ~preset[i].excluded
    BY <1>3 DEF Wants
  <2>2. addresses[i].name = n /\ i \in DOMAIN addresses
    BY <1>1, <2>1
  <2>3. IndexOf(n) = i /\ KeysOf(n) = addresses[i].keys /\ n \in NamesOf(addresses)
    BY <2>2, KeysOfName DEF NamesOf
  <2> QED
    BY <1>1, <2>1, <2>2, <2>3 DEF Linked
<1> QED
  BY <1>2, <1>3

LEMMA SameLinked ==
    ASSUME UNCHANGED <<addresses, preset>>
    PROVE  \A n, k : Linked(n, k)' = Linked(n, k)
  BY SameKeys DEF Linked

LEMMA NodeStepLinks ==
    ASSUME TypeOK, Memory, LinksInv, network' = network, NEW n \in Names, NodeStep(n)
    PROVE  Confined' /\ Renewed' /\ Seeded'
<1>1. /\ UNCHANGED <<pc, cmd, addresses, preset, isUpgrade, nemesis>>
      /\ pc \in Configuring /\ n \in NamesOf(addresses)
      /\ \/ bins' = bins /\ pc \notin RoleKinds
         \/ /\ bins' = [bins EXCEPT ![n][pc] = KeysOf(n)[pc]] /\ pc \in RoleKinds
            /\ stage[n] # "done" /\ stage' = [stage EXCEPT ![n] = "done"]
  <2>1. pc' = pc /\ pc \in Changing /\ n \in NamesOf(addresses)
    BY NodeStepMemory
  <2> QED
    BY <2>1 DEF NodeStep, CheckCert, DeleteCert, CreateCert, WriteMetadata, GenerateNode,
       StoreTransactions, CopySeed, CertStep, NemesisStep, Advance, disk, run, Configuring,
       RoleKinds
<1>2. \A m, k : Linked(m, k)' = Linked(m, k)
  BY <1>1, SameLinked
<1>3. Seeded'
  BY <1>1, <1>2 DEF LinksInv, Seeded, Wants
<1>4. CASE bins' = bins /\ pc \notin RoleKinds
  BY <1>1, <1>2, <1>3, <1>4 DEF LinksInv, Confined, Renewed, RenewedFor
<1>5. CASE pc \in RoleKinds
  <2>1. /\ bins' = [bins EXCEPT ![n][pc] = KeysOf(n)[pc]]
        /\ stage[n] # "done" /\ stage' = [stage EXCEPT ![n] = "done"]
    BY <1>1, <1>5
  <2>2. Linked(n, pc) # 0
    BY <1>5, <2>1 DEF LinksInv, Renewed
  <2>3. Linked(n, pc) = KeysOf(n)[pc] /\ \E c \in network.customs : Wants(c, n, pc)
    BY <1>1, <1>5, <2>2, LinkedKey DEF Memory, LinksInv
  <2>4. /\ bins'[n][pc] = Linked(n, pc)
        /\ \A m \in Names, k \in RoleKinds : m # n \/ k # pc => bins'[m][k] = bins[m][k]
        /\ stage'[n] = "done" /\ \A m \in Names : m # n => stage'[m] = stage[m]
    BY <1>5, <2>1, <2>3 DEF TypeOK
  <2>5. Confined'
    BY <1>5, <2>3, <2>4 DEF LinksInv, Confined, Wants
  <2>6. Renewed'
    BY <1>1, <1>2, <1>5, <2>4 DEF LinksInv, Renewed, RenewedFor, RoleKinds
  <2> QED
    BY <1>3, <2>5, <2>6
<1> QED
  BY <1>1, <1>4, <1>5

\* Only the nemesis steps concern the links.
LEMMA ElsewhereLinks ==
    ASSUME Confined, Renewed, Seeded, network' = network,
           bins' \in {bins, NoLinks},
           \/ pc' \notin {"vrf", "remote", "nemgen", "seeds", "addresses", "preset"}
           \/ /\ pc' \in {"seeds", "addresses", "preset"}
              /\ \/ isUpgrade' \/ cmd'.seed # 0
                 \/ /\ pc \in {"seeds", "addresses", "preset"}
                    /\ UNCHANGED <<addresses, preset, isUpgrade, cmd, nemesis>>
    PROVE  Confined' /\ Renewed' /\ Seeded'
<1>1. Confined'
  BY DEF Confined, NoLinks, Wants
<1>2. Renewed'
  BY DEF Renewed, RoleKinds
<1>3. Seeded'
  BY SameLinked DEF Seeded, Wants
<1> QED
  BY <1>1, <1>2, <1>3

\* The steps that make a nemesis.
LEMMA NemesisLinks ==
    ASSUME TypeOK, Memory, Confined, Renewed, Seeded, network' = network,
           \/ DropNemesis /\ cmd.seed = 0
           \/ Nemgen
           \/ Barrier("vrf", "remote", TodoLinks("remote"))
           \/ Barrier("remote", "nemgen", Todo)
    PROVE  Confined' /\ Renewed' /\ Seeded'
<1>1. UNCHANGED <<bins, addresses, preset, isUpgrade, cmd>>
  BY DEF DropNemesis, Nemgen, NemesisStep, Barrier, disk, run
<1>2. \A n, k : Linked(n, k)' = Linked(n, k)
  BY <1>1, SameLinked
<1>3. Confined'
  BY <1>1 DEF Confined, Wants
<1>4. CASE DropNemesis /\ cmd.seed = 0
  <2>1. pc' = "vrf" /\ stage' = TodoLinks("vrf")
    BY <1>4 DEF DropNemesis, NemesisStep
  <2>2. Renewed' /\ Seeded'
    BY <1>2, <2>1 DEF Renewed, Seeded, TodoLinks
  <2> QED
    BY <1>3, <2>2
<1>5. CASE Barrier("vrf", "remote", TodoLinks("remote"))
  <2>1. /\ pc = "vrf" /\ pc' = "remote" /\ stage' = TodoLinks("remote")
        /\ \A n \in Names : stage[n] = "done"
    BY <1>5 DEF Barrier, AllDone
  <2>2. RenewedFor("vrf")
    BY <2>1 DEF Renewed, RenewedFor, RoleKinds
  <2>3. Renewed' /\ Seeded'
    BY <1>1, <1>2, <2>1, <2>2 DEF Renewed, RenewedFor, Seeded, TodoLinks
  <2> QED
    BY <1>3, <2>3
<1>6. CASE Barrier("remote", "nemgen", Todo)
  <2>1. pc = "remote" /\ pc' = "nemgen" /\ \A n \in Names : stage[n] = "done"
    BY <1>6 DEF Barrier, AllDone
  <2>2. RenewedFor("vrf") /\ RenewedFor("remote")
    BY <2>1 DEF Renewed, RenewedFor, RoleKinds
  <2>3. Renewed' /\ Seeded'
    BY <1>1, <1>2, <2>1, <2>2 DEF Renewed, RenewedFor, Seeded, RoleKinds
  <2> QED
    BY <1>3, <2>3
<1>7. CASE Nemgen
  <2>1. pc = "nemgen" /\ pc' = "seeds" /\ nemesis' = Created(bins)
    BY <1>7 DEF Nemgen, NemesisStep
  <2>2. nemesis'.links = bins
    BY <2>1 DEF Created, Origin
  <2>3. \A n \in Names, k \in RoleKinds : Linked(n, k) \in {0, bins[n][k]}
    BY <2>1 DEF Renewed, RenewedFor, RoleKinds
  <2>4. Seeded'
    <3> SUFFICES ASSUME NEW n \in Names, NEW k \in RoleKinds
                 PROVE  \/ nemesis'.links[n][k] = Linked(n, k)
                        \/ Linked(n, k) = 0 /\ \E c \in network.customs : Wants(c, n, k)
      BY <1>2 DEF Seeded, Wants
    <3>1. CASE bins[n][k] = 0
      BY <2>2, <2>3, <3>1
    <3>2. CASE bins[n][k] # 0
      BY <2>2, <2>3, <3>2 DEF Confined
    <3> QED
      BY <3>1, <3>2
  <2>5. Renewed'
    BY <2>1 DEF Renewed, RoleKinds
  <2> QED
    BY <1>3, <2>4, <2>5
<1> QED
  BY <1>4, <1>5, <1>6, <1>7

LEMMA LinksStep ==
    ASSUME TargetInv, LinksInv, Next
    PROVE  LinksInv'
<1>0. network' = network
  BY DEF Next
<1>1. /\ TypeOK /\ Memory /\ Folder /\ Upgrading /\ Sourced
  BY DEF TargetInv, History, LinksInv
<1>2. Sourced'
  BY <1>1, SourcedStep
<1> SUFFICES Confined' /\ Renewed' /\ Seeded'
  BY <1>2 DEF LinksInv
<1>3. Confined /\ Renewed /\ Seeded
  BY DEF LinksInv
<1>4. ASSUME NEW c \in Command, StartCommand(c) PROVE Confined' /\ Renewed' /\ Seeded'
  <2>1. bins' = bins /\ pc' \in {"dropCompose", "up", "reset", "check"}
    BY <1>4 DEF StartCommand, FirstLabel, disk
  <2> QED
    BY <1>0, <1>3, <2>1, ElsewhereLinks
<1>5. CASE Clean \/ Reset \/ ResetCut
  <2>1. \E gone : Delete(gone)
    BY <1>5 DEF Clean, Reset, ResetCut
  <2>2. bins' \in {bins, NoLinks}
    BY <2>1 DEF Delete
  <2>3. pc' \in {"idle", "check"}
    BY <1>5 DEF Clean, Reset, ResetCut, Exit
  <2> QED
    BY <1>0, <1>3, <2>2, <2>3, ElsewhereLinks
<1>6. CASE \/ ResetData \/ Reuse \/ Resolve \/ CleanUp \/ CleanUpCut \/ WritePreset
           \/ DropCompose \/ WriteCompose \/ Up \/ Abort
           \/ Barrier("certs", "nodes", Todo) \/ Barrier("nodes", "gateway", stage)
  <2>1. /\ bins' = bins
        /\ pc' \notin {"vrf", "remote", "nemgen", "seeds", "addresses", "preset"}
    BY <1>6 DEF ResetData, Reuse, Resolve, CleanUp, CleanUpCut, WritePreset, DropCompose,
       WriteCompose, Up, Abort, Barrier, Exit, disk
  <2> QED
    BY <1>0, <1>3, <2>1, ElsewhereLinks
<1>7. CASE GenerateGateway
  <2>1. bins' = bins /\ isUpgrade' = isUpgrade /\ cmd' = cmd
        /\ pc' = IF cmd.seed = 0 /\ isUpgrade THEN "seeds" ELSE "nemesis"
    BY <1>7 DEF GenerateGateway, run
  <2> QED
    BY <1>0, <1>3, <2>1, ElsewhereLinks
<1>8. CASE WriteAddresses \/ Barrier("seeds", "addresses", stage)
  <2>1. /\ bins' = bins /\ UNCHANGED <<addresses, preset, isUpgrade, cmd, nemesis>>
        /\ pc \in {"seeds", "addresses"} /\ pc' \in {"addresses", "preset"}
    BY <1>8 DEF WriteAddresses, Barrier, disk, run
  <2> QED
    BY <1>0, <1>3, <2>1, ElsewhereLinks
<1>9. CASE \/ DropNemesis /\ cmd.seed = 0
           \/ Nemgen
           \/ Barrier("vrf", "remote", TodoLinks("remote"))
           \/ Barrier("remote", "nemgen", Todo)
  BY <1>0, <1>1, <1>3, <1>9, NemesisLinks
<1>10. CASE CopyPresetNemesis \/ (DropNemesis /\ cmd.seed # 0)
  <2>1. bins' = bins /\ cmd' = cmd /\ pc' \in {"copy", "seeds"} /\ cmd.seed # 0
    BY <1>1, <1>10 DEF CopyPresetNemesis, DropNemesis, NemesisStep, run, Upgrading
  <2> QED
    BY <1>0, <1>3, <2>1, ElsewhereLinks
<1>11. ASSUME NEW n \in Names, NodeStep(n) PROVE Confined' /\ Renewed' /\ Seeded'
  BY <1>0, <1>1, <1>11, NodeStepLinks
<1> QED
  BY <1>4, <1>5, <1>6, <1>7, <1>8, <1>9, <1>10, <1>11 DEF Next, ConfigStep

\* The seed of a new network links the keys of its nodes, for all that stopped
\* attempts left (generateNemesisConfig, copyNemesis); links beyond these are
\* ones that another custom preset for the folder has called for.
THEOREM NewSeedsLinkTheirNodes == Spec => NemesisOfNodes
<1> DEFINE Own ==
      WritePreset /\ ~isUpgrade /\ cmd.seed = 0 =>
         \A n \in Names : \A k \in RoleKinds :
            \/ nemesis.links[n][k] = Linked(n, k)
            \/ /\ Linked(n, k) = 0
               /\ \E c \in network.customs \ {preset} : \E i \in DOMAIN c :
                    c[i].name = n /\ k \in c[i].roles /\ ~c[i].excluded
<1>1. Init => LinksInv
  <2>1. NoCommand.custom = NoFile
    BY DEF NoCommand
  <2> QED
    BY <2>1 DEF Init, LinksInv, Sourced, Confined, Renewed, Seeded, NoLinks, RoleKinds
<1>2. TargetInv /\ LinksInv /\ [Next]_vars => LinksInv'
  <2>1. CASE Next
    BY <2>1, LinksStep
  <2>2. CASE UNCHANGED vars
    <3> USE <2>2 DEF vars, disk, run
    <3>1. \A n, k : Linked(n, k)' = Linked(n, k)
      BY SameLinked
    <3>2. ASSUME LinksInv PROVE Confined' /\ Renewed' /\ Seeded'
      BY <3>1, <3>2 DEF LinksInv, Confined, Renewed, RenewedFor, Seeded, Wants
    <3>3. ASSUME LinksInv PROVE Sourced'
      BY <3>3 DEF LinksInv, Sourced, FromCustom, Alike
    <3> QED
      BY <3>2, <3>3 DEF LinksInv
  <2> QED
    BY <2>1, <2>2
<1>3. ASSUME TargetInv, LinksInv, WritePreset, ~isUpgrade, cmd.seed = 0,
             NEW n \in Names, NEW k \in RoleKinds, nemesis.links[n][k] # Linked(n, k)
      PROVE  /\ Linked(n, k) = 0
             /\ \E c \in network.customs \ {preset} : Wants(c, n, k)
  <2>1. pc = "preset" /\ pc \in Configuring
    BY <1>3 DEF WritePreset, Configuring, Changing
  <2>2. Linked(n, k) = 0 /\ \E c \in network.customs : Wants(c, n, k)
    BY <1>3, <2>1 DEF LinksInv, Seeded
  <2>3. ~Wants(preset, n, k)
    BY <1>3, <2>1, <2>2, LinkedKey DEF TargetInv, Memory, LinksInv
  <2> QED
    BY <2>2, <2>3
<1>4. TargetInv /\ LinksInv /\ [Next]_vars => [Own]_vars
  BY <1>3 DEF Wants
<1> QED
  BY <1>1, <1>2, <1>4, Invariance, PTL DEF Spec, NemesisOfNodes
=============================================================================
