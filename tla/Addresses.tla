------------------------------ MODULE Addresses -----------------------------
(***************************************************************************)
(* The keys of a target folder: which private keys addresses.yml holds,     *)
(* plain or encrypted, in each privateKeySecurityMode, which ones are       *)
(* generated, and which ones the user is asked for.                         *)
(*                                                                         *)
(* The commands are config, updateVotingKeys and renewCertificates on the   *)
(* folder, encrypt and decrypt on the user's custom preset. A command may   *)
(* be killed, or fail, between two steps, also between the opening of a     *)
(* file (which empties it) and its writing. One node stands for all, since  *)
(* each resolves its own keys. The accounts that are generated for the      *)
(* nemesis mosaics are left out; their balances are in NemesisBalances.     *)
(*                                                                         *)
(* A key pair is a number. An account is what a file or the memory knows of *)
(* a pair: its public key and perhaps its private key; 0 is neither.        *)
(***************************************************************************)
EXTENDS Integers, NemesisBalances

CONSTANTS
    NodeKinds,       \* the KeyNames that the node may use
    PrivateNetwork,  \* shouldCreateNemesis: the network has a nemesis signer of its own
    CustomPresets,   \* the custom presets that the user writes
    UserKeys,        \* 1..UserKeys are the user's own key pairs
    MaxGenerations,  \* bound: commands that generate keys
    Passwords,       \* the passwords in use
    Requests         \* the balances the preset may ask for (see NemesisBalances)

Signer == "Signer"

\* The key pairs that addresses.yml describes.
Kinds == NodeKinds \cup (IF PrivateNetwork THEN {Signer} ELSE {})

Modes == {"ENCRYPT", "PROMPT_MAIN", "PROMPT_MAIN_TRANSPORT", "PROMPT_ALL"}

Account == [public : Nat, private : Nat]
KeysOf(public, private) == [public |-> public, private |-> private]
NoAccount == KeysOf(0, 0)
Nobody == [k \in Kinds |-> NoAccount]

\* The keys that depend on the roles of the node: it has a VRF key if it
\* harvests, and a remote key if it harvests or votes with a remote account.
RoleKinds == NodeKinds \ {"Main", "Transport"}

\* What presets say of the keys: privateKeySecurityMode, which is ENCRYPT by
\* default, the key fields, and the keys that the roles call for, which are
\* all of them unless the user's preset says otherwise.
CustomPreset == [mode : Modes, keys : [Kinds -> Account], roles : SUBSET RoleKinds]
NoCustomPreset == [mode |-> "ENCRYPT", keys |-> Nobody, roles |-> RoleKinds]

\* The keys that a preset calls for.
Called(custom) == Kinds \ (RoleKinds \ custom.roles)

NoPassword == 0

ASSUME AddressesAssumption ==
    /\ {"Main", "Transport"} \subseteq NodeKinds
    /\ NodeKinds \subseteq {"Main", "Transport", "Remote", "VRF"}
    /\ PrivateNetwork \in BOOLEAN
    /\ UserKeys \in Nat
    /\ CustomPresets \subseteq CustomPreset
    /\ \A c \in CustomPresets : \A k \in Kinds :
         c.keys[k].public <= UserKeys /\ c.keys[k].private <= UserKeys
    /\ MaxGenerations \in Nat
    /\ Passwords \subseteq Nat \ {NoPassword}

ASSUME BalancesAssumption == Requests \subseteq BalancesRequest

VARIABLES
    customFile,  \* the user's custom preset, and the password it is encrypted with
    addresses,   \* addresses.yml: its accounts and their password
    preset,      \* preset.yml: the custom preset cache, without private keys
    cert,        \* the main and transport keys of the node's certificates
    pc,          \* the next step of the running command, or "idle"
    memory,      \* what the command goes by
    account,     \* the accounts in its memory
    request,     \* the balances asked for and given, while a network is created
    given,
    asked,       \* the private keys <<kind, public key>> just prompted for
    made,        \* how many commands have generated keys
    seen         \* the generated private keys addresses.yml has ever stored

files == <<addresses, preset, cert>>
vars == <<customFile, files, pc, memory, account, request, given, asked, made, seen>>

States == {"absent", "empty", "whole"}
NoAddresses == [state |-> "absent", accounts |-> Nobody, cipher |-> NoPassword]
NoPreset == [state |-> "absent", custom |-> NoCustomPreset]
NoCert == [main |-> 0, transport |-> 0]
NoRequest ==
    [supply |-> 0, maxHarvesterBalance |-> 0, accounts |-> 0, fixed |-> <<>>, nodes |-> <<>>]

\* command, password, custom preset in force and addresses.yml as loaded.
NoMemory == [command |-> "none", password |-> NoPassword, custom |-> NoCustomPreset,
             old |-> NoAddresses]

AddressesFile == [state : States, accounts : [Kinds -> Account], cipher : Nat]

TypeOK ==
    /\ customFile \in [custom : CustomPreset, cipher : Nat]
    /\ addresses \in AddressesFile
    /\ preset \in [state : States, custom : CustomPreset]
    /\ cert \in [main : Nat, transport : Nat]
    /\ pc \in {"idle", "balances", "distributed", "certificates", "nodes", "nemesis", "open",
               "fill", "openPreset", "fillPreset"}
    /\ memory \in [command : {"none", "config", "update"}, password : Nat,
                   custom : CustomPreset, old : AddressesFile]
    /\ account \in [Kinds -> Account]
    /\ request \in Requests \cup {NoRequest}
    /\ asked \subseteq (Kinds \X Nat)
    /\ made \in Nat
    /\ seen \subseteq (Kinds \X Nat)

Init ==
    /\ customFile \in [custom : CustomPresets, cipher : {NoPassword}]
    /\ addresses = NoAddresses /\ preset = NoPreset /\ cert = NoCert
    /\ pc = "idle" /\ memory = NoMemory /\ account = Nobody
    /\ request = NoRequest /\ given = Refused
    /\ asked = {} /\ made = 0 /\ seen = {}

-----------------------------------------------------------------------------
(* CryptoUtils and YamlUtils.                                               *)

\* The kinds whose private keys a mode does not store.
Dropped(mode) ==
    IF mode = "PROMPT_ALL" THEN Kinds
    ELSE IF mode = "PROMPT_MAIN" THEN {"Main"}
    ELSE IF mode = "PROMPT_MAIN_TRANSPORT" THEN {"Main", "Transport"}
    ELSE {}

\* removePrivateKeys
WithoutPrivate(accounts, kinds) ==
    [k \in Kinds |-> IF k \in kinds THEN KeysOf(accounts[k].public, 0) ELSE accounts[k]]

\* removePrivateKeysAccordingToSecurityMode
Reduced(accounts, mode) == WithoutPrivate(accounts, Dropped(mode))

\* writeYaml with a password encrypts the private keys, if there are any.
Cipher(accounts, password) ==
    IF \E k \in Kinds : accounts[k].private # 0 THEN password ELSE NoPassword

\* loadYaml decrypts what is encrypted, with the right password only; without
\* one it throws if anything is.
CanLoad(cipher, password) == cipher \in {NoPassword, password}

-----------------------------------------------------------------------------
(* AddressesService: the accounts that a configuration works with.          *)

\* JavaScript's a || b.
Or(a, b) == IF a # 0 THEN a ELSE b

\* toAccount throws on two keys that are no pair.
IsPair(public, private) == public = 0 \/ private = 0 \/ public = private
ToAccount(keys) == KeysOf(Or(keys.private, keys.public), keys.private)

\* Mutant: only the main key is never generated unless it is stored.
RefusesMainOnly(k, mode) == k = "Main" /\ mode # "ENCRYPT"

\* resolveGenerateErrorMessage: keys that would not be stored anywhere.
RefusesToGenerate(k, mode) ==
    \/ k = "Main" /\ mode # "ENCRYPT"
    \/ k = "Transport" /\ mode = "PROMPT_MAIN_TRANSPORT"
    \/ mode = "PROMPT_ALL"

\* generateNewAccount: the next pair (of any kind).
Fresh == UserKeys + made + 1
Generated == KeysOf(Fresh, Fresh)

\* Mutant: the provided account, perhaps without a private key, as it is.
ResolveAccountUnmerged(old, new) ==
    IF new = NoAccount THEN IF old = NoAccount THEN Generated ELSE old ELSE new

\* resolveAccount: the provided account replaces the stored one, and is
\* merged with it if they are the same; failing both, one is generated.
ResolveAccount(old, new) ==
    IF new = NoAccount THEN IF old = NoAccount THEN Generated ELSE old
    ELSE IF new.public = old.public THEN KeysOf(new.public, Or(new.private, old.private))
    ELSE new

\* Mutant: the stored private key is forgotten.
SignerKeysAnew(old, new) ==
    KeysOf(Or(new.public, old.public), Or(new.private, Fresh))

\* resolveNemesisAccount: private and public key are resolved on their own.
SignerKeys(old, new) ==
    KeysOf(Or(new.public, old.public), Or(Or(new.private, old.private), Fresh))

Resolved(k, old, new) ==
    IF k = Signer THEN ToAccount(SignerKeys(old, new))
    ELSE ResolveAccount(old, ToAccount(new))

\* resolveNodeAccounts: a key that is not called for is left out, whether
\* stored or provided.
ResolvedAll(old, custom) ==
    [k \in Kinds |-> IF k \in Called(custom) THEN Resolved(k, old[k], custom.keys[k])
                     ELSE NoAccount]

\* The kinds whose keys are generated.
Generates(old, custom) ==
    {k \in Called(custom) :
        IF k = Signer THEN old[k].private = 0 /\ custom.keys[k].private = 0
        ELSE old[k] = NoAccount /\ custom.keys[k] = NoAccount}

\* resolveAddresses does not throw.
Resolves(old, custom) ==
    /\ \A k \in Called(custom) \cap NodeKinds :
         IsPair(custom.keys[k].public, custom.keys[k].private)
    /\ \A k \in Generates(old, custom) \cap NodeKinds :
         ~RefusesToGenerate(k, custom.mode)
    /\ PrivateNetwork =>
         LET keys == SignerKeys(old[Signer], custom.keys[Signer])
         IN  IsPair(keys.public, keys.private)

-----------------------------------------------------------------------------
(* The user's custom preset.                                                *)

WriteCustom ==
    /\ pc = "idle"
    /\ \E c \in CustomPresets : customFile' = [custom |-> c, cipher |-> NoPassword]
    /\ asked' = {}
    /\ UNCHANGED <<files, pc, memory, account, request, given, made, seen>>

\* The encrypt command refuses a file that is encrypted.
Encrypt ==
    /\ pc = "idle" /\ customFile.cipher = NoPassword
    /\ \E p \in Passwords :
         customFile' = [custom |-> customFile.custom, cipher |-> Cipher(customFile.custom.keys, p)]
    /\ asked' = {}
    /\ UNCHANGED <<files, pc, memory, account, request, given, made, seen>>

Decrypt ==
    /\ pc = "idle"
    /\ \E p \in Passwords : CanLoad(customFile.cipher, p)
    /\ customFile' = [custom |-> customFile.custom, cipher |-> NoPassword]
    /\ asked' = {}
    /\ UNCHANGED <<files, pc, memory, account, request, given, made, seen>>

-----------------------------------------------------------------------------
(* config.                                                                  *)

\* --reset deletes the folder, or part of it if it is killed; the rest of the
\* command is StartConfig.
Reset ==
    /\ pc = "idle"
    /\ addresses' \in {addresses, NoAddresses}
    /\ preset' \in {preset, NoPreset}
    /\ cert' \in {cert, NoCert}
    /\ asked' = {}
    /\ UNCHANGED <<customFile, pc, memory, account, request, given, made, seen>>

\* The first configuration of a folder, or an upgrade of a whole one.
Configurable ==
    \/ addresses.state = "absent" /\ preset.state # "whole"
    \/ addresses.state = "whole" /\ preset.state = "whole"

\* resolvedCustomPreset: the file if one is given, or else the cache.
Customs(password) ==
    {preset.custom} \cup
        (IF CanLoad(customFile.cipher, password) THEN {customFile.custom} ELSE {})

\* From the start of the command to its first prompt or change of a file.
StartConfig ==
    /\ pc = "idle" /\ Configurable
    /\ \E p \in Passwords \cup {NoPassword},
          c \in CustomPresets \cup {NoCustomPreset, preset.custom} :
         /\ CanLoad(addresses.cipher, p)
         /\ c \in Customs(p)
         /\ Resolves(addresses.accounts, c)
         /\ LET generates == Generates(addresses.accounts, c) # {}
            IN  /\ generates => made < MaxGenerations
                /\ made' = IF generates THEN made + 1 ELSE made
         /\ memory' = [command |-> "config", password |-> p, custom |-> c, old |-> addresses]
         /\ account' = ResolvedAll(addresses.accounts, c)
    /\ pc' = IF PrivateNetwork /\ addresses.state = "absent" THEN "balances"
             ELSE "certificates"
    /\ asked' = {}
    /\ UNCHANGED <<customFile, files, request, given, seen>>

\* processNemesisBalances, for a network that is created.
DistributeBalances ==
    /\ pc = "balances"
    /\ request' \in Requests
    /\ given' = Distribution(request')
    /\ pc' = "distributed"
    /\ asked' = {}
    /\ UNCHANGED <<customFile, files, memory, account, made, seen>>

\* What BootstrapAccountResolver prompts for: private keys that are missing.
Missing(accounts, kinds) == {k \in kinds : accounts[k].private = 0}

\* The user is asked for the private keys of kinds and enters them.
Prompt(kinds) ==
    /\ account' = [k \in Kinds |->
           IF k \in kinds THEN KeysOf(account[k].public, account[k].public) ELSE account[k]]
    /\ asked' = {<<k, account[k].public>> : k \in Missing(account, kinds)}

CertOf(accounts) ==
    [main |-> accounts["Main"].public, transport |-> accounts["Transport"].public]

\* CertificateService.run, as a whole: see module Certificates.
GenerateCertificates ==
    /\ pc = "certificates" \/ (pc = "distributed" /\ given # Refused)
    /\ cert' = CertOf(account)
    /\ Prompt(IF cert # CertOf(account) THEN {"Main", "Transport"} ELSE {})
    /\ pc' = "nodes"
    /\ request' = NoRequest /\ given' = Refused
    /\ UNCHANGED <<customFile, addresses, preset, memory, made, seen>>

\* generateNodeConfiguration: a harvesting node, which is one with a VRF key,
\* has its keys in its properties.
HarvestingKinds ==
    IF "VRF" \notin memory.custom.roles THEN {}
    ELSE {"VRF", IF "Remote" \in memory.custom.roles THEN "Remote" ELSE "Main"}

GenerateNodes ==
    /\ pc = "nodes"
    /\ Prompt(HarvestingKinds)
    /\ pc' = IF PrivateNetwork /\ memory.old.state = "absent" THEN "nemesis" ELSE "open"
    /\ UNCHANGED <<customFile, files, memory, request, given, made, seen>>

\* generateNemesisConfig, for a network that is created: the main key signs
\* the link transactions of a node that is not excludeFromNemesis.
GenerateNemesis ==
    /\ pc = "nemesis"
    /\ \E excluded \in BOOLEAN : Prompt(IF excluded THEN {} ELSE {"Main"})
    /\ pc' = "open"
    /\ UNCHANGED <<customFile, files, memory, request, given, made, seen>>

\* The commands' writeFile of addresses.yml empties the file, then fills it.
OpenAddresses ==
    /\ pc = "open"
    /\ addresses' = [state |-> "empty", accounts |-> Nobody, cipher |-> NoPassword]
    /\ pc' = "fill" /\ asked' = {}
    /\ UNCHANGED <<customFile, preset, cert, memory, account, request, given, made, seen>>

\* Mutant: the update, which has no password, writes what it has decrypted.
UpdateCipherNone(accounts) == NoPassword

\* updateVotingKeys neither decrypts nor encrypts what it has loaded.
UpdateCipher(accounts) == Cipher(accounts, memory.old.cipher)

FillAddresses ==
    /\ pc = "fill"
    /\ LET stored == Reduced(account, memory.custom.mode)
       IN  /\ addresses' = [state |-> "whole", accounts |-> stored, cipher |->
                  IF memory.command = "update" THEN UpdateCipher(stored)
                  ELSE Cipher(stored, memory.password)]
           /\ seen' = seen \cup {<<k, stored[k].private>> : k \in Kinds}
    /\ IF memory.command = "update" THEN pc' = "idle" /\ memory' = NoMemory /\ account' = Nobody
       ELSE pc' = "openPreset" /\ UNCHANGED <<memory, account>>
    /\ asked' = {}
    /\ UNCHANGED <<customFile, preset, cert, request, given, made>>

OpenPreset ==
    /\ pc = "openPreset"
    /\ preset' = [state |-> "empty", custom |-> NoCustomPreset]
    /\ pc' = "fillPreset" /\ asked' = {}
    /\ UNCHANGED <<customFile, addresses, cert, memory, account, request, given, made, seen>>

\* preset.yml has no private keys, and so nothing to encrypt.
FillPreset ==
    /\ pc = "fillPreset"
    /\ preset' = [state |-> "whole", custom |->
           [memory.custom EXCEPT !.keys = WithoutPrivate(memory.custom.keys, Kinds)]]
    /\ pc' = "idle" /\ memory' = NoMemory /\ account' = Nobody /\ asked' = {}
    /\ UNCHANGED <<customFile, addresses, cert, request, given, made, seen>>

-----------------------------------------------------------------------------
(* The other commands on the folder.                                        *)

\* updateVotingKeys, when a node has new voting keys (module VotingKeys): it
\* goes by preset.yml, and writes addresses.yml only.
StartUpdate ==
    /\ pc = "idle"
    /\ addresses.state = "whole" /\ preset.state = "whole"
    /\ memory' = [command |-> "update", password |-> NoPassword, custom |-> preset.custom,
                  old |-> addresses]
    /\ account' = addresses.accounts
    /\ pc' = "open" /\ asked' = {}
    /\ UNCHANGED <<customFile, files, request, given, made, seen>>

\* renewCertificates, when a certificate is renewed or made anew: it reads
\* both files, and writes neither. The keys may also be in the custom preset.
Renew ==
    /\ pc = "idle"
    /\ addresses.state = "whole" /\ preset.state = "whole"
    /\ \E p \in Passwords \cup {NoPassword},
          c \in CustomPresets \cup {NoCustomPreset, preset.custom} :
         /\ CanLoad(addresses.cipher, p)
         /\ c \in Customs(p)
         /\ asked' = {<<k, addresses.accounts[k].public>> :
                k \in {k \in Missing(addresses.accounts, {"Main", "Transport"}) :
                          c.keys[k].private # addresses.accounts[k].public}}
    /\ cert' = CertOf(addresses.accounts)
    /\ UNCHANGED <<customFile, addresses, preset, pc, memory, account, request, given, made, seen>>

\* A command is killed, or a call of it throws.
Abort ==
    /\ pc # "idle"
    /\ pc' = "idle" /\ memory' = NoMemory /\ account' = Nobody
    /\ request' = NoRequest /\ given' = Refused /\ asked' = {}
    /\ UNCHANGED <<customFile, files, made, seen>>

Next ==
    \/ WriteCustom \/ Encrypt \/ Decrypt
    \/ Reset \/ StartConfig \/ DistributeBalances \/ GenerateCertificates \/ GenerateNodes
    \/ GenerateNemesis
    \/ OpenAddresses \/ FillAddresses \/ OpenPreset \/ FillPreset
    \/ StartUpdate \/ Renew \/ Abort

Spec == Init /\ [][Next]_vars

-----------------------------------------------------------------------------
\* Whenever the program asks for a private key, the user can know it: it is
\* one of the user's own, or addresses.yml has stored it. A key that was
\* generated and is stored nowhere would be asked for in vain, for ever.
PromptsAnswerable == \A a \in asked : a[2] <= UserKeys \/ a \in seen

\* Keys that addresses.yml holds encrypted are never written in plain again,
\* whichever command writes it and whatever password it is given.
NeverPlainAgain ==
    [][FillAddresses => \/ memory.old.cipher = NoPassword
                        \/ addresses'.cipher = memory.old.cipher
                        \/ \A k \in Kinds : addresses'.accounts[k].private = 0]_vars

\* No command loses a private key that addresses.yml has stored, while its
\* public key stays and the mode in force does not say that it is dropped.
StoredKept ==
    [][FillAddresses => \A k \in Kinds \ Dropped(memory.custom.mode) :
           addresses'.accounts[k].public = memory.old.accounts[k].public =>
               memory.old.accounts[k].private \in {0, addresses'.accounts[k].private}]_vars

\* A folder whose configuration completed can be upgraded without a custom
\* preset, unless the mode dropped the nemesis signer's private key (which
\* nothing asks for: it is then generated anew and does not fit).
CompletedUpgrades ==
    [][FillPreset /\ (PrivateNetwork => addresses.accounts[Signer].private # 0) =>
           Resolves(addresses.accounts, preset'.custom)]_vars

\* The balances of a new network are the whole supply and as the preset asks
\* for, and refused only if it cannot be met.
BalancesAsAsked ==
    pc = "distributed" =>
        IF Feasible(request) THEN AsAsked(request, given) ELSE given = Refused
=============================================================================
