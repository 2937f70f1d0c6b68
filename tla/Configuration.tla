----------------------------- MODULE Configuration -----------------------------
(***************************************************************************)
(* How a validator comes from its settings: NewFromConfig takes one step    *)
(* after the other (internal/validator/validator.go, internal/identities,   *)
(* internal/utils); the first one that fails ends the program.  Templates   *)
(* are executed with the fields that are set by then.                       *)
(*                                                                         *)
(* A path is what becomes of it: "plain", "relative" (still to be resolved: *)
(* a name found through PATH, or a path that does not begin at the root),   *)
(* "html" (with a character that html/template escapes, such as +),         *)
(* "space", "missing", or "" if it is not given.  A template is a sequence  *)
(* of words: field names and others.                                        *)
(***************************************************************************)
EXTENDS Naturals, SequencesExt

CONSTANT Settings  \* what may be found in the configuration file

Roles == {"active", "passive"}
Other(r) == IF r = "active" THEN "passive" ELSE "active"
Fields == {"Bin", "LedgerDir", "active.KeyFile", "passive.KeyFile",
           "PublicIP", "Hostname"}
KeyFile(r) == IF r = "active" THEN "active.KeyFile" ELSE "passive.KeyFile"
Services == 4  \* how many services are asked for the public address

Paths == {"plain", "relative", "html", "space", "missing", ""}

ASSUME SettingsAssumption ==
    \A s \in Settings :
        /\ s.bin \in Paths /\ s.ledgerDir \in Paths /\ s.keyFile \in [Roles -> Paths]
        /\ s.setIdentity \in [Roles -> Seq(STRING)] /\ s.rollback \in [Roles -> Seq(STRING)]

VARIABLES
    settings,   \* what is found there
    step,       \* the next step of NewFromConfig, "configured" or "rejected"
    field,      \* the fields of the validator set so far, "" for those not set
    command,    \* per role, the words of the command that takes it
    rollback,   \* per role, the words of the command that goes back to it
    asked,      \* services asked for the public address
    role        \* the role that gossip shows this host in

configured == <<field, command, rollback>>
configVars == <<settings, step, configured, asked, role>>

ConfigInit ==
    /\ settings \in Settings
    /\ step = "rpc"
    /\ field = [f \in Fields |-> ""]
    /\ command = [r \in Roles |-> <<>>] /\ rollback = [r \in Roles |-> <<>>]
    /\ asked = 0 /\ role = "unknown"

At(name) == step = name
GoOn(ok, next) == step' = IF ok THEN next ELSE "rejected"
Set(f, path) == field' = [field EXCEPT ![f] = path]

configureRPCClient ==
    /\ At("rpc")
    /\ GoOn(/\ settings.cluster # "" /\ settings.rpcAddress = "port"
            /\ settings.clusterRPC # "" \/ settings.cluster = "known"
            /\ settings.slotDuration = "duration", "bin")
    /\ UNCHANGED <<settings, configured, asked, role>>

(* The binary must be found; what is kept is the name as it is given. *)
configureBin ==
    /\ At("bin")
    /\ GoOn(settings.bin \notin {"missing", ""}, "ledger")
    /\ Set("Bin", settings.bin)
    /\ UNCHANGED <<settings, command, rollback, asked, role>>

(* ResolveAndValidateDir *)
IsDir(path) == path \notin {"missing", ""}
Resolved(path) == IF path = "relative" THEN "plain" ELSE path

configureLedgerDir ==
    /\ At("ledger")
    /\ GoOn(IsDir(settings.ledgerDir), "identities")
    /\ Set("LedgerDir", Resolved(settings.ledgerDir))
    /\ UNCHANGED <<settings, command, rollback, asked, role>>

(* A key file counts before a public key; with neither there is no identity, *)
(* with a public key alone no key file.  Its path is kept as it is given.   *)
Identity(r) ==
    CASE settings.keyFile[r] # "" -> IF settings.keyFile[r] = "missing" THEN "bad" ELSE r
      [] settings.pubkey[r] # "" -> settings.pubkey[r]
      [] OTHER -> "bad"

configureIdentities ==
    /\ At("identities")
    /\ GoOn(/\ \A r \in Roles : Identity(r) # "bad"
            /\ Identity("active") # Identity("passive"), "tower")
    /\ field' = [f \in Fields |->
                   IF \E r \in Roles : f = KeyFile(r)
                   THEN settings.keyFile[CHOOSE r \in Roles : f = KeyFile(r)]
                   ELSE field[f]]
    /\ UNCHANGED <<settings, command, rollback, asked, role>>

(* Template execution.  A broken template does not parse or execute.  The   *)
(* text is split at every space, and html/template has escaped the values.  *)
Executes(template) == \A i \in DOMAIN template : template[i] # "broken"

WordsOf(word) ==
    IF word \notin Fields THEN <<<<word, "literal">>>>
    ELSE CASE field[word] = "plain" -> <<<<word, "value">>>>
           [] field[word] = "relative" -> <<<<word, "unresolved">>>>
           [] field[word] = "html" -> <<<<word, "escaped">>>>
           [] field[word] = "space" -> <<<<word, "first half">>, <<word, "second half">>>>
           [] OTHER -> <<<<word, "empty">>>>
Expanded(template) == FlattenSeq([i \in DOMAIN template |-> WordsOf(template[i])])

(* A template that expands to the empty text gives no command: that of one  *)
(* field which is not set.                                                  *)
Execute(template) ==
    LET words == Expanded(template)
    IN  IF Len(words) = 1 /\ words[1][2] = "empty" THEN <<>> ELSE words

configureTowerFile ==
    /\ At("tower")
    /\ GoOn(IsDir(settings.towerDir) /\ Executes(settings.towerName), "commands")
    /\ UNCHANGED <<settings, configured, asked, role>>

configureSetIdenttiyCommands ==
    /\ At("commands")
    /\ LET ok == \A r \in Roles : Executes(settings.setIdentity[r]) IN
         /\ GoOn(ok, "rollback")
         /\ command' = IF ok THEN [r \in Roles |-> Execute(settings.setIdentity[r])]
                       ELSE command
    /\ UNCHANGED <<settings, field, rollback, asked, role>>

(* Mutant: the default of a rollback is the command of the other role. *)
configureRollbackSwapped ==
    /\ At("rollback")
    /\ LET ok == \A r \in Roles : Executes(settings.rollback[r]) IN
         /\ GoOn(ok, "peers")
         /\ rollback' = IF ~ok THEN rollback
                        ELSE [r \in Roles |-> IF settings.rollback[r] = <<>>
                                              THEN command[Other(r)]
                                              ELSE Execute(settings.rollback[r])]
    /\ UNCHANGED <<settings, field, command, asked, role>>

(* Without a template of its own the rollback to a role is the command that *)
(* takes it.                                                                *)
configureRollback ==
    /\ At("rollback")
    /\ LET ok == \A r \in Roles : Executes(settings.rollback[r]) IN
         /\ GoOn(ok, "peers")
         /\ rollback' = IF ~ok THEN rollback
                        ELSE [r \in Roles |-> IF settings.rollback[r] = <<>>
                                              THEN command[r]
                                              ELSE Execute(settings.rollback[r])]
    /\ UNCHANGED <<settings, field, command, asked, role>>

configurePeers ==
    /\ At("peers")
    /\ GoOn(settings.peers # {} /\ "noPort" \notin settings.peers, "address")
    /\ UNCHANGED <<settings, configured, asked, role>>

(* GetPublicIP: one service after the other until one gives a valid public  *)
(* address.  A service may not answer, or answer something else.            *)
configurePublicIP ==
    /\ At("address")
    /\ \/ /\ settings.publicIP # "" \/ asked < Services
          /\ step' = "time" /\ Set("PublicIP", "plain") /\ UNCHANGED asked
       \/ /\ settings.publicIP = "" /\ asked < Services
          /\ asked' = asked + 1
          /\ step' = IF asked' = Services THEN "rejected" ELSE step
          /\ UNCHANGED field
    /\ UNCHANGED <<settings, command, rollback, role>>

(* The minimum time to the leader slot, and the name or that of the system. *)
configureTimeAndHostname ==
    /\ At("time")
    /\ GoOn(settings.minTime = "duration", "gossip")
    /\ Set("Hostname", "plain")
    /\ UNCHANGED <<settings, command, rollback, asked, role>>

(* The node at the public address.  An identity that is neither of the two  *)
(* is as good as the passive one (IsActive).                                *)
configureGossipNode ==
    /\ At("gossip")
    /\ \/ step' = "server" /\ role' \in Roles
       \/ step' = "rejected" /\ UNCHANGED role
    /\ UNCHANGED <<settings, configured, asked>>

configureServer ==
    /\ At("server")
    /\ GoOn(settings.samples >= 1 /\ settings.interval = "duration", "tls")
    /\ UNCHANGED <<settings, configured, asked, role>>

(* ResolvePath, BuildMTLSServerConfig and BuildMTLSClientConfig *)
configureTLS ==
    /\ At("tls")
    /\ GoOn(settings.tls.enabled => settings.tls.files \notin {"missing", ""}, "configured")
    /\ UNCHANGED <<settings, configured, asked, role>>

NewFromConfig ==
    \/ configureRPCClient \/ configureBin \/ configureLedgerDir \/ configureIdentities
    \/ configureTowerFile \/ configureSetIdenttiyCommands \/ configureRollback
    \/ configurePeers \/ configurePublicIP \/ configureTimeAndHostname
    \/ configureGossipNode \/ configureServer \/ configureTLS
-------------------------------------------------------------------------------
Steps == {"rpc", "bin", "ledger", "identities", "tower", "commands", "rollback",
          "peers", "address", "time", "gossip", "server", "tls"}
Kinds == {"literal", "value", "unresolved", "escaped", "first half", "second half", "empty"}
Words == Seq(STRING \X Kinds)

(* Every variable keeps its type. *)
ConfigTypeOK ==
    /\ settings \in Settings
    /\ step \in Steps \cup {"configured", "rejected"}
    /\ field \in [Fields -> Paths]
    /\ command \in [Roles -> Words] /\ rollback \in [Roles -> Words]
    /\ asked \in 0 .. Services /\ role \in Roles \cup {"unknown"}

(* What README.md:233-238 says of the templates: .Bin and .LedgerDir are    *)
(* resolved absolute paths, and key files the paths that were given.  The   *)
(* code contradicts it for .Bin: a name that is found through PATH, or a    *)
(* relative path, is kept as it is given (validator.go:315-323).            *)
Meant(template) ==
    [i \in DOMAIN template |->
        IF template[i] \in Fields THEN <<template[i], "value">>
        ELSE <<template[i], "literal">>]
MeantRollback(r) ==
    IF settings.rollback[r] = <<>> THEN settings.setIdentity[r] ELSE settings.rollback[r]

(* The fields that README.md offers, with a path that goes through          *)
(* unharmed: no space and nothing that HTML escapes, a binary and key files *)
(* given by absolute paths (LedgerDir is made one), and an identity given   *)
(* by a key file, not by its public key alone.                              *)
Harmless(template) ==
    \A i \in DOMAIN template : template[i] \in Fields =>
        /\ template[i] \notin {"PublicIP", "Hostname"}
        /\ CASE template[i] = "Bin" -> settings.bin = "plain"
             [] template[i] = "LedgerDir" -> Resolved(settings.ledgerDir) = "plain"
             [] template[i] = KeyFile("active") -> settings.keyFile["active"] = "plain"
             [] OTHER -> settings.keyFile["passive"] = "plain"

(* The commands of a validator that is configured are those its templates   *)
(* mean, word for word, and the rollback of a role takes that very role, if *)
(* the paths are harmless: every field they use is set before they are      *)
(* executed.                                                                *)
CommandsAsMeant ==
    step = "configured" =>
        \A r \in Roles :
            /\ Harmless(settings.setIdentity[r]) =>
                  command[r] = Meant(settings.setIdentity[r])
            /\ Harmless(MeantRollback(r)) => rollback[r] = Meant(MeantRollback(r))
===============================================================================
