---------------------------- MODULE HostRunProofs ----------------------------
(***************************************************************************)
(* Theorems about HostRun, for all settings, all hooks and every size of   *)
(* a pipe and of a scanner's buffer, in this order: what executing a       *)
(* template gives; the steps of NewFromConfig (ConfigInv); the stages of   *)
(* hooks (HooksInv); the run of the host (HostInv) and the theorems that   *)
(* follow from the three; rollbacks (Restores); the output of a hook       *)
(* (OutputInv).                                                            *)
(***************************************************************************)
EXTENDS HostRun, Integers, SequenceTheorems, FiniteSetTheorems, WellFoundedInduction, TLAPS

(* Induction up to a number, for a set in the place of a predicate. *)
LEMMA UpTo ==
    ASSUME NEW N \in Nat, NEW S, 0 \in S,
           \A n \in 0 .. N : n < N /\ n \in S => n + 1 \in S
    PROVE  \A n \in 0 .. N : n \in S
<1> DEFINE missing == {n \in 0 .. N : n \notin S}
<1>1. CASE missing = {}
  BY <1>1
<1>2. CASE missing # {}
  <2>1. missing \subseteq Nat
    OBVIOUS
  <2>2. PICK x \in missing : \A y \in missing : ~(<<y, x>> \in OpToRel(<, Nat))
    BY <1>2, <2>1, NatLessThanWellFounded, WFMin
  <2>3. \A y \in missing : ~(y < x)
    <3> TAKE y \in missing
    <3>1. y < x => <<y, x>> \in OpToRel(<, Nat)
      BY <2>1, Zenon DEF OpToRel
    <3> QED BY <2>2, <3>1, Zenon
  <2>4. x \in 0 .. N /\ x \notin S /\ x # 0
    OBVIOUS
  <2>5. x - 1 \in 0 .. N /\ x - 1 < x /\ x - 1 < N /\ (x - 1) + 1 = x
    BY <2>4
  <2>6. x - 1 \in S
    BY <2>3, <2>5
  <2> QED BY <2>4, <2>5, <2>6
<1> QED BY <1>1, <1>2

(* The function by which FlattenSeq is defined is what its definition says. *)
LEMMA FlattenDef ==
    ASSUME NEW X, NEW seqs \in Seq(Seq(X)), Len(seqs) # 0
    PROVE  \E g : /\ g = [i \in 1 .. Len(seqs) |-> IF i = 1 THEN seqs[i] ELSE g[i - 1] \o seqs[i]]
                  /\ FlattenSeq(seqs) = g[Len(seqs)]
<1> DEFINE N == Len(seqs)
           Rec(n, g) == g = [i \in 1 .. n |-> IF i = 1 THEN seqs[i] ELSE g[i - 1] \o seqs[i]]
           found == {n \in 0 .. N : \E g : Rec(n, g)}
<1>1. N \in Nat
  OBVIOUS
<1>2. 0 \in found
  <2>1. Rec(0, [i \in 1 .. 0 |-> <<>>])
    BY SMT
  <2>2. 0 \in 0 .. N
    BY <1>1
  <2> HIDE DEF Rec
  <2> QED BY <2>1, <2>2
<1>3. ASSUME NEW n \in 0 .. N, n < N, n \in found PROVE n + 1 \in found
  <2>1. PICK g : Rec(n, g)
    BY <1>3
  <2> DEFINE last == IF n = 0 THEN seqs[1] ELSE g[n] \o seqs[n + 1]
             h == [i \in 1 .. n + 1 |-> IF i = n + 1 THEN last ELSE g[i]]
  <2>2. ASSUME NEW i \in 1 .. n + 1
        PROVE  h[i] = IF i = 1 THEN seqs[i] ELSE h[i - 1] \o seqs[i]
    <3>1. CASE i = n + 1 /\ n = 0
      BY <1>1, <3>1
    <3>2. CASE i = n + 1 /\ n # 0
      <4>1. i - 1 \in 1 .. n + 1 /\ i - 1 = n /\ i # 1 /\ i - 1 # n + 1
        BY <1>1, <3>2
      <4> QED BY <3>2, <4>1
    <3>3. CASE i # n + 1
      <4>1. i \in 1 .. n
        BY <1>1, <3>3
      <4>2. g[i] = IF i = 1 THEN seqs[i] ELSE g[i - 1] \o seqs[i]
        BY <2>1, <4>1
      <4>3. i # 1 => i - 1 \in 1 .. n + 1 /\ i - 1 # n + 1
        BY <1>1, <4>1
      <4> QED BY <3>3, <4>2, <4>3
    <3> QED BY <3>1, <3>2, <3>3
  <2>3. h = [i \in 1 .. n + 1 |-> h[i]]
    OBVIOUS
  <2> HIDE DEF h
  <2>4. Rec(n + 1, h)
    BY <2>2, <2>3
  <2>5. n + 1 \in 0 .. N
    BY <1>1, <1>3
  <2> HIDE DEF Rec
  <2> QED BY <2>4, <2>5
<1> HIDE DEF found
<1>4. N \in found
  <2>1. \A n \in 0 .. N : n < N /\ n \in found => n + 1 \in found
    BY <1>3
  <2> HIDE DEF N
  <2>2. \A n \in 0 .. N : n \in found
    BY <1>1, <1>2, <2>1, UpTo, Zenon
  <2> QED BY <1>1, <2>2
<1>5. \E g : Rec(N, g)
  BY <1>4 DEF found
<1> DEFINE flatten[i \in 1 .. Len(seqs)] ==
             IF i = 1 THEN seqs[i] ELSE flatten[i - 1] \o seqs[i]
<1>6. flatten = [i \in 1 .. Len(seqs) |-> IF i = 1 THEN seqs[i] ELSE flatten[i - 1] \o seqs[i]]
  BY <1>5, Zenon
<1>7. FlattenSeq(seqs) = flatten[Len(seqs)]
  BY Zenon DEF FlattenSeq
<1> HIDE DEF flatten
<1> QED BY <1>6, <1>7, Zenon

(* Flattening sequences of words gives a sequence of words, of which each   *)
(* was in one of them, *)
LEMMA FlattenType ==
    ASSUME NEW X, NEW seqs \in Seq(Seq(X))
    PROVE  FlattenSeq(seqs) \in Seq(X)
<1>1. CASE Len(seqs) = 0
  BY <1>1, EmptySeq DEF FlattenSeq
<1>2. CASE Len(seqs) # 0
  <2>1. PICK g : /\ g = [i \in 1 .. Len(seqs) |-> IF i = 1 THEN seqs[i] ELSE g[i - 1] \o seqs[i]]
                 /\ FlattenSeq(seqs) = g[Len(seqs)]
    BY <1>2, FlattenDef, Zenon
  <2> DEFINE typed == {n \in 0 .. Len(seqs) : n # 0 => g[n] \in Seq(X)}
  <2>2. ASSUME NEW n \in 0 .. Len(seqs), n < Len(seqs), n \in typed
        PROVE  n + 1 \in typed
    <3>1. n + 1 \in 1 .. Len(seqs) /\ (n + 1) - 1 = n /\ (n + 1 = 1 <=> n = 0)
      BY <2>2
    <3>2. g[n + 1] = IF n = 0 THEN seqs[n + 1] ELSE g[n] \o seqs[n + 1]
      BY <2>1, <3>1
    <3>3. seqs[n + 1] \in Seq(X)
      BY <3>1
    <3>4. g[n + 1] \in Seq(X)
      <4>1. CASE n = 0
        BY <3>2, <3>3, <4>1
      <4>2. CASE n # 0
        <5>1. g[n] \in Seq(X)
          BY <2>2, <4>2
        <5> QED BY <3>2, <3>3, <4>2, <5>1, ConcatProperties
      <4> QED BY <4>1, <4>2
    <3> QED BY <3>1, <3>4
  <2>3. 0 \in typed /\ Len(seqs) \in Nat
    OBVIOUS
  <2>4. \A n \in 0 .. Len(seqs) : n < Len(seqs) /\ n \in typed => n + 1 \in typed
    BY <2>2
  <2> HIDE DEF typed
  <2>5. \A n \in 0 .. Len(seqs) : n \in typed
    BY <2>3, <2>4, UpTo, Zenon
  <2>6. Len(seqs) \in typed
    BY <2>3, <2>5
  <2> QED BY <1>2, <2>1, <2>6 DEF typed
<1> QED BY <1>1, <1>2

(* and flattening single words gives them in their order. *)
LEMMA FlattenSingles ==
    ASSUME NEW X, NEW words \in Seq(X)
    PROVE  FlattenSeq([i \in DOMAIN words |-> <<words[i]>>]) = words
<1> DEFINE seqs == [i \in DOMAIN words |-> <<words[i]>>]
           N == Len(words)
<1>1. seqs \in Seq(Seq(X)) /\ Len(seqs) = N /\ N \in Nat
  <2>1. DOMAIN words = 1 .. N /\ N \in Nat /\ \A i \in 1 .. N : <<words[i]>> \in Seq(X)
    OBVIOUS
  <2>2. seqs \in [1 .. N -> Seq(X)]
    BY <2>1
  <2> HIDE DEF seqs
  <2> QED BY <2>1, <2>2
<1>2. \A i \in 1 .. N : seqs[i] = <<words[i]>>
  OBVIOUS
<1> HIDE DEF seqs
<1>3. CASE N = 0
  <2>1. seqs = <<>> /\ words = <<>>
    BY <1>1, <1>3, EmptySeq
  <2> QED BY <1>1, <1>3, <2>1 DEF FlattenSeq, seqs
<1>4. CASE N # 0
  <2>1. PICK g : /\ g = [i \in 1 .. N |-> IF i = 1 THEN seqs[i] ELSE g[i - 1] \o seqs[i]]
                 /\ FlattenSeq(seqs) = g[N]
    BY <1>1, <1>4, FlattenDef, Zenon
  <2> DEFINE same == {n \in 0 .. N : n # 0 => g[n] = SubSeq(words, 1, n)}
  <2>2. ASSUME NEW n \in 0 .. N, n < N, n \in same
        PROVE  n + 1 \in same
    <3>1. n + 1 \in 1 .. N /\ (n + 1) - 1 = n /\ (n + 1 = 1 <=> n = 0)
      BY <1>1, <2>2
    <3>2. g[n + 1] = IF n = 0 THEN <<words[n + 1]>> ELSE g[n] \o <<words[n + 1]>>
      BY <1>2, <2>1, <3>1
    <3>3. CASE n = 0
      <4>1. SubSeq(words, 1, 1) = <<words[1]>>
        <5>1. SubSeq(words, 1, 1) = SubSeq(words, 1, 0) \o <<words[1]>>
          <6>1. 1 \in 1 .. Len(words) /\ 1 \in 1 .. 1
            BY <3>1, <3>3
          <6> QED BY <6>1, SubSeqRecursiveSecond
        <5>2. SubSeq(words, 1, 0) = <<>>
          BY SubSeqEmpty
        <5>3. <<words[1]>> \in Seq(X)
          BY <3>1, <3>3
        <5> QED BY <5>1, <5>2, <5>3, ConcatEmptySeq
      <4> QED BY <3>1, <3>2, <3>3, <4>1
    <3>4. CASE n # 0
      <4>1. SubSeq(words, 1, n) \o <<words[n + 1]>> = SubSeq(words, 1, n + 1)
        BY <3>1, <3>4
      <4> QED BY <2>2, <3>1, <3>2, <3>4, <4>1
    <3> QED BY <3>3, <3>4
  <2>3. 0 \in same
    BY <1>1
  <2>4. \A n \in 0 .. N : n < N /\ n \in same => n + 1 \in same
    BY <2>2
  <2> HIDE DEF same, N
  <2>5. \A n \in 0 .. N : n \in same
    BY <1>1, <2>3, <2>4, UpTo, Zenon
  <2>6. N \in same
    BY <1>1, <2>5
  <2>7. SubSeq(words, 1, N) = words
    BY DEF N
  <2> QED BY <1>4, <2>1, <2>6, <2>7 DEF same, seqs
<1> QED BY <1>3, <1>4
-------------------------------------------------------------------------------
(* The words of a command are those of its template, executed. *)
LEMMA ExecuteType ==
    ASSUME NEW template \in Seq(STRING)
    PROVE  /\ Execute(template) \in Words
           /\ \A i \in DOMAIN Execute(template) : Execute(template)[i][1] \in Range(template)
<1> DEFINE own == Range(template) \X Kinds
           seqs == [i \in DOMAIN template |-> WordsOf(template[i])]
<1>1. DOMAIN template = 1 .. Len(template) /\ Len(template) \in Nat
  OBVIOUS
<1>2. ASSUME NEW i \in 1 .. Len(template)
      PROVE  WordsOf(template[i]) \in Seq(own)
  <2>1. template[i] \in Range(template)
    BY <1>1 DEF Range
  <2> DEFINE w == template[i]
  <2> HIDE DEF w
  <2>2. ASSUME NEW k \in Kinds PROVE <<w, k>> \in own
    BY <2>1 DEF w
  <2>3. /\ "literal" \in Kinds /\ "value" \in Kinds /\ "unresolved" \in Kinds
        /\ "escaped" \in Kinds /\ "first half" \in Kinds /\ "second half" \in Kinds /\ "empty" \in Kinds
    BY DEF Kinds
  <2> HIDE DEF own
  <2>4. /\ \A p \in own : <<p>> \in Seq(own)
        /\ \A p, q \in own : <<p, q>> \in Seq(own)
    OBVIOUS
  <2>5. \/ \E k \in Kinds : WordsOf(w) = <<<<w, k>>>>
        \/ WordsOf(w) = <<<<w, "first half">>, <<w, "second half">>>>
    BY <2>3, Zenon DEF WordsOf
  <2>6. WordsOf(w) \in Seq(own)
    BY <2>2, <2>3, <2>4, <2>5, Zenon
  <2> QED BY <2>6 DEF w
<1>3. seqs \in [1 .. Len(template) -> Seq(own)]
  BY <1>1, <1>2
<1> HIDE DEF own, seqs
<1>4. seqs \in Seq(Seq(own))
  BY <1>1, <1>3
<1>5. Execute(template) \in Seq(own)
  <2>1. Expanded(template) \in Seq(own)
    BY <1>4, FlattenType DEF Expanded, seqs
  <2>2. Execute(template) = <<>> \/ Execute(template) = Expanded(template)
    BY DEF Execute
  <2> QED BY <2>1, <2>2, EmptySeq
<1>6. own \subseteq STRING \X Kinds
  BY <1>1 DEF own, Range
<1>7. Execute(template) \in Words
  BY <1>5, <1>6, SeqMonotonic DEF Words
<1>8. \A i \in DOMAIN Execute(template) : Execute(template)[i] \in own
  BY <1>5
<1> QED BY <1>7, <1>8 DEF own

(* A template whose fields are plain by then gives what it means. *)
LEMMA ExecuteMeant ==
    ASSUME NEW template \in Seq(STRING),
           \A i \in DOMAIN template : template[i] \in Fields => field[template[i]] = "plain"
    PROVE  Execute(template) = Meant(template)
<1> DEFINE meant == Meant(template)
<1>1. DOMAIN meant = DOMAIN template /\ DOMAIN template = 1 .. Len(template)
      /\ Len(template) \in Nat
  BY DEF Meant
<1>2. \A i \in DOMAIN template : WordsOf(template[i]) = <<meant[i]>>
  BY DEF Meant, WordsOf
<1>3. meant \in Seq(STRING \X Kinds)
  <2>1. ASSUME NEW i \in 1 .. Len(template) PROVE meant[i] \in STRING \X Kinds
    <3>1. template[i] \in STRING /\ "literal" \in Kinds /\ "value" \in Kinds
      BY DEF Kinds
    <3>2. meant[i] = IF template[i] \in Fields THEN <<template[i], "value">>
                     ELSE <<template[i], "literal">>
      BY <1>1 DEF Meant
    <3> HIDE DEF meant
    <3> QED BY <3>1, <3>2
  <2>2. meant \in [1 .. Len(template) -> STRING \X Kinds]
    BY <1>1, <2>1 DEF Meant
  <2> HIDE DEF meant
  <2> QED BY <1>1, <2>2
<1>4. Expanded(template) = FlattenSeq([i \in DOMAIN meant |-> <<meant[i]>>])
  <2>1. [i \in DOMAIN template |-> WordsOf(template[i])]
           = [i \in DOMAIN meant |-> <<meant[i]>>]
    BY <1>1, <1>2, Zenon
  <2> QED BY <2>1 DEF Expanded
<1>5. \A i \in DOMAIN template : meant[i][2] # "empty"
  BY DEF Meant
<1> HIDE DEF meant
<1>6. FlattenSeq([i \in DOMAIN meant |-> <<meant[i]>>]) = meant
  BY <1>3, FlattenSingles
<1>7. Expanded(template) = meant
  BY <1>4, <1>6
<1>8. Len(meant) = 1 => meant[1][2] # "empty"
  <2>1. Len(meant) = 1 => 1 \in DOMAIN meant
    BY <1>3
  <2> QED BY <1>1, <1>5, <2>1
<1>9. Execute(template) = meant
  BY <1>7, <1>8, Zenon DEF Execute
<1> QED BY <1>9 DEF meant

(* How far NewFromConfig has come. *)
BinSet == step \notin {"rpc", "bin", "rejected"}
LedgerDirSet == BinSet /\ step # "ledger"
KeyFilesSet == LedgerDirSet /\ step # "identities"
CommandsSet == KeyFilesSet /\ step \notin {"tower", "commands"}
RollbackSet == CommandsSet /\ step # "rollback"

FieldsKnown ==
    /\ BinSet => field["Bin"] = settings.bin
    /\ LedgerDirSet => field["LedgerDir"] = Resolved(settings.ledgerDir)
    /\ KeyFilesSet => \A r \in Roles : field[KeyFile(r)] = settings.keyFile[r]

(* The words come from the template, and are what it means if it is harmless. *)
ComesFrom(words, template) ==
    /\ \A i \in DOMAIN words : words[i][1] \in Range(template)
    /\ Harmless(template) => words = Meant(template)

CommandsKnown ==
    /\ CommandsSet => \A r \in Roles : ComesFrom(command[r], settings.setIdentity[r])
    /\ RollbackSet => \A r \in Roles : ComesFrom(rollback[r], MeantRollback(r))

ConfigInv ==
    /\ ConfigTypeOK /\ FieldsKnown /\ CommandsKnown
    /\ step \in {"server", "tls", "configured"} => role \in Roles

(* What is executed once the key files are set comes from its template. *)
LEMMA Executed ==
    ASSUME FieldsKnown, KeyFilesSet, NEW template \in Seq(STRING)
    PROVE  ComesFrom(Execute(template), template)
<1>1. ASSUME Harmless(template), NEW i \in DOMAIN template, template[i] \in Fields
      PROVE  field[template[i]] = "plain"
  <2>1. template[i] \in {"Bin", "LedgerDir", "active.KeyFile", "passive.KeyFile"}
    BY <1>1 DEF Harmless, Fields
  <2>2. /\ template[i] = "Bin" => settings.bin = "plain"
        /\ template[i] = "LedgerDir" => Resolved(settings.ledgerDir) = "plain"
        /\ template[i] = "active.KeyFile" => settings.keyFile["active"] = "plain"
        /\ template[i] = "passive.KeyFile" => settings.keyFile["passive"] = "plain"
    BY <1>1 DEF Harmless, KeyFile
  <2>3. /\ field["Bin"] = settings.bin /\ field["LedgerDir"] = Resolved(settings.ledgerDir)
        /\ field["active.KeyFile"] = settings.keyFile["active"]
        /\ field["passive.KeyFile"] = settings.keyFile["passive"]
    BY DEF FieldsKnown, KeyFilesSet, LedgerDirSet, KeyFile, Roles
  <2> QED BY <2>1, <2>2, <2>3
<1>2. Harmless(template) => Execute(template) = Meant(template)
  BY <1>1, ExecuteMeant
<1> QED BY <1>2, ExecuteType DEF ComesFrom

LEMMA ConfigInitOK == ConfigInit => ConfigInv
<1> SUFFICES ASSUME ConfigInit PROVE ConfigInv
  OBVIOUS
<1>1. command \in [Roles -> Words] /\ rollback \in [Roles -> Words]
  <2>1. <<>> \in Words
    BY EmptySeq DEF Words
  <2> QED BY <2>1 DEF ConfigInit
<1>2. ConfigTypeOK
  <2>1. field \in [Fields -> Paths]
    BY DEF ConfigInit, Paths
  <2>2. settings \in Settings /\ step = "rpc" /\ asked = 0 /\ role = "unknown"
    BY DEF ConfigInit
  <2>3. "rpc" \in Steps /\ 0 \in 0 .. Services
    BY DEF Steps, Services
  <2> QED BY <1>1, <2>1, <2>2, <2>3 DEF ConfigTypeOK
<1>3. FieldsKnown /\ CommandsKnown
  BY DEF ConfigInit, FieldsKnown, CommandsKnown, BinSet, LedgerDirSet, KeyFilesSet, CommandsSet,
     RollbackSet
<1> QED BY <1>2, <1>3 DEF ConfigInit, ConfigInv

(* Every step of NewFromConfig keeps what is known of the fields. *)
LEMMA FieldsKept ==
    ASSUME ConfigInv, NewFromConfig
    PROVE  FieldsKnown'
<1> USE DEF ConfigInv, FieldsKnown, BinSet, LedgerDirSet, KeyFilesSet, At, GoOn, Set, configured
<1>1. settings \in Settings /\ field \in [Fields -> Paths]
  BY DEF ConfigTypeOK
<1>2. CASE configureRPCClient \/ configureTowerFile \/ configureSetIdenttiyCommands
           \/ configureRollback \/ configurePeers \/ configureGossipNode \/ configureServer
           \/ configureTLS
  BY <1>2 DEF configureRPCClient, configureTowerFile, configureSetIdenttiyCommands,
     configureRollback, configurePeers, configureGossipNode, configureServer, configureTLS
<1>3. CASE configureBin
  BY <1>1, <1>3 DEF configureBin, Fields
<1>4. CASE configureLedgerDir
  BY <1>1, <1>4 DEF configureLedgerDir, Fields
<1>5. CASE configureIdentities
  <2>1. \A r \in Roles : (CHOOSE q \in Roles : KeyFile(r) = KeyFile(q)) = r
    BY DEF KeyFile, Roles
  <2>2. \A r \in Roles : KeyFile(r) \in Fields /\ KeyFile(r) \notin {"Bin", "LedgerDir"}
    BY DEF KeyFile, Fields
  <2>3. field' = [f \in Fields |->
                    IF \E r \in Roles : f = KeyFile(r)
                    THEN settings.keyFile[CHOOSE r \in Roles : f = KeyFile(r)]
                    ELSE field[f]]
    BY <1>5 DEF configureIdentities
  <2>4. \A r \in Roles : field'[KeyFile(r)] = settings.keyFile[r]
    BY <2>1, <2>2, <2>3
  <2>5. field'["Bin"] = field["Bin"] /\ field'["LedgerDir"] = field["LedgerDir"]
    BY <2>2, <2>3 DEF Fields
  <2> QED BY <1>5, <2>4, <2>5 DEF configureIdentities
<1>6. CASE configurePublicIP
  BY <1>1, <1>6 DEF configurePublicIP, Fields, KeyFile
<1>7. CASE configureTimeAndHostname
  BY <1>1, <1>7 DEF configureTimeAndHostname, Fields, KeyFile
<1> QED BY <1>2, <1>3, <1>4, <1>5, <1>6, <1>7 DEF NewFromConfig

(* The commands are executed when the fields they offer are set. *)
LEMMA CommandsKept ==
    ASSUME ConfigInv, NewFromConfig
    PROVE  CommandsKnown'
<1> USE DEF ConfigInv, At, GoOn, Set, configured
<1>1. /\ settings \in Settings
      /\ \A r \in Roles : /\ settings.setIdentity[r] \in Seq(STRING)
                          /\ settings.rollback[r] \in Seq(STRING)
  BY SettingsAssumption DEF ConfigTypeOK
<1>2. UNCHANGED settings
  BY DEF NewFromConfig, configureRPCClient, configureTowerFile, configureSetIdenttiyCommands,
     configureRollback, configurePeers, configureGossipNode, configureServer, configureTLS,
     configureBin, configureLedgerDir, configureIdentities, configurePublicIP,
     configureTimeAndHostname
<1>3. \A words, template : ComesFrom(words, template) => ComesFrom(words, template)'
  BY <1>2 DEF ComesFrom, Harmless, Meant
<1>4. \A r \in Roles : MeantRollback(r)' = MeantRollback(r)
  BY <1>2 DEF MeantRollback
<1>5. CASE configureSetIdenttiyCommands
  <2>1. KeyFilesSet
    BY <1>5 DEF configureSetIdenttiyCommands, KeyFilesSet, LedgerDirSet, BinSet
  <2>2. CommandsSet' => \A r \in Roles : command'[r] = Execute(settings.setIdentity[r])
    BY <1>5 DEF configureSetIdenttiyCommands, CommandsSet, KeyFilesSet, LedgerDirSet, BinSet
  <2>3. CommandsSet' => \A r \in Roles : ComesFrom(command'[r], settings.setIdentity[r])
    BY <1>1, <2>1, <2>2, Executed
  <2>4. ~RollbackSet'
    BY <1>5 DEF configureSetIdenttiyCommands, RollbackSet, CommandsSet, KeyFilesSet, LedgerDirSet,
       BinSet
  <2> QED BY <1>2, <1>3, <2>3, <2>4 DEF CommandsKnown
<1>6. CASE configureRollback
  <2>1. KeyFilesSet /\ CommandsSet /\ UNCHANGED command
    BY <1>6 DEF configureRollback, CommandsSet, KeyFilesSet, LedgerDirSet, BinSet
  <2>2. RollbackSet' => \A r \in Roles :
          rollback'[r] = IF settings.rollback[r] = <<>> THEN command[r]
                         ELSE Execute(settings.rollback[r])
    BY <1>6 DEF configureRollback, RollbackSet, CommandsSet, KeyFilesSet, LedgerDirSet, BinSet
  <2>3. RollbackSet' => \A r \in Roles : ComesFrom(rollback'[r], MeantRollback(r))
    BY <1>1, <2>1, <2>2, Executed DEF MeantRollback, CommandsKnown
  <2>4. \A r \in Roles : ComesFrom(command[r], settings.setIdentity[r])
    BY <2>1 DEF CommandsKnown
  <2> QED BY <1>2, <1>3, <1>4, <2>1, <2>3, <2>4 DEF CommandsKnown
<1>7. CASE NewFromConfig /\ ~configureSetIdenttiyCommands /\ ~configureRollback
  <2>1. UNCHANGED <<command, rollback>>
    BY <1>7 DEF NewFromConfig, configureRPCClient, configureTowerFile, configurePeers,
       configureGossipNode, configureServer, configureTLS, configureBin, configureLedgerDir,
       configureIdentities, configurePublicIP, configureTimeAndHostname
  <2>2. (CommandsSet' => CommandsSet) /\ (RollbackSet' => RollbackSet)
    BY <1>7 DEF NewFromConfig, configureRPCClient, configureTowerFile, configurePeers,
       configureGossipNode, configureServer, configureTLS, configureBin, configureLedgerDir,
       configureIdentities, configurePublicIP, configureTimeAndHostname, CommandsSet,
       RollbackSet, KeyFilesSet, LedgerDirSet, BinSet
  <2> QED BY <1>2, <1>3, <1>4, <2>1, <2>2 DEF CommandsKnown
<1> QED BY <1>5, <1>6, <1>7

(* Every step keeps the types. *)
LEMMA ConfigTypeKept ==
    ASSUME ConfigInv, NewFromConfig
    PROVE  ConfigTypeOK'
<1> USE DEF ConfigInv, ConfigTypeOK, At, GoOn, Set, configured
<1>1. settings' \in Settings
  BY DEF NewFromConfig, configureRPCClient, configureTowerFile, configureSetIdenttiyCommands,
     configureRollback, configurePeers, configureGossipNode, configureServer, configureTLS,
     configureBin, configureLedgerDir, configureIdentities, configurePublicIP,
     configureTimeAndHostname
<1>2. step' \in Steps \cup {"configured", "rejected"}
  BY DEF NewFromConfig, configureRPCClient, configureTowerFile, configureSetIdenttiyCommands,
     configureRollback, configurePeers, configureGossipNode, configureServer, configureTLS,
     configureBin, configureLedgerDir, configureIdentities, configurePublicIP,
     configureTimeAndHostname, Steps
<1>3. /\ settings.bin \in Paths /\ Resolved(settings.ledgerDir) \in Paths
      /\ settings.keyFile \in [Roles -> Paths] /\ "plain" \in Paths
      /\ \A r \in Roles : /\ settings.setIdentity[r] \in Seq(STRING)
                          /\ settings.rollback[r] \in Seq(STRING)
  BY SettingsAssumption DEF Paths, Resolved
<1>4. \A r \in Roles : /\ Execute(settings.setIdentity[r]) \in Words
                      /\ Execute(settings.rollback[r]) \in Words
  BY <1>3, ExecuteType
<1>5. command' \in [Roles -> Words]
  BY <1>4 DEF NewFromConfig, configureRPCClient, configureTowerFile,
     configureSetIdenttiyCommands, configureRollback, configurePeers, configureGossipNode,
     configureServer, configureTLS, configureBin, configureLedgerDir, configureIdentities,
     configurePublicIP, configureTimeAndHostname
<1>6. rollback' \in [Roles -> Words]
  BY <1>4 DEF NewFromConfig, configureRPCClient, configureTowerFile,
     configureSetIdenttiyCommands, configureRollback, configurePeers, configureGossipNode,
     configureServer, configureTLS, configureBin, configureLedgerDir, configureIdentities,
     configurePublicIP, configureTimeAndHostname
<1>7. field' \in [Fields -> Paths]
  <2>1. CASE configureIdentities
    <3>1. \A f \in Fields : (\E r \in Roles : f = KeyFile(r))
             => settings.keyFile[CHOOSE r \in Roles : f = KeyFile(r)] \in Paths
      BY <1>3
    <3> QED BY <2>1, <3>1 DEF configureIdentities
  <2>2. CASE ~configureIdentities
    BY <1>3, <2>2 DEF NewFromConfig, configureRPCClient, configureTowerFile,
       configureSetIdenttiyCommands, configureRollback, configurePeers, configureGossipNode,
       configureServer, configureTLS, configureBin, configureLedgerDir, configurePublicIP,
       configureTimeAndHostname
  <2> QED BY <2>1, <2>2
<1>8. asked' \in 0 .. Services
  <2>1. asked' = asked \/ (asked < Services /\ asked' = asked + 1)
    BY DEF NewFromConfig, configureRPCClient, configureTowerFile, configureSetIdenttiyCommands,
       configureRollback, configurePeers, configureGossipNode, configureServer, configureTLS,
       configureBin, configureLedgerDir, configureIdentities, configurePublicIP,
       configureTimeAndHostname
  <2>2. asked \in 0 .. Services
    OBVIOUS
  <2> QED BY <2>1, <2>2 DEF Services
<1>9. role' \in Roles \cup {"unknown"}
  BY DEF NewFromConfig, configureRPCClient, configureTowerFile, configureSetIdenttiyCommands,
     configureRollback, configurePeers, configureGossipNode, configureServer, configureTLS,
     configureBin, configureLedgerDir, configureIdentities, configurePublicIP,
     configureTimeAndHostname
<1> QED BY <1>1, <1>2, <1>5, <1>6, <1>7, <1>8, <1>9

LEMMA ConfigKept ==
    ASSUME ConfigInv, NewFromConfig
    PROVE  ConfigInv'
<1>1. step' \in {"server", "tls", "configured"} => role' \in Roles
  BY DEF ConfigInv, NewFromConfig, configureRPCClient, configureTowerFile,
     configureSetIdenttiyCommands, configureRollback, configurePeers, configureGossipNode,
     configureServer, configureTLS, configureBin, configureLedgerDir, configureIdentities,
     configurePublicIP, configureTimeAndHostname, At, GoOn, Set
<1> QED BY <1>1, ConfigTypeKept, FieldsKept, CommandsKept DEF ConfigInv

(* Nothing that leaves the configuration alone disturbs it. *)
LEMMA ConfigFrame ==
    ASSUME ConfigInv, UNCHANGED configVars
    PROVE  ConfigInv'
<1>1. \A words, template : ComesFrom(words, template) => ComesFrom(words, template)'
  BY DEF ComesFrom, Harmless, Meant, configVars
<1>2. \A r \in Roles : MeantRollback(r)' = MeantRollback(r)
  BY DEF MeantRollback, configVars
<1>3. UNCHANGED <<command, rollback, settings, step>>
  BY DEF configVars, configured
<1>4. CommandsKnown'
  <2>1. CommandsSet' = CommandsSet /\ RollbackSet' = RollbackSet
    BY <1>3 DEF CommandsSet, RollbackSet, KeyFilesSet, LedgerDirSet, BinSet
  <2> QED BY <1>1, <1>2, <1>3, <2>1 DEF ConfigInv, CommandsKnown
<1>5. ConfigTypeOK' /\ FieldsKnown'
  BY DEF ConfigInv, ConfigTypeOK, FieldsKnown, KeyFilesSet, LedgerDirSet, BinSet, configVars,
     configured
<1> QED BY <1>4, <1>5 DEF ConfigInv, configVars

(* Commands that come from their templates are as meant. *)
LEMMA CommandsFollow == ConfigInv => CommandsAsMeant
  BY DEF ConfigInv, CommandsKnown, CommandsAsMeant, ComesFrom, CommandsSet, RollbackSet,
     KeyFilesSet, LedgerDirSet, BinSet
-------------------------------------------------------------------------------
(* The hooks of the stage that have been run to their end. *)
Done == IF pc \in {"waiting", "joining"} THEN at - 1 ELSE at

(* Where the loop over the hooks is, and what it makes of those behind it. *)
Loop ==
    /\ pc \in {"waiting", "joining"} => at >= 1 /\ hook.starts
    /\ pc = "command" => stage.kind = "rollback" /\ at = 0
    /\ ran = [i \in 1 .. Done |-> Failing(stage.hooks[i])]
    /\ pc # "returned" =>
         /\ \A i \in 1 .. Done : ~Stopping(stage.hooks[i])
         /\ result = IF pc # "command" /\ stage.kind = "rollback" /\ stage.command.exit = "fail"
                     THEN "error" ELSE "none"
    /\ RunsAsConfigured

(* The process of the hook, and the goroutines, live while Run waits. *)
Lives ==
    /\ process = "running" => pc = "waiting" /\ env \in Environments(hook.environment)
    /\ process = "exited" => pc \in {"waiting", "joining"}
    /\ pc \notin {"waiting", "joining"} => \A s \in Streams : reader[s] # "reading"
    /\ \A s \in Streams : reader[s] = "reading" => held[s] < MaxToken

HooksInv == HooksTypeOK /\ Loop /\ Lives

(* A run of the loop leaves the types of what it does not touch. *)
LEMMA HookOfStage ==
    ASSUME HooksTypeOK
    PROVE  /\ stage.hooks \in Seq(HookType) /\ Len(stage.hooks) \in Nat /\ at \in Nat
           /\ \A i \in 1 .. Len(stage.hooks) : stage.hooks[i] \in HookType
           /\ at >= 1 => hook \in HookType /\ at \in 1 .. Len(stage.hooks)
<1>1. stage.hooks \in Seq(HookType)
  BY DEF HooksTypeOK, StageType
<1>2. at \in 0 .. Len(stage.hooks)
  BY DEF HooksTypeOK
<1> HIDE DEF HookType
<1>3. Len(stage.hooks) \in Nat /\ \A i \in 1 .. Len(stage.hooks) : stage.hooks[i] \in HookType
  BY <1>1
<1> QED BY <1>1, <1>2, <1>3 DEF hook

LEMMA NoStageType == NoStage \in StageType /\ NoStage.hooks = <<>> /\ NoStage.kind = "post"
  BY EmptySeq DEF NoStage, StageType, CommandType

(* Before the first stage, *)
LEMMA HooksInitOK == HooksInit => HooksInv
<1> SUFFICES ASSUME HooksInit PROVE HooksInv
  OBVIOUS
<1>1. stage \in StageType /\ stage.hooks = <<>> /\ stage.kind = "post"
  BY NoStageType DEF HooksInit
<1>2. Len(<<>>) = 0 /\ 0 \in 0 .. 0 /\ 0 \in 0 .. MaxToken
  BY HooksAssumption
<1>3. pipe \in [Streams -> Seq(Pieces)] /\ \A s \in Streams : Len(pipe[s]) <= PipeCapacity
  BY HooksAssumption, EmptySeq DEF HooksInit, Empty
<1>4. reader \in [Streams -> {"none", "reading", "ended"}] /\ \A s \in Streams : reader[s] = "none"
  BY DEF HooksInit, Idle
<1>5. held \in [Streams -> 0 .. MaxToken] /\ logged \in [Streams -> Nat]
  BY <1>2 DEF HooksInit, Zero
<1>6. ran \in Seq(BOOLEAN) /\ left \in Seq([to : Streams, what : Pieces])
  BY EmptySeq DEF HooksInit
<1>7. at = 0 /\ pc = "returned" /\ process = "none" /\ open = FALSE /\ env = <<>> /\ result = "ok"
      /\ ran = <<>>
  BY DEF HooksInit
<1>8. HooksTypeOK
  BY <1>1, <1>2, <1>3, <1>4, <1>5, <1>6, <1>7 DEF HooksTypeOK
<1>9. ran = [i \in 1 .. 0 |-> Failing(stage.hooks[i])]
  BY <1>7
<1>10. RunsAsConfigured
  BY <1>1, <1>2, <1>7, <1>9 DEF RunsAsConfigured
<1>11. Loop
  BY <1>7, <1>9, <1>10 DEF Loop, Done
<1>12. Lives
  BY <1>4, <1>7 DEF Lives
<1> QED BY <1>8, <1>11, <1>12 DEF HooksInv

(* and when a stage is started. *)
LEMMA StageStarts ==
    ASSUME HooksInv, NEW s \in StageType, RunStage(s)
    PROVE  HooksInv'
<1>1. stage' = s /\ s.hooks \in Seq(HookType) /\ Len(s.hooks) \in Nat
      /\ s.kind \in {"pre", "post", "rollback"}
  BY DEF RunStage, StageType
<1>2. 0 \in 0 .. Len(s.hooks) /\ 0 \in 0 .. MaxToken
  BY <1>1, HooksAssumption
<1>3. pipe' \in [Streams -> Seq(Pieces)] /\ \A x \in Streams : Len(pipe'[x]) <= PipeCapacity
  BY HooksAssumption, EmptySeq DEF RunStage, Empty
<1>4. reader' \in [Streams -> {"none", "reading", "ended"}] /\ \A x \in Streams : reader'[x] = "none"
  BY DEF RunStage, Idle
<1>5. held' \in [Streams -> 0 .. MaxToken] /\ logged' \in [Streams -> Nat]
  BY <1>2 DEF RunStage, Zero
<1>6. ran' \in Seq(BOOLEAN) /\ left' \in Seq([to : Streams, what : Pieces])
  BY EmptySeq DEF RunStage
<1>7. /\ at' = 0 /\ process' = "none" /\ open' = FALSE /\ env' = <<>> /\ result' = "none"
      /\ ran' = <<>> /\ pc' = IF s.kind = "rollback" THEN "command" ELSE "next"
  BY DEF RunStage
<1>8. HooksTypeOK'
  BY <1>1, <1>2, <1>3, <1>4, <1>5, <1>6, <1>7 DEF HooksTypeOK
<1>9. ran' = [i \in 1 .. 0 |-> Failing(stage'.hooks[i])]
  BY <1>7
<1>10. Loop'
  BY <1>1, <1>7, <1>9 DEF Loop, Done, RunsAsConfigured, Stopping
<1>11. Lives'
  BY <1>4, <1>7 DEF Lives
<1> QED BY <1>8, <1>10, <1>11 DEF HooksInv

(* The loop records the end of a hook, and goes on or stops. *)
LEMMA HookEndsLoop ==
    ASSUME HooksInv, NEW place, NEW failed, HookEnds(place, failed), UNCHANGED stage,
           pc \in {"next", "joining"}, place = Done + 1, place \in 1 .. Len(stage.hooks),
           at' = place, failed = Failing(stage.hooks[place])
    PROVE  /\ Loop' /\ ran' \in Seq(BOOLEAN) /\ at' \in 0 .. Len(stage'.hooks)
           /\ pc' \in {"next", "returned"} /\ result' \in {"none", "ok", "error"}
<1> DEFINE aborts == failed /\ stage.kind = "pre" /\ stage.hooks[place].mustSucceed
<1>1. /\ Done \in Nat /\ Len(stage.hooks) \in Nat /\ place \in Nat
      /\ failed \in BOOLEAN /\ ran \in Seq(BOOLEAN)
  BY HookOfStage DEF HooksInv, HooksTypeOK, Done, Failing
<1>2. /\ ran = [i \in 1 .. Done |-> Failing(stage.hooks[i])]
      /\ \A i \in 1 .. Done : ~Stopping(stage.hooks[i])
      /\ result = IF stage.kind = "rollback" /\ stage.command.exit = "fail"
                  THEN "error" ELSE "none"
  BY DEF HooksInv, Loop
<1>3. /\ ran' = Append(ran, failed)
      /\ pc' = IF aborts THEN "returned" ELSE "next"
      /\ result' = IF aborts THEN "error" ELSE result
  BY DEF HookEnds
<1>4. ran' \in Seq(BOOLEAN) /\ ran' = [i \in 1 .. place |-> Failing(stage.hooks[i])]
  <2>1. Len(ran) = Done /\ Done \in Nat /\ \A i \in 1 .. Done : ran[i] = Failing(stage.hooks[i])
    BY <1>1, <1>2
  <2>2. /\ ran' \in Seq(BOOLEAN) /\ Len(ran') = Done + 1 /\ DOMAIN ran' = 1 .. Done + 1
        /\ \A i \in 1 .. Done : ran'[i] = ran[i]
        /\ ran'[Done + 1] = failed
    BY <1>1, <1>3, <2>1
  <2>3. ASSUME NEW i \in 1 .. Done + 1 PROVE ran'[i] = Failing(stage.hooks[i])
    <3>1. i \in 1 .. Done \/ i = Done + 1
      BY <1>1
    <3>2. CASE i \in 1 .. Done
      <4>1. ran'[i] = ran[i] /\ ran[i] = Failing(stage.hooks[i])
        BY <2>1, <2>2, <3>2
      <4> QED BY <4>1, Zenon
    <3>3. CASE i = Done + 1
      BY <2>2, <3>3, Zenon
    <3> QED BY <3>1, <3>2, <3>3
  <2>4. ran' = [i \in 1 .. Done + 1 |-> ran'[i]]
    BY <2>2
  <2> QED BY <2>2, <2>3, <2>4
<1>5. Stopping(stage.hooks[place]) <=> aborts
  BY DEF Stopping
<1>6. Done' = place
  BY <1>3 DEF Done
<1>7. \A i \in 1 .. place : i \in 1 .. Done \/ i = place
  BY <1>1
<1>8. \A i \in 1 .. place : Stopping(stage.hooks[i])' = Stopping(stage.hooks[i])
  BY DEF Stopping
<1>9. RunsAsConfigured'
  <2>1. CASE ~aborts
    BY <1>3, <2>1 DEF RunsAsConfigured
  <2>2. CASE aborts
    <3> DEFINE Stops == {i \in 1 .. Len(stage.hooks) : Stopping(stage.hooks[i])}
    <3>1. place \in Stops
      BY <1>5, <2>2
    <3>2. \A i \in Stops : place <= i
      BY <1>1, <1>2
    <3>3. Stops = {i \in 1 .. Len(stage.hooks) : Stopping(stage.hooks[i])}'
      BY DEF Stopping
    <3>4. result' = "error" /\ pc' = "returned"
      BY <1>3, <2>2
    <3> HIDE DEF Stops
    <3> QED BY <1>4, <3>1, <3>2, <3>3, <3>4 DEF RunsAsConfigured
  <2> QED BY <2>1, <2>2
<1>10. pc' # "returned" => \A i \in 1 .. place : ~Stopping(stage.hooks[i])
  BY <1>2, <1>3, <1>5, <1>7
<1>11. /\ pc' \notin {"waiting", "joining", "command"}
       /\ pc' # "returned" => result' = result
  BY <1>3
<1>12. Loop'
  BY <1>2, <1>4, <1>6, <1>8, <1>9, <1>10, <1>11 DEF Loop
<1>13. result' \in {"none", "ok", "error"} /\ at' \in 0 .. Len(stage'.hooks)
  BY <1>1, <1>2, <1>3
<1> QED BY <1>3, <1>4, <1>12, <1>13

(* What a step of the stage may do to the loop: nothing, or wait longer. *)
LEMMA LoopFrame ==
    ASSUME HooksInv, UNCHANGED <<stage, at, ran, result>>,
           \/ UNCHANGED pc
           \/ pc = "waiting" /\ pc' = "joining"
    PROVE  Loop'
<1>1. Done' = Done /\ hook' = hook /\ (pc' = "returned" <=> pc = "returned")
  BY DEF Done, hook
<1>2. RunsAsConfigured'
  BY DEF RunsAsConfigured, Stopping, HooksInv, Loop
<1> QED BY <1>1, <1>2 DEF Loop, HooksInv, Stopping

(* The entries of the process's environment. *)
LEMMA EnvironmentType ==
    ASSUME NEW environment \in SUBSET Names, NEW f \in Environments(environment)
    PROVE  /\ \E names \in SUBSET {"S", "X"} : f \in [names -> {"standard", "configured"}]
           /\ DOMAIN f = {Upper(n) : n \in environment \cup {"S"}}
           /\ "s" \notin environment => f["S"] = "standard"
<1> DEFINE names == {Upper(n) : n \in environment \cup {"S"}}
<1>1. DOMAIN Merged(environment) = environment \cup {"S"}
      /\ Merged(environment)["S"] = "standard"
  BY DEF Merged
<1>2. /\ f \in [names -> {"standard", "configured"}]
      /\ \A u \in names : \E n \in environment \cup {"S"} :
            Upper(n) = u /\ f[u] = Merged(environment)[n]
  BY <1>1 DEF Environments
<1>3. \A n \in environment \cup {"S"} : Upper(n) \in {"S", "X"}
  BY DEF Names, Upper
<1>4. names \in SUBSET {"S", "X"}
  BY <1>3
<1>5. "S" \in names
  BY DEF Upper
<1>6. "s" \notin environment => \A n \in environment \cup {"S"} : Upper(n) = "S" => n = "S"
  BY DEF Names, Upper
<1> QED BY <1>1, <1>2, <1>4, <1>5, <1>6

(* Every step of the loop, the process or a reader keeps the invariant. *)
LEMMA RollbackCommandKeeps ==
    ASSUME HooksInv, RollbackCommand
    PROVE  HooksInv'
<1>1. /\ UNCHANGED <<stage, at, ran, process, open, env, outputVars>>
      /\ pc = "command" /\ pc' = "next" /\ stage.kind = "rollback" /\ at = 0
      /\ result' = IF stage.command.exit = "fail" THEN "error" ELSE "none"
  BY DEF RollbackCommand, HooksInv, Loop
<1>2. HooksTypeOK'
  BY <1>1 DEF HooksInv, HooksTypeOK, outputVars
<1>3. Done = 0 /\ Done' = 0
  BY <1>1 DEF Done
<1>4. Loop'
  BY <1>1, <1>3 DEF HooksInv, Loop, RunsAsConfigured
<1>5. Lives'
  BY <1>1 DEF HooksInv, Lives, outputVars
<1> QED BY <1>2, <1>4, <1>5 DEF HooksInv

LEMMA StartHookKeeps ==
    ASSUME HooksInv, StartHook
    PROVE  HooksInv'
<1> DEFINE next == stage.hooks[at + 1]
<1>1. /\ UNCHANGED <<stage, ran, result>> /\ pc = "next" /\ at < Len(stage.hooks)
      /\ at' = at + 1 /\ next.starts /\ env' \in Environments(next.environment)
      /\ left' = next.prints /\ process' = "running" /\ open' = TRUE
      /\ reader' = [s \in Streams |-> "reading"] /\ pipe' = Empty /\ held' = Zero /\ logged' = Zero
      /\ pc' = "waiting"
  BY DEF StartHook
<1>2. /\ at \in Nat /\ Len(stage.hooks) \in Nat /\ at + 1 \in 1 .. Len(stage.hooks)
      /\ next \in HookType
  BY <1>1, HookOfStage DEF HooksInv
<1>3. next.prints \in Seq([to : Streams, what : Pieces]) /\ next.environment \in SUBSET Names
  BY <1>2 DEF HookType
<1>4. pipe' \in [Streams -> Seq(Pieces)] /\ \A x \in Streams : Len(pipe'[x]) <= PipeCapacity
  BY <1>1, HooksAssumption, EmptySeq DEF Empty
<1>5. held' \in [Streams -> 0 .. MaxToken] /\ logged' \in [Streams -> Nat]
      /\ \A x \in Streams : held'[x] < MaxToken
  BY <1>1, HooksAssumption DEF Zero
<1>6. \E names \in SUBSET {"S", "X"} : env' \in [names -> {"standard", "configured"}]
  BY <1>1, <1>3, EnvironmentType
<1>7. HooksTypeOK'
  <2>1. /\ at' \in 0 .. Len(stage'.hooks) /\ stage' = stage /\ ran' = ran /\ result' = result
        /\ process' = "running" /\ open' = TRUE /\ pc' = "waiting"
    BY <1>1, <1>2
  <2>2. /\ left' \in Seq([to : Streams, what : Pieces])
        /\ reader' \in [Streams -> {"none", "reading", "ended"}]
    BY <1>1, <1>3
  <2> QED BY <1>4, <1>5, <1>6, <2>1, <2>2 DEF HooksInv, HooksTypeOK
<1>8. Done' = at /\ Done = at /\ hook' = next
  BY <1>1, <1>2 DEF Done, hook
<1>9. Loop'
  BY <1>1, <1>2, <1>8 DEF HooksInv, Loop, RunsAsConfigured, Stopping
<1>10. Lives'
  BY <1>1, <1>5, <1>8 DEF Lives
<1> QED BY <1>7, <1>9, <1>10 DEF HooksInv

LEMMA StartFailsKeeps ==
    ASSUME HooksInv, StartFails
    PROVE  HooksInv'
<1>1. /\ UNCHANGED <<stage, process, open, env, reader>> /\ pc = "next"
      /\ at < Len(stage.hooks) /\ at' = at + 1 /\ ~stage.hooks[at + 1].starts
      /\ HookEnds(at + 1, TRUE)
      /\ left' = <<>> /\ pipe' = Empty /\ held' = Zero /\ logged' = Zero
  BY DEF StartFails
<1>2. at \in Nat /\ Len(stage.hooks) \in Nat /\ at + 1 \in 1 .. Len(stage.hooks) /\ Done = at
  BY <1>1, HookOfStage DEF HooksInv, Done
<1>3. TRUE = Failing(stage.hooks[at + 1])
  BY <1>1 DEF Failing
<1>4. /\ Loop' /\ ran' \in Seq(BOOLEAN) /\ at' \in 0 .. Len(stage'.hooks)
      /\ pc' \in {"next", "returned"} /\ result' \in {"none", "ok", "error"}
  <2> DEFINE place == at + 1
  <2>1. /\ HookEnds(place, TRUE) /\ UNCHANGED stage /\ pc \in {"next", "joining"}
        /\ place = Done + 1 /\ place \in 1 .. Len(stage.hooks) /\ at' = place
        /\ TRUE = Failing(stage.hooks[place])
    BY <1>1, <1>2, <1>3
  <2> HIDE DEF place
  <2> QED BY <2>1, HookEndsLoop
<1>5. pipe' \in [Streams -> Seq(Pieces)] /\ \A x \in Streams : Len(pipe'[x]) <= PipeCapacity
  BY <1>1, HooksAssumption, EmptySeq DEF Empty
<1>6. held' \in [Streams -> 0 .. MaxToken] /\ logged' \in [Streams -> Nat]
      /\ \A x \in Streams : held'[x] < MaxToken
  BY <1>1, HooksAssumption DEF Zero
<1>7. HooksTypeOK'
  BY <1>1, <1>4, <1>5, <1>6, EmptySeq DEF HooksInv, HooksTypeOK
<1>8. Lives'
  BY <1>1, <1>4, <1>6 DEF HooksInv, Lives
<1> QED BY <1>4, <1>7, <1>8 DEF HooksInv

LEMMA JoinKeeps ==
    ASSUME HooksInv, Join
    PROVE  HooksInv'
<1>1. /\ UNCHANGED <<stage, at, open, env, outputVars>> /\ pc = "joining"
      /\ \A s \in Streams : reader[s] = "ended"
      /\ HookEnds(at, hook.exit = "fail") /\ process' = "none"
  BY DEF Join
<1>2. at >= 1 /\ hook.starts
  BY <1>1 DEF HooksInv, Loop
<1>3. at \in Nat /\ at \in 1 .. Len(stage.hooks) /\ at = Done + 1 /\ hook = stage.hooks[at]
  BY <1>1, <1>2, HookOfStage DEF HooksInv, Done, hook
<1>4. (hook.exit = "fail") = Failing(stage.hooks[at])
  BY <1>2, <1>3 DEF Failing
<1>5. /\ Loop' /\ ran' \in Seq(BOOLEAN) /\ at' \in 0 .. Len(stage'.hooks)
      /\ pc' \in {"next", "returned"} /\ result' \in {"none", "ok", "error"}
  <2> DEFINE failed == hook.exit = "fail"
  <2>1. /\ HookEnds(at, failed) /\ UNCHANGED stage /\ pc \in {"next", "joining"}
        /\ at = Done + 1 /\ at \in 1 .. Len(stage.hooks) /\ at' = at
        /\ failed = Failing(stage.hooks[at])
    BY <1>1, <1>3, <1>4
  <2> HIDE DEF failed
  <2> QED BY <2>1, HookEndsLoop
<1>6. HooksTypeOK'
  BY <1>1, <1>5 DEF HooksInv, HooksTypeOK, outputVars
<1>7. Lives'
  BY <1>1, <1>5 DEF HooksInv, Lives, outputVars
<1> QED BY <1>5, <1>6, <1>7 DEF HooksInv

LEMMA ReturnKeeps ==
    ASSUME HooksInv, Return
    PROVE  HooksInv'
<1>1. /\ UNCHANGED <<stage, at, ran, process, open, env, outputVars>>
      /\ pc = "next" /\ at = Len(stage.hooks) /\ pc' = "returned"
      /\ result' = IF result = "error" THEN "error" ELSE "ok"
  BY DEF Return
<1>2. /\ Done = at /\ Done' = at /\ at \in Nat
      /\ ran = [i \in 1 .. at |-> Failing(stage.hooks[i])]
      /\ \A i \in 1 .. at : ~Stopping(stage.hooks[i])
      /\ result = IF stage.kind = "rollback" /\ stage.command.exit = "fail" THEN "error" ELSE "none"
  BY <1>1, HookOfStage DEF HooksInv, Loop, Done
<1>3. HooksTypeOK'
  BY <1>1 DEF HooksInv, HooksTypeOK, outputVars
<1>4. {i \in 1 .. Len(stage.hooks) : Stopping(stage.hooks[i])}' = {}
  BY <1>1, <1>2 DEF Stopping
<1>5. /\ ran' = [i \in 1 .. at' |-> Failing(stage'.hooks[i])] /\ at' = Len(stage'.hooks)
      /\ result' = "error" <=> stage'.kind = "rollback" /\ stage'.command.exit = "fail"
  BY <1>1, <1>2
<1>6. RunsAsConfigured'
  BY <1>4, <1>5 DEF RunsAsConfigured
<1>7. Loop'
  BY <1>1, <1>2, <1>5, <1>6 DEF Loop
<1>8. Lives'
  BY <1>1 DEF HooksInv, Lives, outputVars
<1> QED BY <1>3, <1>7, <1>8 DEF HooksInv

LEMMA WaitReturnsKeeps ==
    ASSUME HooksInv, WaitReturns
    PROVE  HooksInv'
<1>1. /\ UNCHANGED <<stage, at, ran, result, process, env, outputVars>>
      /\ pc = "waiting" /\ pc' = "joining" /\ process = "exited" /\ open' = FALSE
  BY DEF WaitReturns, stageVars
<1>2. HooksTypeOK'
  BY <1>1 DEF HooksInv, HooksTypeOK, outputVars
<1>3. Loop'
  BY <1>1, LoopFrame
<1>4. Lives'
  BY <1>1 DEF HooksInv, Lives, outputVars
<1> QED BY <1>2, <1>3, <1>4 DEF HooksInv

LEMMA ProcessKeeps ==
    ASSUME HooksInv, Process
    PROVE  HooksInv'
<1>1. CASE WriteOutput
  <2> DEFINE s == Head(left).to
  <2>1. /\ UNCHANGED <<stage, at, ran, result, pc, process, open, env, reader, held, logged>>
        /\ left # <<>> /\ Len(pipe[s]) < PipeCapacity
        /\ pipe' = [pipe EXCEPT ![s] = Append(pipe[s], Head(left).what)] /\ left' = Tail(left)
    BY <1>1 DEF WriteOutput, stageVars
  <2>2. /\ s \in Streams /\ Head(left).what \in Pieces
        /\ left' \in Seq([to : Streams, what : Pieces])
    <3>1. left \in Seq([to : Streams, what : Pieces])
      BY DEF HooksInv, HooksTypeOK
    <3>2. Head(left) \in [to : Streams, what : Pieces]
          /\ Tail(left) \in Seq([to : Streams, what : Pieces])
      BY <2>1, <3>1, HeadTailProperties
    <3> QED BY <2>1, <3>2
  <2>3. /\ pipe \in [Streams -> Seq(Pieces)]
        /\ \A x \in Streams : Len(pipe[x]) <= PipeCapacity
    BY DEF HooksInv, HooksTypeOK
  <2> HIDE DEF s
  <2>4. Append(pipe[s], Head(left).what) \in Seq(Pieces)
        /\ Len(Append(pipe[s], Head(left).what)) = Len(pipe[s]) + 1 /\ Len(pipe[s]) \in Nat
    BY <2>2, <2>3
  <2>5. /\ pipe' \in [Streams -> Seq(Pieces)]
        /\ \A x \in Streams : Len(pipe'[x]) <= PipeCapacity
    BY <2>1, <2>2, <2>3, <2>4, HooksAssumption
  <2>6. HooksTypeOK'
    BY <2>1, <2>2, <2>5 DEF HooksInv, HooksTypeOK
  <2>7. Loop'
    BY <2>1, LoopFrame
  <2>8. Lives'
    BY <2>1 DEF HooksInv, Lives, hook
  <2> QED BY <2>6, <2>7, <2>8 DEF HooksInv
<1>2. CASE Exit
  <2>1. /\ UNCHANGED <<stage, at, ran, result, pc, open, env, outputVars>>
        /\ process = "running" /\ process' = "exited"
    BY <1>2 DEF Exit, stageVars
  <2>2. HooksTypeOK'
    BY <2>1 DEF HooksInv, HooksTypeOK, outputVars
  <2>3. Loop'
    BY <2>1, LoopFrame
  <2>4. Lives'
    BY <2>1 DEF HooksInv, Lives, outputVars
  <2> QED BY <2>2, <2>3, <2>4 DEF HooksInv
<1> QED BY <1>1, <1>2 DEF Process

LEMMA ReaderKeeps ==
    ASSUME HooksInv, NEW s \in Streams, Reader(s)
    PROVE  HooksInv'
<1>1. /\ UNCHANGED <<stage, at, ran, result, pc, process, open, env, left>>
      /\ reader[s] = "reading"
  BY DEF Reader, Scan, ScanEnds, stageVars
<1>2. /\ held \in [Streams -> 0 .. MaxToken] /\ logged \in [Streams -> Nat]
      /\ reader \in [Streams -> {"none", "reading", "ended"}]
      /\ pipe \in [Streams -> Seq(Pieces)]
      /\ \A x \in Streams : Len(pipe[x]) <= PipeCapacity
      /\ \A x \in Streams : reader[x] = "reading" => held[x] < MaxToken
  BY DEF HooksInv, HooksTypeOK, Lives
<1>3. /\ held[s] \in Nat /\ held[s] < MaxToken /\ logged[s] \in Nat /\ MaxToken \in Nat
      /\ PipeCapacity \in Nat
  BY <1>1, <1>2, HooksAssumption
<1>4. /\ pipe' \in [Streams -> Seq(Pieces)]
      /\ \A x \in Streams : Len(pipe'[x]) <= PipeCapacity
  <2>1. CASE UNCHANGED pipe
    BY <1>2, <2>1
  <2>2. CASE pipe[s] # <<>> /\ pipe' = [pipe EXCEPT ![s] = Tail(pipe[s])]
    <3>1. Tail(pipe[s]) \in Seq(Pieces) /\ Len(Tail(pipe[s])) = Len(pipe[s]) - 1
          /\ Len(pipe[s]) \in Nat
      BY <1>2, <2>2
    <3> QED BY <1>2, <1>3, <2>2, <3>1
  <2> QED BY <2>1, <2>2 DEF Reader, Scan, ScanEnds
<1>5. /\ held' \in [Streams -> 0 .. MaxToken]
      /\ reader' \in [Streams -> {"none", "reading", "ended"}]
      /\ \A x \in Streams : reader'[x] = "reading" => reader[x] = "reading" /\ held'[x] < MaxToken
  <2>1. CASE held' = [held EXCEPT ![s] = 0] /\ UNCHANGED reader
    BY <1>2, <1>3, <2>1
  <2>2. CASE held' = [held EXCEPT ![s] = 0] /\ reader' = [reader EXCEPT ![s] = "ended"]
    BY <1>2, <1>3, <2>2
  <2>3. CASE /\ held' = [held EXCEPT ![s] = held[s] + 1]
             /\ reader' = [reader EXCEPT ![s] = IF held'[s] = MaxToken THEN "ended" ELSE reader[s]]
    <3>1. held'[s] = held[s] + 1 /\ held[s] + 1 \in 0 .. MaxToken
      BY <1>2, <1>3, <2>3
    <3> QED BY <1>2, <1>3, <2>3, <3>1
  <2> QED BY <2>1, <2>2, <2>3 DEF Reader, Scan, ScanEnds
<1>6. logged' \in [Streams -> Nat]
  <2>1. CASE UNCHANGED logged
    BY <1>2, <2>1
  <2>2. CASE logged' = [logged EXCEPT ![s] = logged[s] + held[s] + 1]
    BY <1>2, <1>3, <2>2
  <2>3. CASE logged' = [logged EXCEPT ![s] = logged[s] + held[s]]
    BY <1>2, <1>3, <2>3
  <2> QED BY <2>1, <2>2, <2>3 DEF Reader, Scan, ScanEnds
<1>7. HooksTypeOK'
  BY <1>1, <1>4, <1>5, <1>6 DEF HooksInv, HooksTypeOK
<1>8. Loop'
  BY <1>1, LoopFrame
<1>9. Lives'
  BY <1>1, <1>5 DEF HooksInv, Lives, hook
<1> QED BY <1>7, <1>8, <1>9 DEF HooksInv

LEMMA StageStepKeeps ==
    ASSUME HooksInv, StageStep
    PROVE  HooksInv'
  BY RollbackCommandKeeps, StartHookKeeps, StartFailsKeeps, WaitReturnsKeeps, JoinKeeps, ReturnKeeps,
     ProcessKeeps, ReaderKeeps DEF StageStep, Program

LEMMA HooksFrame ==
    ASSUME HooksInv, UNCHANGED hooksVars
    PROVE  HooksInv'
<1>1. UNCHANGED <<stage, at, ran, result, pc, process, open, env, left, pipe, reader, held, logged>>
  BY DEF hooksVars, stageVars, outputVars
<1>2. HooksTypeOK'
  BY <1>1 DEF HooksInv, HooksTypeOK
<1>3. Loop'
  BY <1>1, LoopFrame
<1>4. Lives'
  BY <1>1 DEF HooksInv, Lives, hook
<1> QED BY <1>2, <1>3, <1>4 DEF HooksInv

(* What the invariant says of the properties of a stage. *)
LEMMA HooksFollow == HooksInv => RunsAsConfigured /\ NoReaderLeft /\ StandardEnvironmentKept
<1> SUFFICES ASSUME HooksInv PROVE RunsAsConfigured /\ NoReaderLeft /\ StandardEnvironmentKept
  OBVIOUS
<1>1. RunsAsConfigured /\ NoReaderLeft
  BY DEF HooksInv, Loop, Lives, NoReaderLeft
<1>2. ASSUME process = "running"
      PROVE  /\ "s" \notin hook.environment => env["S"] = "standard"
             /\ DOMAIN env = {Upper(n) : n \in hook.environment \cup {"S"}}
  <2>1. pc = "waiting" /\ env \in Environments(hook.environment)
    BY <1>2 DEF HooksInv, Lives
  <2>2. hook.environment \in SUBSET Names
    <3>1. at >= 1
      BY <2>1 DEF HooksInv, Loop
    <3> QED BY <3>1, HookOfStage DEF HooksInv, HookType
  <2> QED BY <2>1, <2>2, EnvironmentType
<1> QED BY <1>1, <1>2 DEF StandardEnvironmentKept
-------------------------------------------------------------------------------
(* Every pre hook of the host's role that must succeed did. *)
PreHooksPassed ==
    \A i \in DOMAIN settings.hooks.pre[role] :
        settings.hooks.pre[role][i].mustSucceed => ~Failing(settings.hooks.pre[role][i])

(* The host leaves the identity of its role after the pre hooks, for real. *)
HostInv ==
    /\ phase \in {"configure", "pre", "moved", "failed", "hangs", "post", "rollback", "ended"}
    /\ identity \in Roles \cup {"unknown"} /\ drill \in BOOLEAN /\ rollbackOn \in BOOLEAN
    /\ phase = "configure" => identity = "unknown"
    /\ phase # "configure" => step = "configured"
    /\ phase = "pre" =>
         /\ stage.kind = "pre" /\ stage.hooks = settings.hooks.pre[role]
         /\ identity = role
    /\ phase \in {"moved", "failed", "post", "rollback"} => PreHooksPassed
    /\ phase = "failed" => ~drill
    /\ identity \notin {role, "unknown"} => ~drill /\ step = "configured" /\ PreHooksPassed
    /\ stage.kind = "rollback" =>
         phase \in {"rollback", "ended"} /\ stage.hooks = settings.hooks.rollback[role]

IInv == ConfigInv /\ HooksInv /\ HostInv

LEMMA HostInitOK == Init => IInv
<1> SUFFICES ASSUME Init PROVE IInv
  OBVIOUS
<1>1. ConfigInv /\ HooksInv
  BY ConfigInitOK, HooksInitOK DEF Init
<1>2. HostInv
  BY NoStageType DEF Init, HooksInit, ConfigInit, HostInv
<1> QED BY <1>1, <1>2 DEF IInv

(* The hooks of a configured host are of the types of stages. *)
LEMMA StageTypes ==
    ASSUME ConfigInv, role \in Roles
    PROVE  /\ [NoStage EXCEPT !.kind = "pre", !.hooks = settings.hooks.pre[role]] \in StageType
           /\ [NoStage EXCEPT !.hooks = settings.hooks.post[Other(role)]] \in StageType
           /\ \A c \in CommandType :
                 [kind |-> "rollback", hooks |-> settings.hooks.rollback[role], command |-> c]
                   \in StageType
<1>1. /\ settings.hooks.pre[role] \in Seq(HookType)
      /\ settings.hooks.post[Other(role)] \in Seq(HookType)
      /\ settings.hooks.rollback[role] \in Seq(HookType)
  <2>1. settings \in Settings /\ Other(role) \in Roles
    BY DEF ConfigInv, ConfigTypeOK, Other, Roles
  <2> DEFINE lists == [Roles -> Seq(HookType)]
  <2>2. settings.hooks \in [pre : lists, post : lists, rollback : lists]
    BY <2>1, HookSettingsAssumption
  <2>3. settings.hooks.pre \in lists /\ settings.hooks.post \in lists
        /\ settings.hooks.rollback \in lists
    <3> HIDE DEF lists
    <3> QED BY <2>2
  <2> QED BY <2>1, <2>3
<1>2. NoStage.command \in CommandType
  BY DEF NoStage, CommandType
<1> HIDE DEF HookType, CommandType
<1> QED BY <1>1, <1>2 DEF StageType, NoStage

(* A stage that is started leaves the rest of the hooks' state in order. *)
LEMMA RunPreHooksKeeps ==
    ASSUME IInv, RunPreHooks
    PROVE  IInv'
<1> DEFINE s == [NoStage EXCEPT !.kind = "pre", !.hooks = settings.hooks.pre[role]]
<1>1. /\ phase = "configure" /\ step = "configured" /\ phase' = "pre" /\ identity' = role
      /\ drill' \in BOOLEAN /\ rollbackOn' \in {settings.rollbackEnabled, TRUE}
      /\ RunStage(s) /\ UNCHANGED configVars
  BY DEF RunPreHooks
<1>2. settings \in Settings /\ role \in Roles
  BY <1>1 DEF IInv, ConfigInv, ConfigTypeOK
<1>3. s \in StageType
  BY <1>2, StageTypes DEF IInv
<1>4. s.kind = "pre" /\ s.hooks = settings.hooks.pre[role]
  BY DEF NoStage
<1> HIDE DEF s
<1>5. HooksInv' /\ stage' = s
  BY <1>1, <1>3, StageStarts DEF IInv, RunStage
<1>6. ConfigInv'
  BY <1>1, ConfigFrame DEF IInv
<1>7. rollbackOn' \in BOOLEAN
  BY <1>1, <1>2, HookSettingsAssumption
<1>8. HostInv'
  BY <1>1, <1>2, <1>4, <1>5, <1>7 DEF HostInv, configVars, Roles
<1> QED BY <1>5, <1>6, <1>8 DEF IInv

(* A command that is run leaves a role, in a drill the one it finds. *)
LEMMA SetIdentityKeeps ==
    ASSUME IInv, SetIdentity \/ SetIdentityFails \/ SetIdentityHangs
    PROVE  IInv'
<1>1. /\ phase = "pre" /\ pc = "returned" /\ result = "ok" /\ identity' \in Roles
      /\ drill => identity' = identity
      /\ phase' \in {"moved", "failed", "hangs", "ended"}
      /\ (phase' = "failed" => ~drill)
      /\ UNCHANGED <<configVars, hooksVars, drill, rollbackOn>>
  BY DEF SetIdentity, SetIdentityFails, SetIdentityHangs, RunCommand
<1>2. ConfigInv' /\ HooksInv'
  BY <1>1, ConfigFrame, HooksFrame DEF IInv
<1>3. PreHooksPassed
  <2>1. RunsAsConfigured /\ stage.kind = "pre" /\ stage.hooks = settings.hooks.pre[role]
        /\ stage.hooks \in Seq(HookType)
    BY <1>1, HooksFollow, HookOfStage DEF IInv, HostInv, HooksInv
  <2>2. {i \in 1 .. Len(stage.hooks) : Stopping(stage.hooks[i])} = {}
    BY <1>1, <2>1 DEF RunsAsConfigured
  <2>3. DOMAIN stage.hooks = 1 .. Len(stage.hooks)
    BY <2>1
  <2> QED BY <2>1, <2>2, <2>3 DEF PreHooksPassed, Stopping
<1>4. step = "configured" /\ stage.kind = "pre" /\ identity = role
  BY <1>1 DEF IInv, HostInv
<1>5. PreHooksPassed' /\ UNCHANGED <<step, role, stage, settings>>
  BY <1>1, <1>3 DEF PreHooksPassed, configVars, hooksVars, stageVars
<1>6. HostInv'
  BY <1>1, <1>4, <1>5 DEF IInv, HostInv
<1> QED BY <1>2, <1>6 DEF IInv

LEMMA RollbackKeeps ==
    ASSUME IInv, Rollback
    PROVE  IInv'
<1>1. PICK lingers \in BOOLEAN, ok \in BOOLEAN : RollbackStage(lingers, ok)
  BY DEF Rollback
<1> DEFINE c == [exit |-> IF ok THEN "ok" ELSE "fail", lingers |-> lingers]
           s == [kind |-> "rollback", hooks |-> settings.hooks.rollback[role], command |-> c]
<1>2. /\ phase \in {"failed", "moved"} /\ phase' = "rollback" /\ identity' \in Roles
      /\ UNCHANGED <<configVars, drill, rollbackOn>> /\ RunStage(s) /\ ~drill
  BY <1>1 DEF Rollback, RollbackStage, IInv, HostInv
<1>3. step = "configured" /\ role \in Roles /\ PreHooksPassed
  BY <1>2 DEF IInv, HostInv, ConfigInv
<1>4. s \in StageType
  <2>1. c \in CommandType
    BY DEF CommandType
  <2> HIDE DEF c
  <2> QED BY <1>3, <2>1, StageTypes DEF IInv
<1>5. s.kind = "rollback" /\ s.hooks = settings.hooks.rollback[role]
  OBVIOUS
<1> HIDE DEF s
<1>6. HooksInv' /\ stage' = s
  BY <1>2, <1>4, StageStarts DEF IInv, RunStage
<1>7. ConfigInv'
  BY <1>2, ConfigFrame DEF IInv
<1>8. PreHooksPassed' /\ UNCHANGED <<step, role, settings>>
  BY <1>2, <1>3 DEF PreHooksPassed, configVars
<1>9. HostInv'
  BY <1>2, <1>3, <1>5, <1>6, <1>8 DEF IInv, HostInv
<1> QED BY <1>6, <1>7, <1>9 DEF IInv

LEMMA RunPostHooksKeeps ==
    ASSUME IInv, RunPostHooks
    PROVE  IInv'
<1> DEFINE s == [NoStage EXCEPT !.hooks = settings.hooks.post[Other(role)]]
<1>1. /\ phase = "moved" /\ phase' = "post" /\ RunStage(s)
      /\ UNCHANGED <<configVars, identity, drill, rollbackOn>>
  BY DEF RunPostHooks
<1>2. role \in Roles /\ PreHooksPassed
  BY <1>1 DEF IInv, HostInv, ConfigInv
<1>3. s \in StageType /\ s.kind = "post"
  BY <1>2, StageTypes DEF IInv, NoStage
<1> HIDE DEF s
<1>4. HooksInv' /\ stage' = s
  BY <1>1, <1>3, StageStarts DEF IInv, RunStage
<1>5. ConfigInv'
  BY <1>1, ConfigFrame DEF IInv
<1>6. PreHooksPassed' /\ UNCHANGED <<step, role, settings>>
  BY <1>1, <1>2 DEF PreHooksPassed, configVars
<1>7. HostInv'
  BY <1>1, <1>3, <1>4, <1>6 DEF IInv, HostInv
<1> QED BY <1>4, <1>5, <1>7 DEF IInv

(* A step of a stage leaves the stage as it is. *)
LEMMA StageKept == StageStep => UNCHANGED stage
  BY DEF StageStep, Program, Process, Reader, RollbackCommand, StartHook, StartFails, WaitReturns,
     Join, Return, WriteOutput, Exit, Scan, ScanEnds, stageVars

LEMMA OtherKeeps ==
    ASSUME IInv, Configure \/ End \/ RunStep \/ UNCHANGED vars
    PROVE  IInv'
<1>1. CASE Configure
  <2>1. /\ NewFromConfig /\ UNCHANGED hostVars /\ UNCHANGED hooksVars
    BY <1>1 DEF Configure
  <2>2. step # "configured"
    BY <2>1 DEF NewFromConfig, configureRPCClient, configureTowerFile,
       configureSetIdenttiyCommands, configureRollback, configurePeers, configureGossipNode,
       configureServer, configureTLS, configureBin, configureLedgerDir, configureIdentities,
       configurePublicIP, configureTimeAndHostname, At
  <2>3. phase = "configure" /\ stage.kind # "rollback"
    BY <2>2 DEF IInv, HostInv
  <2>4. ConfigInv' /\ HooksInv'
    BY <2>1, ConfigKept, HooksFrame DEF IInv
  <2>5. HostInv'
    BY <2>1, <2>3 DEF IInv, HostInv, hostVars, hooksVars, stageVars
  <2> QED BY <2>4, <2>5 DEF IInv
<1>2. CASE End \/ RunStep \/ UNCHANGED vars
  <2>1. UNCHANGED <<configVars, identity, drill, rollbackOn, stage>> /\ phase' \in {phase, "ended"}
        /\ (phase' # phase => phase # "configure")
    BY <1>2, StageKept DEF End, RunStep, vars, hostVars, hooksVars, stageVars
  <2>2. ConfigInv' /\ HooksInv'
    BY <1>2, ConfigFrame, HooksFrame, StageStepKeeps DEF End, RunStep, vars, IInv
  <2>3. UNCHANGED <<step, role, settings>> /\ PreHooksPassed' = PreHooksPassed
    BY <2>1 DEF configVars, PreHooksPassed
  <2>4. HostInv'
    BY <2>1, <2>3 DEF IInv, HostInv
  <2> QED BY <2>2, <2>4 DEF IInv
<1> QED BY <1>1, <1>2

LEMMA HostNextKeeps ==
    ASSUME IInv, [Next]_vars
    PROVE  IInv'
  BY RunPreHooksKeeps, SetIdentityKeeps, RollbackKeeps, RunPostHooksKeeps, OtherKeeps DEF Next

(* The invariant holds in every reachable state. *)
THEOREM HostInvariant == Spec => []IInv
<1>1. Init => IInv
  BY HostInitOK
<1>2. IInv /\ [Next]_vars => IInv'
  BY HostNextKeeps
<1> QED BY <1>1, <1>2, PTL DEF Spec

(* Every variable keeps its type, in the configuration, in the stages of    *)
(* hooks and in the run of the host.                                        *)
THEOREM HostTypeCorrect == Spec => []TypeOK
<1>1. IInv => TypeOK
  BY DEF IInv, HostInv, ConfigInv, HooksInv, TypeOK
<1> QED BY <1>1, HostInvariant, PTL

(* The commands of a configured validator are what its templates mean, word *)
(* for word, for every template and all settings whose paths are harmless.  *)
THEOREM CommandsAreMeant == Spec => []CommandsAsMeant
<1>1. IInv => CommandsAsMeant
  BY CommandsFollow DEF IInv
<1> QED BY <1>1, HostInvariant, PTL

(* Every stage runs its hooks in order, each once, up to the first pre hook *)
(* that must succeed and does not, and its result tells no more than that.  *)
THEOREM StagesRunAsConfigured == Spec => []RunsAsConfigured
<1>1. IInv => RunsAsConfigured
  BY HooksFollow DEF IInv
<1> QED BY <1>1, HostInvariant, PTL

(* No goroutine of a hook reads or logs any more when Run has returned. *)
THEOREM ReadersAreGone == Spec => []NoReaderLeft
<1>1. IInv => NoReaderLeft
  BY HooksFollow DEF IInv
<1> QED BY <1>1, HostInvariant, PTL

(* The standard variables reach every hook, unless a configured name        *)
(* differs from theirs in case only.                                        *)
THEOREM EnvironmentIsKept == Spec => []StandardEnvironmentKept
<1>1. IInv => StandardEnvironmentKept
  BY HooksFollow DEF IInv
<1> QED BY <1>1, HostInvariant, PTL

(* The host leaves the identity of its role only for real and after every   *)
(* pre hook that must succeed did.                                          *)
THEOREM PreHooksAreHonoured == Spec => []PreHooksGuard
<1>1. IInv => PreHooksGuard
  BY DEF IInv, HostInv, PreHooksGuard, PreHooksPassed
<1> QED BY <1>1, HostInvariant, PTL

(* A rollback whose command succeeded left the host with its own identity.  *)
Restores ==
    (stage.kind = "rollback" /\ stage.command.exit = "ok" /\ rollback[role] # <<>>)
        => identity = role

(* The command of a rollback cannot take the other role's identity. *)
LEMMA TakesItsOwn ==
    ASSUME OwnIdentities, ConfigInv, step = "configured", role \in Roles,
           Takes(rollback[role]) \in Roles
    PROVE  Takes(rollback[role]) = role
<1> DEFINE words == rollback[role]
           Right(r) == \E w \in Range(words) : w[1] \in {KeyFile(r), "back to " \o r}
<1>1. ComesFrom(words, MeantRollback(role))
  BY DEF ConfigInv, CommandsKnown, RollbackSet, CommandsSet, KeyFilesSet, LedgerDirSet, BinSet
<1>2. Range(MeantRollback(role)) \cap {KeyFile(Other(role)), "back to " \o Other(role)} = {}
  <2>1. settings \in Settings /\ MeantRollback(role) \in {settings.setIdentity[role], settings.rollback[role]}
    BY DEF ConfigInv, ConfigTypeOK, MeantRollback
  <2> QED BY <2>1 DEF OwnIdentities
<1>3. \A w \in Range(words) : w[1] \in Range(MeantRollback(role))
  BY <1>1, Zenon DEF ComesFrom, Range
<1>4. ~Right(Other(role))
  <2> DEFINE names == {KeyFile(Other(role)), "back to " \o Other(role)}
  <2>1. \A n \in Range(MeantRollback(role)) : n \notin names
    BY <1>2, Zenon
  <2> HIDE DEF names
  <2>2. ~\E w \in Range(words) : w[1] \in names
    BY <1>3, <2>1, Zenon
  <2> QED BY <2>2 DEF names
<1>5. "nobody" \notin Roles
  BY DEF Roles
<1>6. /\ \E r \in Roles : Right(r)
      /\ Takes(words) = CHOOSE r \in Roles : Right(r)
  BY <1>5, Zenon DEF Takes
<1>7. Takes(words) \in Roles /\ Right(Takes(words))
  <2> HIDE DEF Right
  <2> QED BY <1>6, Zenon
<1> HIDE DEF Right, words
<1>8. Takes(words) = role \/ Takes(words) = Other(role)
  BY <1>7 DEF Roles, Other
<1>9. Takes(words) = role
  BY <1>4, <1>7, <1>8, Zenon
<1> QED BY <1>9 DEF words

LEMMA RestoresNext ==
    ASSUME OwnIdentities, IInv, Restores, [Next]_vars
    PROVE  Restores'
<1>1. CASE Rollback
  <2>1. PICK lingers \in BOOLEAN, ok \in BOOLEAN : RollbackStage(lingers, ok)
    BY <1>1 DEF Rollback
  <2>2. /\ phase \in {"failed", "moved"} /\ ~drill /\ identity' \in Roles
        /\ UNCHANGED <<configVars, drill, rollbackOn>>
    BY <1>1, <2>1 DEF Rollback, RollbackStage, IInv, HostInv
  <2>3. step = "configured" /\ role \in Roles
    BY <2>2 DEF IInv, HostInv, ConfigInv
  <2>4. stage'.command.exit = "ok" <=> ok
    BY <2>1 DEF RollbackStage, RunStage
  <2>5. ok /\ rollback[role] # <<>> => identity' = role
    <3>1. SUFFICES ASSUME ok, rollback[role] # <<>> PROVE identity' = role
      OBVIOUS
    <3>2. Takes(rollback[role]) \in Roles /\ identity' = Takes(rollback[role])
      BY <2>1, <2>2, <3>1 DEF RollbackStage, RunCommand, Runs
    <3> QED BY <2>3, <3>2, TakesItsOwn DEF IInv
  <2>6. UNCHANGED <<role, rollback>>
    BY <2>2 DEF configVars, configured
  <2> QED BY <2>4, <2>5, <2>6 DEF Restores
<1>2. CASE RunPreHooks \/ RunPostHooks
  <2>1. stage'.kind \in {"pre", "post"}
    BY <1>2 DEF RunPreHooks, RunPostHooks, RunStage, NoStage
  <2> QED BY <2>1 DEF Restores
<1>3. CASE SetIdentity \/ SetIdentityFails \/ SetIdentityHangs
  <2>1. stage.kind = "pre" /\ UNCHANGED stage
    BY <1>3 DEF SetIdentity, SetIdentityFails, SetIdentityHangs, IInv, HostInv, hooksVars,
       stageVars
  <2> QED BY <2>1 DEF Restores
<1>4. CASE Configure
  <2>1. step # "configured" /\ UNCHANGED stage
    BY <1>4 DEF Configure, NewFromConfig, configureRPCClient, configureTowerFile,
       configureSetIdenttiyCommands, configureRollback, configurePeers, configureGossipNode,
       configureServer, configureTLS, configureBin, configureLedgerDir, configureIdentities,
       configurePublicIP, configureTimeAndHostname, At, hooksVars, stageVars
  <2>2. stage.kind # "rollback"
    BY <2>1 DEF IInv, HostInv
  <2> QED BY <2>1, <2>2 DEF Restores
<1>5. CASE End \/ RunStep \/ UNCHANGED vars
  <2>1. UNCHANGED <<stage, identity, configVars>>
    BY <1>5, StageKept DEF End, RunStep, vars, hooksVars, stageVars, hostVars
  <2>2. UNCHANGED <<role, rollback>>
    BY <2>1 DEF configVars, configured
  <2> QED BY <2>1, <2>2 DEF Restores
<1> QED BY <1>1, <1>2, <1>3, <1>4, <1>5 DEF Next

(* A rollback that runs a command and reports success gives the host back   *)
(* the identity it had, and every rollback runs all hooks of its direction, *)
(* if no command of a role names the key of the other one.  (One without a  *)
(* command to run reports success and restores nothing.)                    *)
THEOREM RollbacksRestore ==
    ASSUME OwnIdentities
    PROVE  Spec => []RollbackRestores
<1>1. Init => Restores
  BY DEF Init, HooksInit, NoStage, Restores
<1>2. IInv /\ Restores /\ [Next]_vars => Restores'
  BY RestoresNext
<1>3. IInv /\ Restores => RollbackRestores
  <2>1. SUFFICES ASSUME IInv, Restores, stage.kind = "rollback", pc = "returned"
                 PROVE  /\ result = "ok" /\ rollback[role] # <<>> => identity = role
                        /\ at = Len(settings.hooks.rollback[role])
    BY DEF RollbackRestores
  <2>2. RunsAsConfigured /\ stage.hooks = settings.hooks.rollback[role]
    BY <2>1, HooksFollow DEF IInv, HostInv
  <2>3. {i \in 1 .. Len(stage.hooks) : Stopping(stage.hooks[i])} = {}
    BY <2>1 DEF Stopping
  <2>4. at = Len(stage.hooks) /\ (result = "error" <=> stage.command.exit = "fail")
    BY <2>1, <2>2, <2>3 DEF RunsAsConfigured
  <2>5. result = "ok" => stage.command.exit = "ok"
    <3>1. stage.command \in CommandType
      <4> HIDE DEF CommandType, HookType
      <4>1. stage \in StageType
        BY <2>1 DEF IInv, HooksInv, HooksTypeOK
      <4> QED BY <4>1 DEF StageType
    <3> QED BY <2>4, <3>1 DEF CommandType
  <2> QED BY <2>1, <2>2, <2>4, <2>5 DEF Restores
<1> QED BY <1>1, <1>2, <1>3, HostInvariant, PTL DEF Spec
-------------------------------------------------------------------------------
(* What is printed to a stream from a to b is a number, and adds up. *)
LEMMA AmountAdds ==
    ASSUME NEW h, NEW s, NEW a \in Nat, NEW m \in Nat, NEW b \in Nat, a <= m + 1, m <= b
    PROVE  /\ Amount(h, s, a, b) \in Nat /\ Amount(h, s, a, m) \in Nat
           /\ Amount(h, s, a, b) = Amount(h, s, a, m) + Amount(h, s, m + 1, b)
<1> DEFINE low == {i \in a .. m : h.prints[i].to = s}
           high == {i \in m + 1 .. b : h.prints[i].to = s}
           all == {i \in a .. b : h.prints[i].to = s}
<1>1. IsFiniteSet(low) /\ IsFiniteSet(high)
  <2>1. IsFiniteSet(a .. m) /\ IsFiniteSet(m + 1 .. b)
    BY FS_Interval
  <2>2. low \in SUBSET (a .. m) /\ high \in SUBSET (m + 1 .. b)
    OBVIOUS
  <2> HIDE DEF low, high
  <2> QED BY <2>1, <2>2, FS_Subset
<1>2. all = low \cup high /\ low \cap high = {}
  <2>1. \A i \in a .. b : i \in a .. m \/ i \in m + 1 .. b
    OBVIOUS
  <2>2. \A i \in a .. m : i \in a .. b /\ i \notin m + 1 .. b
    OBVIOUS
  <2>3. \A i \in m + 1 .. b : i \in a .. b
    OBVIOUS
  <2> QED BY <2>1, <2>2, <2>3, Zenon
<1> HIDE DEF low, high, all
<1>3. Cardinality(all) = Cardinality(low) + Cardinality(high)
      /\ Cardinality(low) \in Nat /\ Cardinality(high) \in Nat
  <2>1. Cardinality(low \cup high) = Cardinality(low) + Cardinality(high) - Cardinality({})
    BY <1>1, <1>2, FS_Union
  <2>2. Cardinality(low) \in Nat /\ Cardinality(high) \in Nat /\ Cardinality({}) = 0
    BY <1>1, FS_CardinalityType, FS_EmptySet
  <2> QED BY <1>2, <2>1, <2>2
<1> QED BY <1>3 DEF Amount, low, high, all

(* One place counts for its own stream; none counts nothing, *)
LEMMA AmountOfOne ==
    ASSUME NEW h, NEW s, NEW a \in Nat
    PROVE  Amount(h, s, a, a) = IF h.prints[a].to = s THEN 1 ELSE 0
<1>1. CASE h.prints[a].to = s
  <2>1. {i \in a .. a : h.prints[i].to = s} = {a}
    BY <1>1
  <2> QED BY <1>1, <2>1, FS_Singleton, Zenon DEF Amount
<1>2. CASE h.prints[a].to # s
  <2>1. {i \in a .. a : h.prints[i].to = s} = {}
    BY <1>2
  <2> QED BY <1>2, <2>1, FS_EmptySet, Zenon DEF Amount
<1> QED BY <1>1, <1>2

LEMMA AmountOfNothing ==
    ASSUME NEW h, NEW s, NEW a \in Nat, NEW b \in Nat, b < a
    PROVE  Amount(h, s, a, b) = 0
<1>1. {i \in a .. b : h.prints[i].to = s} = {}
  OBVIOUS
<1> QED BY <1>1, FS_EmptySet DEF Amount

(* and nothing is counted only if there is nothing. *)
LEMMA AmountOfNone ==
    ASSUME NEW h, NEW s, NEW a \in Nat, NEW b \in Nat, Amount(h, s, a, b) = 0
    PROVE  \A i \in a .. b : h.prints[i].to # s
<1> DEFINE all == {i \in a .. b : h.prints[i].to = s}
<1>1. IsFiniteSet(a .. b) /\ all \in SUBSET (a .. b)
  BY FS_Interval
<1>2. Cardinality(all) = 0
  BY DEF Amount
<1>3. all = {}
  <2> HIDE DEF all
  <2> QED BY <1>1, <1>2, FS_Subset, FS_EmptySet
<1> QED BY <1>3

EndOf(s) == [to |-> s, what |-> "end"]

(* The scanner holds the n pieces to s from a to b, without an end of a     *)
(* line, and the pipe has those after them, up to k, in their order.        *)
Reads(h, s, k, p, n, a, b) ==
    /\ a \in 1 .. k + 1 /\ b \in a - 1 .. k
    /\ Amount(h, s, a, b) = n /\ \A i \in a .. b : h.prints[i] # EndOf(s)
    /\ Amount(h, s, b + 1, k) = Len(p)
    /\ \A j \in 1 .. Len(p) :
          \E i \in b + 1 .. k :
             h.prints[i] = [to |-> s, what |-> p[j]] /\ Amount(h, s, b + 1, i) = j

(* More is printed, to this stream or to the other. *)
LEMMA PrintsOn ==
    ASSUME NEW h \in HookType, NEW s \in Streams, NEW k \in Nat, k < Len(h.prints),
           NEW p \in Seq(Pieces), NEW n, NEW a, NEW b, Reads(h, s, k, p, n, a, b)
    PROVE  Reads(h, s, k + 1,
                 IF h.prints[k + 1].to = s THEN Append(p, h.prints[k + 1].what) ELSE p, n, a, b)
<1> DEFINE q == IF h.prints[k + 1].to = s THEN Append(p, h.prints[k + 1].what) ELSE p
<1>1. /\ a \in Nat /\ b \in Nat /\ a <= b + 1 /\ b <= k /\ a >= 1
      /\ a \in 1 .. (k + 1) + 1 /\ b \in a - 1 .. k + 1
  BY DEF Reads
<1>2. h.prints[k + 1] \in [to : Streams, what : Pieces]
  <2>1. h.prints \in Seq([to : Streams, what : Pieces]) /\ k + 1 \in 1 .. Len(h.prints)
    BY DEF HookType
  <2> DEFINE prints == h.prints
             what == [to : Streams, what : Pieces]
  <2>2. prints \in Seq(what) /\ k + 1 \in 1 .. Len(prints)
    BY <2>1
  <2>3. prints[k + 1] \in what
    <3> HIDE DEF prints, what
    <3> QED BY <2>2
  <2> QED BY <2>3
<1>3. h.prints[k + 1] = [to |-> h.prints[k + 1].to, what |-> h.prints[k + 1].what]
      /\ h.prints[k + 1].what \in Pieces
  BY <1>2
<1>4. /\ Amount(h, s, b + 1, k) = Len(p)
      /\ Amount(h, s, b + 1, k + 1) = Amount(h, s, b + 1, k) + Amount(h, s, k + 1, k + 1)
      /\ Amount(h, s, k + 1, k + 1) = IF h.prints[k + 1].to = s THEN 1 ELSE 0
  <2>1. b + 1 \in Nat /\ k \in Nat /\ k + 1 \in Nat /\ b + 1 <= k + 1 /\ k <= k + 1
    BY <1>1
  <2> QED BY <2>1, AmountAdds, AmountOfOne DEF Reads
<1>5. Amount(h, s, b + 1, k + 1) = Len(q)
  BY <1>3, <1>4
<1>6. ASSUME NEW j \in 1 .. Len(q)
      PROVE  \E i \in b + 1 .. k + 1 :
                h.prints[i] = [to |-> s, what |-> q[j]] /\ Amount(h, s, b + 1, i) = j
  <2>1. CASE j \in 1 .. Len(p)
    <3>1. q[j] = p[j]
      BY <1>3, <2>1
    <3>2. PICK i \in b + 1 .. k :
             h.prints[i] = [to |-> s, what |-> p[j]] /\ Amount(h, s, b + 1, i) = j
      BY <2>1 DEF Reads
    <3>3. i \in b + 1 .. k + 1
      BY <1>1
    <3> HIDE DEF q
    <3> QED BY <3>1, <3>2, <3>3
  <2>2. CASE j \notin 1 .. Len(p)
    <3>1. h.prints[k + 1].to = s /\ j = Len(p) + 1 /\ q[j] = h.prints[k + 1].what
      BY <1>3, <2>2
    <3>2. k + 1 \in b + 1 .. k + 1 /\ Amount(h, s, b + 1, k + 1) = j
      BY <1>1, <1>5, <1>4, <3>1
    <3> HIDE DEF q
    <3> QED BY <1>3, <3>1, <3>2
  <2> QED BY <2>1, <2>2
<1> HIDE DEF q
<1>7. Reads(h, s, k + 1, q, n, a, b)
  BY <1>1, <1>5, <1>6 DEF Reads
<1> QED BY <1>7 DEF q

(* The scanner takes the next piece, or the end of a line. *)
LEMMA ReadsOn ==
    ASSUME NEW h \in HookType, NEW s \in Streams, NEW k \in 0 .. Len(h.prints),
           NEW p \in Seq(Pieces), p # <<>>, NEW n \in Nat, NEW a, NEW b,
           Reads(h, s, k, p, n, a, b)
    PROVE  \E i \in b + 1 .. k :
             /\ Head(p) = "end" => Reads(h, s, k, Tail(p), 0, i + 1, i)
             /\ Head(p) = "piece" => Reads(h, s, k, Tail(p), n + 1, a, i)
<1>1. /\ a \in Nat /\ b \in Nat /\ k \in Nat /\ a <= b + 1 /\ b <= k /\ a >= 1
  BY DEF Reads
<1>2. /\ Len(p) \in Nat /\ Len(p) >= 1 /\ 1 \in 1 .. Len(p) /\ Head(p) = p[1]
      /\ Len(Tail(p)) = Len(p) - 1 /\ \A j \in 1 .. Len(p) - 1 : Tail(p)[j] = p[j + 1]
  OBVIOUS
<1>3. PICK i \in b + 1 .. k :
         h.prints[i] = [to |-> s, what |-> p[1]] /\ Amount(h, s, b + 1, i) = 1
  BY <1>2 DEF Reads
<1>4. i \in Nat /\ i >= b + 1 /\ i <= k /\ h.prints[i].to = s
  BY <1>1, <1>3
<1>5. \A j \in b + 1 .. i - 1 : h.prints[j].to # s
  <2>1. Amount(h, s, b + 1, i) = Amount(h, s, b + 1, i - 1) + Amount(h, s, i, i)
        /\ Amount(h, s, b + 1, i - 1) \in Nat
    <3>1. ASSUME NEW m \in Nat, m + 1 = i
          PROVE  Amount(h, s, b + 1, i) = Amount(h, s, b + 1, m) + Amount(h, s, m + 1, i)
                 /\ Amount(h, s, b + 1, m) \in Nat
      <4>1. b + 1 \in Nat /\ i \in Nat /\ b + 1 <= m + 1 /\ m <= i
        BY <1>1, <1>4, <3>1
      <4> QED BY <1>1, <4>1, AmountAdds
    <3>2. i - 1 \in Nat /\ (i - 1) + 1 = i
      BY <1>1, <1>4
    <3> QED BY <3>1, <3>2
  <2>2. Amount(h, s, i, i) = 1
    BY <1>4, AmountOfOne
  <2>3. Amount(h, s, b + 1, i - 1) = 0 /\ i - 1 \in Nat /\ b + 1 \in Nat
    BY <1>1, <1>3, <1>4, <2>1, <2>2
  <2> QED BY <2>3, AmountOfNone
<1>6. Amount(h, s, i + 1, k) = Len(Tail(p))
  <2>1. Amount(h, s, b + 1, k) = Amount(h, s, b + 1, i) + Amount(h, s, i + 1, k)
    BY <1>1, <1>4, AmountAdds
  <2>2. Amount(h, s, b + 1, k) = Len(p)
    BY DEF Reads
  <2>3. Amount(h, s, i + 1, k) \in Nat
    <3>1. i + 1 \in Nat /\ i + 1 <= k + 1 /\ k <= k
      BY <1>1, <1>4
    <3> QED BY <1>1, <3>1, AmountAdds
  <2>4. Len(p) = 1 + Amount(h, s, i + 1, k)
    BY <1>3, <2>1, <2>2
  <2> QED BY <1>2, <2>3, <2>4
<1>7. ASSUME NEW j \in 1 .. Len(Tail(p))
      PROVE  \E l \in i + 1 .. k :
                h.prints[l] = [to |-> s, what |-> Tail(p)[j]] /\ Amount(h, s, i + 1, l) = j
  <2>1. j + 1 \in 1 .. Len(p) /\ j \in Nat /\ j >= 1 /\ Tail(p)[j] = p[j + 1]
    BY <1>2
  <2>2. PICK l \in b + 1 .. k :
           h.prints[l] = [to |-> s, what |-> p[j + 1]] /\ Amount(h, s, b + 1, l) = j + 1
    BY <2>1 DEF Reads
  <2>3. l \in Nat /\ l >= b + 1 /\ l <= k
    BY <1>1, <2>2
  <2>4. l > i
    <3>1. SUFFICES ASSUME l <= i PROVE FALSE
      BY <1>4, <2>3
    <3>2. Amount(h, s, b + 1, i) = Amount(h, s, b + 1, l) + Amount(h, s, l + 1, i)
      BY <1>1, <1>4, <2>3, <3>1, AmountAdds
    <3>3. Amount(h, s, l + 1, i) \in Nat
      <4>1. l + 1 \in Nat /\ l + 1 <= i + 1 /\ i <= i
        BY <1>4, <2>3, <3>1
      <4> QED BY <1>4, <4>1, AmountAdds
    <3> QED BY <1>3, <2>1, <2>2, <3>2, <3>3
  <2>5. Amount(h, s, b + 1, l) = Amount(h, s, b + 1, i) + Amount(h, s, i + 1, l)
    BY <1>1, <1>4, <2>3, <2>4, AmountAdds
  <2>6. Amount(h, s, i + 1, l) = j
    <3>1. Amount(h, s, i + 1, l) \in Nat
      <4>1. i + 1 \in Nat /\ i + 1 <= l + 1 /\ l <= l
        BY <1>4, <2>3, <2>4
      <4> QED BY <2>3, <4>1, AmountAdds
    <3> QED BY <1>3, <2>1, <2>2, <2>5, <3>1
  <2>7. l \in i + 1 .. k
    BY <1>4, <2>3, <2>4
  <2> QED BY <2>1, <2>2, <2>6, <2>7
<1>8. Head(p) = "end" => Reads(h, s, k, Tail(p), 0, i + 1, i)
  <2>1. i + 1 \in 1 .. k + 1 /\ i \in (i + 1) - 1 .. k
    BY <1>1, <1>4
  <2>2. Amount(h, s, i + 1, i) = 0
    <3>1. i + 1 \in Nat /\ i < i + 1
      BY <1>4
    <3> QED BY <1>4, <3>1, AmountOfNothing
  <2>3. \A l \in i + 1 .. i : h.prints[l] # EndOf(s)
    BY <1>4
  <2> QED BY <1>6, <1>7, <2>1, <2>2, <2>3 DEF Reads
<1>9. Head(p) = "piece" => Reads(h, s, k, Tail(p), n + 1, a, i)
  <2>1. SUFFICES ASSUME Head(p) = "piece" PROVE Reads(h, s, k, Tail(p), n + 1, a, i)
    OBVIOUS
  <2>2. a \in 1 .. k + 1 /\ i \in a - 1 .. k
    BY <1>1, <1>4 DEF Reads
  <2>3. Amount(h, s, a, i) = n + 1
    <3>1. Amount(h, s, a, i) = Amount(h, s, a, b) + Amount(h, s, b + 1, i)
      BY <1>1, <1>4, AmountAdds
    <3> QED BY <1>3, <3>1 DEF Reads
  <2>4. ASSUME NEW l \in a .. i PROVE h.prints[l] # EndOf(s)
    <3>1. l \in a .. b \/ l \in b + 1 .. i - 1 \/ l = i
      BY <1>1, <1>4
    <3>2. CASE l \in a .. b
      BY <3>2 DEF Reads
    <3>3. CASE l \in b + 1 .. i - 1
      <4>1. h.prints[l].to # s /\ EndOf(s).to = s
        BY <1>5, <3>3 DEF EndOf
      <4> QED BY <4>1
    <3>4. CASE l = i
      <4>1. h.prints[l].what = "piece" /\ EndOf(s).what = "end"
        BY <1>2, <1>3, <2>1, <3>4 DEF EndOf
      <4> QED BY <4>1
    <3> QED BY <3>1, <3>2, <3>3, <3>4
  <2> QED BY <1>6, <1>7, <2>2, <2>3, <2>4 DEF Reads
<1> QED BY <1>8, <1>9

(* A scanner that has filled its buffer has met a line that is too long. *)
LEMMA ReadsShort ==
    ASSUME NEW h \in HookType, NEW s \in Streams, NEW k \in 0 .. Len(h.prints),
           NEW p, NEW n, NEW a, NEW b, Reads(h, s, k, p, n, a, b), ~Overlong(h)
    PROVE  n < MaxToken
<1>1. h.prints \in Seq([to : Streams, what : Pieces])
  BY DEF HookType
<1>2. /\ a \in Nat /\ b \in Nat /\ k \in Nat /\ a >= 1 /\ a <= b + 1 /\ b <= k /\ MaxToken \in Nat
      /\ MaxToken > 0 /\ DOMAIN h.prints = 1 .. Len(h.prints) /\ Len(h.prints) \in Nat
  BY <1>1, HooksAssumption DEF Reads
<1>3. Amount(h, s, a, b) = n /\ n \in Nat
  <2>1. Amount(h, s, a, b) \in Nat
    BY <1>2, AmountAdds
  <2> QED BY <2>1 DEF Reads
<1>4. CASE b < a
  <2>1. n = 0
    BY <1>2, <1>3, <1>4, AmountOfNothing
  <2> QED BY <1>2, <2>1
<1>5. CASE a <= b
  <2>1. a \in DOMAIN h.prints /\ b \in DOMAIN h.prints
    BY <1>2, <1>5
  <2>2. \A i \in a .. b : h.prints[i] # [to |-> s, what |-> "end"]
    BY DEF Reads, EndOf
  <2>3. ~(Amount(h, s, a, b) >= MaxToken)
    BY <2>1, <2>2, Zenon DEF Overlong
  <2> QED BY <1>2, <1>3, <2>3
<1> QED BY <1>2, <1>4, <1>5

(* The hook that Run waits for starts, has no line that is too long, and    *)
(* leaves no child behind.                                                  *)
Modest == hook.starts /\ ~Overlong(hook) /\ ~hook.lingers

(* What it has printed is in the log, in the scanners and in the pipes.     *)
Written == Len(hook.prints) - Len(left)

Flows(s) ==
    /\ logged[s] + held[s] + Len(pipe[s]) = Amount(hook, s, 1, Written)
    /\ IF reader[s] = "reading"
       THEN \E a, b \in 0 .. Len(hook.prints) + 1 :
               Reads(hook, s, Written, pipe[s], held[s], a, b)
       ELSE held[s] = 0

Flowing ==
    pc \in {"waiting", "joining"} /\ Modest =>
        /\ Len(left) <= Len(hook.prints)
        /\ \A i \in 1 .. Len(left) : left[i] = hook.prints[Written + i]
        /\ process = "running" \/ left = <<>>
        /\ pc = "joining" => process # "running"
        /\ \A s \in Streams : Flows(s)

OutputInv == Flowing /\ LostAtMostAPipe

(* The types that the steps below need. *)
LEMMA OutputTypes ==
    ASSUME HooksInv
    PROVE  /\ left \in Seq([to : Streams, what : Pieces]) /\ Len(left) \in Nat
           /\ pipe \in [Streams -> Seq(Pieces)]
           /\ held \in [Streams -> 0 .. MaxToken] /\ logged \in [Streams -> Nat]
           /\ \A s \in Streams : /\ Len(pipe[s]) \in Nat /\ Len(pipe[s]) <= PipeCapacity
                                 /\ held[s] \in Nat /\ logged[s] \in Nat
           /\ PipeCapacity \in Nat /\ MaxToken \in Nat
           /\ pc \in {"waiting", "joining"} =>
                /\ hook \in HookType /\ hook.prints \in Seq([to : Streams, what : Pieces])
                /\ Len(hook.prints) \in Nat
<1>1. /\ left \in Seq([to : Streams, what : Pieces])
      /\ pipe \in [Streams -> Seq(Pieces)]
      /\ held \in [Streams -> 0 .. MaxToken] /\ logged \in [Streams -> Nat]
      /\ \A s \in Streams : Len(pipe[s]) <= PipeCapacity
      /\ PipeCapacity \in Nat /\ MaxToken \in Nat
  BY HooksAssumption DEF HooksInv, HooksTypeOK
<1>2. Len(left) \in Nat
  BY <1>1, LenProperties
<1>3. \A s \in Streams : Len(pipe[s]) \in Nat /\ held[s] \in Nat /\ logged[s] \in Nat
  <2> TAKE s \in Streams
  <2>1. pipe[s] \in Seq(Pieces) /\ held[s] \in 0 .. MaxToken /\ logged[s] \in Nat
    BY <1>1
  <2> QED BY <1>1, <2>1, LenProperties
<1>4. pc \in {"waiting", "joining"} => hook \in HookType
  BY HookOfStage DEF HooksInv, Loop
<1>5. \A h \in HookType : h.prints \in Seq([to : Streams, what : Pieces])
  BY DEF HookType
<1>6. pc \in {"waiting", "joining"} => Len(hook.prints) \in Nat
  BY <1>4, <1>5, LenProperties
<1> HIDE DEF HookType
<1> QED BY <1>1, <1>2, <1>3, <1>4, <1>5, <1>6

LEMMA LostFrame ==
    ASSUME LostAtMostAPipe, UNCHANGED <<stage, at, logged>>,
           pc' \in {"next", "returned"} => pc \in {"next", "returned"} \/ ~(at > 0)
    PROVE  LostAtMostAPipe'
<1>1. hook' = hook
  BY DEF hook
<1> QED BY <1>1 DEF LostAtMostAPipe

LEMMA FlowingFrame ==
    ASSUME Flowing, UNCHANGED <<stage, at, left, pipe, reader, held, logged>>,
           pc' \in {"waiting", "joining"} => pc \in {"waiting", "joining"},
           process' = "running" \/ UNCHANGED process \/ left = <<>> \/ ~Modest,
           pc' = "joining" => process' # "running"
    PROVE  Flowing'
<1>1. hook' = hook /\ Written' = Written
  BY DEF hook, Written
<1>2. Modest' = Modest /\ \A s \in Streams : Flows(s)' = Flows(s)
  BY <1>1 DEF Modest, Flows
<1> QED BY <1>1, <1>2 DEF Flowing

(* A hook that is started has printed nothing. *)
LEMMA StartHookFlows ==
    ASSUME HooksInv, HooksInv', OutputInv, StartHook
    PROVE  OutputInv'
<1>1. /\ at' = at + 1 /\ UNCHANGED stage /\ left' = stage.hooks[at + 1].prints /\ process' = "running"
      /\ reader' = [s \in Streams |-> "reading"] /\ pipe' = Empty /\ held' = Zero /\ logged' = Zero
      /\ pc' = "waiting"
  BY DEF StartHook
<1>2. hook' = stage.hooks[at + 1] /\ left' = hook'.prints
  BY <1>1 DEF hook
<1>3. Len(left') \in Nat
  <2>1. left' \in Seq([to : Streams, what : Pieces])
    BY DEF HooksInv, HooksTypeOK
  <2> QED BY <2>1, LenProperties
<1>4. Written' = 0 /\ Len(left') <= Len(hook'.prints)
  BY <1>2, <1>3 DEF Written
<1>5. ASSUME NEW s \in Streams PROVE Flows(s)'
  <2>1. pipe'[s] = <<>> /\ held'[s] = 0 /\ logged'[s] = 0 /\ reader'[s] = "reading" /\ Len(<<>>) = 0
    BY <1>1 DEF Empty, Zero
  <2>2. \A h : Amount(h, s, 1, 0) = 0
    BY AmountOfNothing
  <2>3. Reads(hook', s, 0, <<>>, 0, 1, 0)
    BY <2>2 DEF Reads
  <2>4. 0 \in 0 .. Len(hook'.prints) + 1 /\ 1 \in 0 .. Len(hook'.prints) + 1
    BY <1>2, <1>3
  <2>5. \E a, b \in 0 .. Len(hook'.prints) + 1 :
           Reads(hook', s, Written', pipe'[s], held'[s], a, b)
    BY <1>4, <2>1, <2>3, <2>4
  <2>6. logged'[s] + held'[s] + Len(pipe'[s]) = Amount(hook', s, 1, Written')
    BY <1>4, <2>1, <2>2
  <2> QED BY <2>1, <2>5, <2>6 DEF Flows
<1>6. \A i \in 1 .. Len(left') : left'[i] = hook'.prints[Written' + i]
  BY <1>2, <1>3, <1>4
<1>7. Flowing'
  BY <1>1, <1>4, <1>5, <1>6 DEF Flowing
<1>8. LostAtMostAPipe'
  BY <1>1 DEF LostAtMostAPipe
<1> QED BY <1>7, <1>8 DEF OutputInv

(* The process prints into a pipe. *)
LEMMA WriteOutputFlows ==
    ASSUME HooksInv, OutputInv, WriteOutput
    PROVE  OutputInv'
<1> DEFINE t == Head(left).to
<1>1. /\ UNCHANGED <<stage, at, pc, process, reader, held, logged>> /\ Writers /\ left # <<>>
      /\ pipe' = [pipe EXCEPT ![t] = Append(pipe[t], Head(left).what)]
      /\ left' = Tail(left)
  BY DEF WriteOutput, stageVars
<1>2. LostAtMostAPipe'
  BY <1>1, LostFrame DEF OutputInv
<1>3. hook' = hook /\ Modest' = Modest
  BY <1>1 DEF hook, Modest
<1>4. SUFFICES ASSUME pc \in {"waiting", "joining"}, Modest
               PROVE  /\ Len(left') <= Len(hook.prints)
                      /\ \A i \in 1 .. Len(left') : left'[i] = hook.prints[Written' + i]
                      /\ process = "running" /\ pc # "joining"
                      /\ \A s \in Streams : Flows(s)'
  BY <1>1, <1>2, <1>3 DEF OutputInv, Flowing
<1> DEFINE n == Len(hook.prints)
           m == Len(left)
           k == Written
<1>5. /\ m \in Nat /\ n \in Nat /\ m <= n /\ k = n - m
      /\ \A i \in 1 .. m : left[i] = hook.prints[k + i]
      /\ \A s \in Streams : Flows(s)
      /\ hook \in HookType
  BY <1>4, OutputTypes DEF OutputInv, Flowing, Written
<1>6. process = "running" /\ pc # "joining"
  BY <1>1, <1>4 DEF OutputInv, Flowing, Modest, Writers
<1>7. /\ Head(left) = left[1] /\ m >= 1 /\ Len(left') = m - 1
      /\ \A i \in 1 .. m - 1 : left'[i] = left[i + 1]
      /\ left[1] \in [to : Streams, what : Pieces]
  <2> DEFINE T == [to : Streams, what : Pieces]
  <2>1. left \in Seq(T) /\ left # <<>> /\ left' = Tail(left)
    BY <1>1, OutputTypes
  <2>2. /\ Head(left) = left[1] /\ m >= 1 /\ Len(left') = m - 1
        /\ \A i \in 1 .. m - 1 : left'[i] = left[i + 1]
        /\ left[1] \in T
    <3> HIDE DEF T
    <3> QED BY <2>1
  <2> QED BY <2>2
<1>8. k \in Nat /\ k < n /\ k \in 0 .. n /\ Written' = k + 1
  BY <1>3, <1>5, <1>7 DEF Written
<1>9. Head(left) = hook.prints[k + 1]
  BY <1>5, <1>7
<1>10. \A i \in 1 .. Len(left') : left'[i] = hook.prints[Written' + i]
  <2> TAKE i \in 1 .. Len(left')
  <2>1. i \in 1 .. m - 1 /\ i + 1 \in 1 .. m /\ k + (i + 1) = Written' + i
    <3>1. i \in 1 .. m - 1 /\ m \in Nat /\ k \in Nat /\ Written' = k + 1
      BY <1>5, <1>7, <1>8
    <3> HIDE DEF m, k
    <3>2. i \in Int /\ i >= 1 /\ i <= m - 1
      BY <3>1
    <3> QED BY <3>1, <3>2
  <2>2. left'[i] = left[i + 1] /\ left[i + 1] = hook.prints[k + (i + 1)]
    BY <1>5, <1>7, <2>1
  <2> QED BY <2>1, <2>2
<1> HIDE DEF k
<1>11. ASSUME NEW s \in Streams PROVE Flows(s)'
  <2> DEFINE next == hook.prints[k + 1]
  <2>1. /\ next.to \in Streams /\ next.what \in Pieces
        /\ pipe' = [pipe EXCEPT ![next.to] = Append(pipe[next.to], next.what)]
    BY <1>1, <1>7, <1>9
  <2>2. /\ pipe \in [Streams -> Seq(Pieces)] /\ pipe[s] \in Seq(Pieces)
        /\ held[s] \in Nat /\ logged[s] \in Nat /\ Len(pipe[s]) \in Nat
    BY OutputTypes
  <2>3. pipe'[s] = IF next.to = s THEN Append(pipe[s], next.what) ELSE pipe[s]
    BY <2>1, <2>2
  <2>4. Len(pipe'[s]) = IF next.to = s THEN Len(pipe[s]) + 1 ELSE Len(pipe[s])
    BY <2>1, <2>2, <2>3
  <2>5. logged[s] + held[s] + Len(pipe[s]) = Amount(hook, s, 1, k)
    BY <1>5 DEF Flows, k
  <2>6. Amount(hook, s, 1, k + 1) = Amount(hook, s, 1, k) + IF next.to = s THEN 1 ELSE 0
    <3>1. Amount(hook, s, k + 1, k + 1) = IF next.to = s THEN 1 ELSE 0
      BY <1>8, AmountOfOne
    <3>2. Amount(hook, s, 1, k + 1) = Amount(hook, s, 1, k) + Amount(hook, s, k + 1, k + 1)
      BY <1>8, AmountAdds
    <3> QED BY <3>1, <3>2
  <2>7. logged[s] + held[s] + Len(pipe'[s]) = Amount(hook, s, 1, k + 1)
    <3> HIDE DEF next
    <3> QED BY <2>2, <2>4, <2>5, <2>6
  <2>8. CASE reader[s] = "reading"
    <3>1. PICK a \in 0 .. n + 1, b \in 0 .. n + 1 : Reads(hook, s, k, pipe[s], held[s], a, b)
      BY <1>5, <2>8 DEF Flows, k
    <3>2. Reads(hook, s, k + 1, pipe'[s], held[s], a, b)
      BY <1>5, <1>8, <2>2, <2>3, <3>1, PrintsOn
    <3> QED BY <1>1, <1>3, <1>8, <2>7, <2>8, <3>2 DEF Flows
  <2>9. CASE reader[s] # "reading"
    <3>1. held[s] = 0
      BY <1>5, <2>9 DEF Flows
    <3> QED BY <1>1, <1>3, <1>8, <2>7, <2>9, <3>1 DEF Flows
  <2> QED BY <2>8, <2>9
<1> QED BY <1>5, <1>6, <1>7, <1>10, <1>11

(* A scanner reads from its pipe, or comes to its end. *)
LEMMA ReaderFlows ==
    ASSUME HooksInv, OutputInv, NEW s \in Streams, Reader(s)
    PROVE  OutputInv'
<1>1. /\ UNCHANGED <<stage, at, pc, process, open, env, left>>
      /\ reader[s] = "reading"
  BY DEF Reader, Scan, ScanEnds, stageVars
<1>2. pc \in {"waiting", "joining"}
  BY <1>1 DEF HooksInv, Lives
<1>3. LostAtMostAPipe'
  BY <1>1, <1>2 DEF LostAtMostAPipe
<1>4. hook' = hook /\ Modest' = Modest /\ Written' = Written
  BY <1>1 DEF hook, Modest, Written
<1>5. SUFFICES ASSUME Modest PROVE \A x \in Streams : Flows(x)'
  BY <1>1, <1>2, <1>3, <1>4 DEF OutputInv, Flowing
<1> DEFINE n == Len(hook.prints)
           k == Written
<1>6. /\ n \in Nat /\ k \in 0 .. n /\ k \in Nat /\ hook \in HookType
      /\ \A x \in Streams : Flows(x)
  <2>1. Len(left) \in Nat /\ n \in Nat /\ Len(left) <= n /\ hook \in HookType
        /\ \A x \in Streams : Flows(x)
    BY <1>2, <1>5, OutputTypes DEF OutputInv, Flowing
  <2> QED BY <2>1 DEF Written
<1>7. /\ pipe \in [Streams -> Seq(Pieces)] /\ held \in [Streams -> 0 .. MaxToken]
      /\ logged \in [Streams -> Nat] /\ reader \in [Streams -> {"none", "reading", "ended"}]
      /\ pipe[s] \in Seq(Pieces) /\ Len(pipe[s]) \in Nat /\ held[s] \in Nat /\ logged[s] \in Nat
      /\ MaxToken \in Nat
  BY OutputTypes DEF HooksInv, HooksTypeOK
<1>8. ASSUME NEW x \in Streams, x # s PROVE Flows(x)'
  <2>1. pipe'[x] = pipe[x] /\ held'[x] = held[x] /\ logged'[x] = logged[x] /\ reader'[x] = reader[x]
    <3>1. pipe' = pipe \/ \E v : pipe' = [pipe EXCEPT ![s] = v]
      BY Zenon DEF Reader, Scan, ScanEnds
    <3>2. \E v : held' = [held EXCEPT ![s] = v]
      BY Zenon DEF Reader, Scan, ScanEnds
    <3>3. logged' = logged \/ \E v : logged' = [logged EXCEPT ![s] = v]
      BY Zenon DEF Reader, Scan, ScanEnds
    <3>4. reader' = reader \/ \E v : reader' = [reader EXCEPT ![s] = v]
      BY Zenon DEF Reader, Scan, ScanEnds
    <3> QED BY <1>7, <1>8, <3>1, <3>2, <3>3, <3>4
  <2> QED BY <1>4, <1>6, <2>1 DEF Flows
<1>9. Flows(s)'
  <2>1. logged[s] + held[s] + Len(pipe[s]) = Amount(hook, s, 1, k)
    BY <1>6 DEF Flows
  <2>2. PICK a \in 0 .. n + 1, b \in 0 .. n + 1 : Reads(hook, s, k, pipe[s], held[s], a, b)
    BY <1>1, <1>6 DEF Flows
  <2>3. CASE ScanEnds(s)
    <3>1. /\ logged' = [logged EXCEPT ![s] = logged[s] + held[s]] /\ held' = [held EXCEPT ![s] = 0]
          /\ reader' = [reader EXCEPT ![s] = "ended"] /\ pipe' = pipe
      BY <2>3 DEF ScanEnds
    <3>2. logged'[s] = logged[s] + held[s] /\ held'[s] = 0 /\ reader'[s] = "ended"
      BY <1>7, <3>1
    <3>3. logged'[s] + held'[s] + Len(pipe'[s]) = Amount(hook', s, 1, Written')
      BY <1>4, <1>7, <2>1, <3>1, <3>2
    <3> QED BY <3>2, <3>3 DEF Flows
  <2>4. CASE Scan(s)
    <3>1. pipe[s] # <<>> /\ pipe' = [pipe EXCEPT ![s] = Tail(pipe[s])]
      BY <2>4 DEF Scan
    <3>2. pipe'[s] = Tail(pipe[s]) /\ Len(Tail(pipe[s])) = Len(pipe[s]) - 1
      BY <1>7, <3>1
    <3>3. PICK i \in b + 1 .. k :
             /\ Head(pipe[s]) = "end" => Reads(hook, s, k, Tail(pipe[s]), 0, i + 1, i)
             /\ Head(pipe[s]) = "piece" => Reads(hook, s, k, Tail(pipe[s]), held[s] + 1, a, i)
      BY <1>6, <1>7, <2>2, <3>1, ReadsOn
    <3>4. i \in 0 .. n + 1 /\ i + 1 \in 0 .. n + 1
      BY <1>6, <3>3
    <3>5. CASE Head(pipe[s]) = "end"
      <4>1. /\ logged' = [logged EXCEPT ![s] = logged[s] + held[s] + 1]
            /\ held' = [held EXCEPT ![s] = 0] /\ UNCHANGED reader
        BY <2>4, <3>5 DEF Scan
      <4>2. logged'[s] = logged[s] + held[s] + 1 /\ held'[s] = 0
        BY <1>7, <4>1
      <4>3. logged'[s] + held'[s] + Len(pipe'[s]) = Amount(hook', s, 1, Written')
        <5>1. logged'[s] + held'[s] + Len(pipe'[s]) = logged[s] + held[s] + Len(pipe[s])
          <6> DEFINE l == Len(pipe[s])
          <6>1. l \in Nat /\ held[s] \in Nat /\ logged[s] \in Nat /\ Len(pipe'[s]) = l - 1
            BY <1>7, <3>2
          <6> HIDE DEF l
          <6>2. logged'[s] + held'[s] + Len(pipe'[s]) = logged[s] + held[s] + l
            BY SMTT(30), <4>2, <6>1
          <6> QED BY <6>2 DEF l
        <5> QED BY <1>4, <2>1, <5>1
      <4>4. Reads(hook', s, Written', pipe'[s], held'[s], i + 1, i)
        BY <1>4, <3>2, <3>3, <3>5, <4>2
      <4> QED BY <1>1, <1>4, <3>4, <4>1, <4>3, <4>4 DEF Flows
    <3>6. CASE Head(pipe[s]) = "piece"
      <4>1. /\ held' = [held EXCEPT ![s] = held[s] + 1] /\ UNCHANGED logged
            /\ reader' = [reader EXCEPT ![s] = IF held'[s] = MaxToken THEN "ended" ELSE reader[s]]
        BY <2>4, <3>6 DEF Scan
      <4>2. held'[s] = held[s] + 1
        BY <1>7, <4>1
      <4>3. held[s] + 1 < MaxToken
        BY <1>5, <1>6, <3>3, <3>6, ReadsShort DEF Modest
      <4>4. reader'[s] = "reading"
        BY <1>1, <1>7, <4>1, <4>2, <4>3
      <4>5. logged'[s] + held'[s] + Len(pipe'[s]) = Amount(hook', s, 1, Written')
        <5>1. logged'[s] + held'[s] + Len(pipe'[s]) = logged[s] + held[s] + Len(pipe[s])
          <6> DEFINE l == Len(pipe[s])
          <6>1. l \in Nat /\ held[s] \in Nat /\ logged[s] \in Nat /\ Len(pipe'[s]) = l - 1
            BY <1>7, <3>2
          <6> HIDE DEF l
          <6>2. logged'[s] + held'[s] + Len(pipe'[s]) = logged[s] + held[s] + l
            BY <4>1, <4>2, <6>1
          <6> QED BY <6>2 DEF l
        <5> QED BY <1>4, <2>1, <5>1
      <4>6. Reads(hook', s, Written', pipe'[s], held'[s], a, i)
        BY <1>4, <3>2, <3>3, <3>6, <4>2
      <4> QED BY <1>4, <3>4, <4>4, <4>5, <4>6 DEF Flows
    <3>7. Head(pipe[s]) \in Pieces
      BY <1>7, <3>1
    <3> QED BY <3>5, <3>6, <3>7 DEF Pieces
  <2> QED BY <2>3, <2>4 DEF Reader
<1> QED BY <1>8, <1>9

(* Run returns when the process has printed everything and the scanners     *)
(* have ended: what is not logged is in the pipes.                          *)
LEMMA JoinFlows ==
    ASSUME HooksInv, OutputInv, Join
    PROVE  OutputInv'
<1>1. /\ UNCHANGED <<stage, at, logged>> /\ pc = "joining" /\ pc' \in {"next", "returned"}
      /\ \A s \in Streams : reader[s] = "ended"
  BY DEF Join, HookEnds, outputVars
<1>2. hook' = hook /\ Modest' = Modest
  BY <1>1 DEF hook, Modest
<1>3. ASSUME Modest, NEW s \in Streams PROVE logged[s] + PipeCapacity >= PiecesOf(hook, s)
  <2>1. /\ left = <<>> /\ logged[s] + held[s] + Len(pipe[s]) = Amount(hook, s, 1, Written)
        /\ held[s] = 0
    BY <1>1, <1>3 DEF OutputInv, Flowing, Flows
  <2>2. /\ Len(pipe[s]) \in Nat /\ Len(pipe[s]) <= PipeCapacity /\ logged[s] \in Nat
        /\ PipeCapacity \in Nat /\ Len(hook.prints) \in Nat
    BY <1>1, OutputTypes
  <2>3. Written = Len(hook.prints)
    BY <2>1, <2>2 DEF Written
  <2>4. logged[s] + Len(pipe[s]) = PiecesOf(hook, s)
    BY <2>1, <2>2, <2>3 DEF PiecesOf
  <2> QED BY <2>2, <2>4
<1>4. LostAtMostAPipe'
  <2>1. Modest => \A s \in Streams : logged'[s] + PipeCapacity >= PiecesOf(hook', s)
    BY <1>1, <1>2, <1>3
  <2>2. Modest' <=> hook'.starts /\ ~Overlong(hook') /\ ~hook'.lingers
    BY DEF Modest
  <2> QED BY <1>2, <2>1, <2>2 DEF LostAtMostAPipe
<1> QED BY <1>1, <1>4 DEF OutputInv, Flowing

LEMMA StageFlows ==
    ASSUME HooksInv, HooksInv', OutputInv, StageStep
    PROVE  OutputInv'
<1>1. CASE Exit
  <2>1. /\ UNCHANGED <<stage, at, left, pipe, reader, held, logged, pc>>
        /\ process = "running" /\ process' = "exited" /\ (left = <<>> \/ hook.lingers)
    BY <1>1 DEF Exit, stageVars, outputVars
  <2>2. left = <<>> \/ ~Modest
    BY <2>1 DEF Modest
  <2> QED BY <2>1, <2>2, LostFrame, FlowingFrame DEF OutputInv
<1>2. CASE WaitReturns
  <2>1. /\ UNCHANGED <<stage, at, left, pipe, reader, held, logged, process>>
        /\ pc = "waiting" /\ process = "exited" /\ pc' = "joining"
    BY <1>2 DEF WaitReturns, stageVars, outputVars
  <2> QED BY <2>1, LostFrame, FlowingFrame DEF OutputInv
<1>3. CASE Return \/ RollbackCommand
  <2>1. /\ UNCHANGED <<stage, at, left, pipe, reader, held, logged, process>>
        /\ pc' \in {"next", "returned"} /\ (pc = "next" \/ ~(at > 0))
    BY <1>3 DEF Return, RollbackCommand, stageVars, outputVars, HooksInv, Loop
  <2> QED BY <2>1, LostFrame, FlowingFrame DEF OutputInv
<1>4. CASE StartFails
  <2>1. UNCHANGED stage /\ pc' \in {"next", "returned"} /\ at' = at + 1
        /\ ~stage.hooks[at + 1].starts
    BY <1>4 DEF StartFails, HookEnds
  <2> QED BY <2>1 DEF OutputInv, Flowing, LostAtMostAPipe, hook
<1> QED BY <1>1, <1>2, <1>3, <1>4, StartHookFlows, WriteOutputFlows, ReaderFlows, JoinFlows
    DEF StageStep, Program, Process

(* All of it holds in every reachable state. *)
LEMMA OutputInvariant == Spec => []OutputInv
<1>1. Init => OutputInv
  BY DEF Init, HooksInit, OutputInv, Flowing, LostAtMostAPipe
<1>2. IInv /\ IInv' /\ OutputInv /\ [Next]_vars => OutputInv'
  <2>1. SUFFICES ASSUME IInv, IInv', OutputInv, [Next]_vars PROVE OutputInv'
    OBVIOUS
  <2>2. CASE RunStep
    BY <2>1, <2>2, StageFlows DEF RunStep, IInv
  <2>3. CASE Configure \/ SetIdentity \/ SetIdentityFails \/ SetIdentityHangs \/ End
           \/ UNCHANGED vars
    <3>1. UNCHANGED <<stage, at, left, pipe, reader, held, logged, process, pc>>
      BY <2>3 DEF Configure, SetIdentity, SetIdentityFails, SetIdentityHangs, End, vars,
         hooksVars, stageVars, outputVars
    <3>2. pc' = "joining" => process' # "running"
      BY <2>1, <3>1 DEF IInv, HooksInv, Lives
    <3>3. Flowing'
      BY <2>1, <3>1, <3>2, FlowingFrame DEF OutputInv
    <3>4. LostAtMostAPipe'
      BY <2>1, <3>1, LostFrame DEF OutputInv
    <3> QED BY <3>3, <3>4 DEF OutputInv
  <2>4. CASE RunPreHooks \/ Rollback \/ RunPostHooks
    <3>1. at' = 0 /\ pc' \in {"command", "next"}
      BY <2>4 DEF RunPreHooks, Rollback, RollbackStage, RunPostHooks, RunStage
    <3> QED BY <3>1 DEF OutputInv, Flowing, LostAtMostAPipe
  <2> QED BY <2>1, <2>2, <2>3, <2>4 DEF Next
<1> QED BY <1>1, <1>2, HostInvariant, PTL DEF Spec

(* Of a hook that has ended no more is lost than a pipe holds, unless a     *)
(* line is too long or the hook leaves a child behind.                      *)
THEOREM OutputIsKept == Spec => []LostAtMostAPipe
<1>1. OutputInv => LostAtMostAPipe
  BY DEF OutputInv
<1> QED BY <1>1, OutputInvariant, PTL
-------------------------------------------------------------------------------
(* Why a stage ends: StageEnds without the fairness. *)

(* No line of a hook is too long for a scanner, and no child of the         *)
(* rollback's command keeps its output.                                     *)
Tame ==
    /\ \A i \in 1 .. Len(stage.hooks) : ~Overlong(stage.hooks[i])
    /\ stage.kind = "rollback" => ~stage.command.lingers

(* Somebody is there to take the next step: the loop over the hooks, Run    *)
(* that waits for a process that is gone, a process that may exit or has    *)
(* room in the pipe, a goroutine that has something to read or is at the    *)
(* end of it, or Run that waits for goroutines that have ended.             *)
GoesOn ==
    \/ pc \in {"command", "next"}
    \/ pc = "waiting" /\ process = "exited"
    \/ process = "running" /\ (left = <<>> \/ hook.lingers)
    \/ open /\ process = "running" /\ left # <<>> /\ Len(pipe[Head(left).to]) < PipeCapacity
    \/ \E s \in Streams : reader[s] = "reading" /\ (~open \/ pipe[s] # <<>>)
    \/ pc = "joining" /\ \A s \in Streams : reader[s] = "ended"

NeverStuck == pc # "returned" /\ Tame => GoesOn

(* What is left to do for the hook that is being run: the pieces to print,  *)
(* to write and to read, and what ends after them.                          *)
HooksLeft == Len(stage.hooks) - at
PiecesLeft == 2 * Len(left) + Len(pipe["stdout"]) + Len(pipe["stderr"])
Reading(s) == IF reader[s] = "reading" THEN 1 ELSE 0
ReadersLeft == Reading("stdout") + Reading("stderr")
Rank ==
    IF process = "running" THEN 4
    ELSE CASE pc = "waiting" -> 3 [] pc \in {"joining", "command"} -> 2
           [] pc = "next" -> 1 [] OTHER -> 0
WorkLeft == PiecesLeft + ReadersLeft + Rank

(* The hooks to run get fewer, or what is left to do for the one that runs. *)
Spends ==
    /\ HooksLeft' \in Nat /\ WorkLeft' \in Nat
    /\ \/ HooksLeft' < HooksLeft
       \/ HooksLeft' = HooksLeft /\ WorkLeft' < WorkLeft

(* Every step of a stage does. *)
StageSpends == [][StageStep => Spends]_vars

(* While Run waits for a process, somebody reads what this prints. *)
Attended ==
    /\ pc = "waiting" => open /\ process # "none"
    /\ pc = "joining" => ~open
    /\ pc \in {"waiting", "joining"} => \A s \in Streams : reader[s] # "none"
    /\ pc = "waiting" /\ process = "running" /\ Modest
         => \A s \in Streams : reader[s] = "reading"

LEMMA StageAttends ==
    ASSUME HooksInv, OutputInv', Attended, StageStep
    PROVE  Attended'
<1>1. CASE RollbackCommand \/ StartFails \/ Join \/ Return
  BY <1>1 DEF RollbackCommand, StartFails, Join, HookEnds, Return, Attended
<1>2. CASE StartHook
  BY <1>2 DEF StartHook, Attended
<1>3. CASE WaitReturns
  BY <1>3 DEF WaitReturns, outputVars, Attended
<1>4. CASE Process
  <2>1. UNCHANGED <<pc, open, reader, hook>> /\ process' \in {process, "exited"}
    BY <1>4 DEF Process, WriteOutput, Exit, stageVars, outputVars, hook
  <2>2. process' = "running" => process = "running"
    BY <2>1
  <2>3. process' = "none" => process = "none"
    BY <2>1
  <2> QED BY <2>1, <2>2, <2>3 DEF Attended, Modest
<1>5. ASSUME NEW s \in Streams, Reader(s) PROVE Attended'
  <2>1. /\ UNCHANGED <<pc, open, process, hook>> /\ reader[s] = "reading"
        /\ reader' = [reader EXCEPT ![s] = reader'[s]] /\ reader'[s] \in {"reading", "ended"}
    <3>1. reader \in [Streams -> {"none", "reading", "ended"}]
      BY DEF HooksInv, HooksTypeOK
    <3>2. CASE Scan(s)
      BY <3>1, <3>2 DEF Scan, stageVars, hook
    <3>3. CASE ScanEnds(s)
      BY <3>1, <3>3 DEF ScanEnds, stageVars, hook
    <3> QED BY <1>5, <3>2, <3>3 DEF Reader
  <2>2. \A r \in Streams : r # s => reader'[r] = reader[r]
    <3>1. reader \in [Streams -> {"none", "reading", "ended"}]
      BY DEF HooksInv, HooksTypeOK
    <3> QED BY <2>1, <3>1
  <2>3. ASSUME pc = "waiting", process = "running", Modest PROVE reader'[s] = "reading"
    <3>1. open /\ Writers
      BY <2>3 DEF Attended, Writers
    <3>2. Scan(s)
      BY <1>5, <3>1 DEF Reader, ScanEnds
    <3>3. CASE Head(pipe[s]) = "end" /\ UNCHANGED reader
      BY <2>1, <3>3
    <3>4. CASE /\ held' = [held EXCEPT ![s] = held[s] + 1]
               /\ reader' = [reader EXCEPT ![s] = IF held'[s] = MaxToken THEN "ended" ELSE reader[s]]
      <4>1. /\ held \in [Streams -> 0 .. MaxToken]
            /\ reader \in [Streams -> {"none", "reading", "ended"}]
        BY DEF HooksInv, HooksTypeOK
      <4>2. held'[s] = held[s] + 1 /\ held[s] \in Nat
        BY <3>4, <4>1, HooksAssumption
      <4>3. Flows(s)'
        <5>1. pc' = "waiting" /\ Modest'
          BY <2>1, <2>3 DEF Modest
        <5> QED BY <5>1 DEF OutputInv, Flowing
      <4>4. reader'[s] = "reading" \/ held'[s] = 0
        BY <4>3, Zenon DEF Flows
      <4> QED BY <4>2, <4>4
    <3> QED BY <3>2, <3>3, <3>4 DEF Scan
  <2> QED BY <2>1, <2>2, <2>3 DEF Attended, Modest
<1> QED BY <1>1, <1>2, <1>3, <1>4, <1>5 DEF StageStep, Program

LEMMA SomebodyIsThere ==
    ASSUME HooksInv, Attended
    PROVE  NeverStuck
<1> SUFFICES ASSUME pc # "returned", Tame PROVE GoesOn
  BY DEF NeverStuck
<1>1. /\ pc \in {"command", "next", "waiting", "joining", "returned"}
      /\ process \in {"none", "running", "exited"}
      /\ \A s \in Streams : reader[s] \in {"none", "reading", "ended"}
  BY DEF HooksInv, HooksTypeOK
<1>2. CASE pc = "waiting" /\ process = "running" /\ left # <<>> /\ ~hook.lingers
  <2>1. at \in 1 .. Len(stage.hooks) /\ hook.starts
    BY <1>2, HookOfStage DEF HooksInv, Loop
  <2>2. Modest
    BY <1>2, <2>1 DEF Tame, Modest, hook
  <2>3. Head(left).to \in Streams
    <3>1. ASSUME NEW S, left \in Seq(S) PROVE Head(left) \in S
      BY <1>2, <3>1
    <3>2. Head(left) \in [to : Streams, what : Pieces]
      BY <3>1, OutputTypes
    <3> QED BY <3>2
  <2>4. /\ open /\ reader[Head(left).to] = "reading"
        /\ pipe[Head(left).to] \in Seq(Pieces)
        /\ Len(pipe[Head(left).to]) \in Nat /\ PipeCapacity \in Nat \ {0}
    BY <1>2, <2>2, <2>3, OutputTypes, HooksAssumption DEF Attended
  <2>5. pipe[Head(left).to] = <<>> => Len(pipe[Head(left).to]) < PipeCapacity
    <3>1. Len(<<>>) = 0
      OBVIOUS
    <3> QED BY <2>4, <3>1
  <2> QED BY <1>2, <2>3, <2>4, <2>5 DEF GoesOn
<1>3. CASE pc = "joining"
  BY <1>1, <1>3 DEF Attended, GoesOn
<1>4. CASE pc = "waiting" /\ (process = "running" => left = <<>> \/ hook.lingers)
  BY <1>1, <1>4 DEF Attended, GoesOn
<1> QED BY <1>1, <1>2, <1>3, <1>4 DEF GoesOn

(* A stage in which no line is too long never stands still: the process of  *)
(* a hook that prints more than a pipe holds finds a goroutine that reads,  *)
(* and a goroutine always finds the end of what it reads.                   *)
THEOREM StagesGoOn == Spec => []NeverStuck
<1>1. Init => Attended
  BY DEF Init, HooksInit, Attended
<1>2. IInv /\ OutputInv' /\ Attended /\ [Next]_vars => Attended'
  <2>1. SUFFICES ASSUME IInv, OutputInv', Attended, [Next]_vars PROVE Attended'
    OBVIOUS
  <2>2. CASE RunStep
    BY <2>1, <2>2, StageAttends DEF RunStep, IInv
  <2>3. CASE Configure \/ SetIdentity \/ SetIdentityFails \/ SetIdentityHangs \/ End
           \/ UNCHANGED vars
    <3>1. UNCHANGED <<stage, at, open, reader, process, pc>>
      BY <2>3 DEF Configure, SetIdentity, SetIdentityFails, SetIdentityHangs, End, vars,
         hooksVars, stageVars, outputVars
    <3> QED BY <2>1, <3>1 DEF Attended, Modest, hook
  <2>4. CASE RunPreHooks \/ Rollback \/ RunPostHooks
    <3>1. pc' \in {"command", "next"}
      BY <2>4 DEF RunPreHooks, Rollback, RollbackStage, RunPostHooks, RunStage
    <3> QED BY <3>1 DEF Attended
  <2> QED BY <2>1, <2>2, <2>3, <2>4 DEF Next
<1>3. IInv /\ Attended => NeverStuck
  BY SomebodyIsThere DEF IInv
<1> QED BY <1>1, <1>2, <1>3, HostInvariant, OutputInvariant, PTL DEF Spec

(* What the work is made of. *)
WorkTyped ==
    /\ Len(left) \in Nat /\ Len(pipe["stdout"]) \in Nat /\ Len(pipe["stderr"]) \in Nat
    /\ PiecesLeft \in Nat /\ ReadersLeft \in Nat /\ Rank \in Nat
    /\ WorkLeft \in Nat /\ HooksLeft \in Nat

LEMMA WorkTypes == HooksInv => WorkTyped
<1> SUFFICES ASSUME HooksInv PROVE WorkTyped
  OBVIOUS
<1>1. Len(left) \in Nat /\ Len(pipe["stdout"]) \in Nat /\ Len(pipe["stderr"]) \in Nat
  BY OutputTypes DEF Streams
<1>2. ReadersLeft \in Nat /\ Rank \in Nat
  BY DEF ReadersLeft, Reading, Rank
<1>3. HooksLeft \in Nat
  <2>1. at \in 0 .. Len(stage.hooks) /\ Len(stage.hooks) \in Nat
    BY HookOfStage DEF HooksInv, HooksTypeOK
  <2> QED BY <2>1 DEF HooksLeft
<1>4. PiecesLeft \in Nat
  <2> DEFINE l == Len(left)  o == Len(pipe["stdout"])  e == Len(pipe["stderr"])
  <2>1. l \in Nat /\ o \in Nat /\ e \in Nat
    BY <1>1
  <2> HIDE DEF l, o, e
  <2>2. 2 * l + o + e \in Nat
    BY <2>1
  <2> QED BY <2>2 DEF PiecesLeft, l, o, e
<1>5. WorkLeft \in Nat
  BY <1>2, <1>4 DEF WorkLeft
<1> QED BY <1>1, <1>2, <1>3, <1>4, <1>5 DEF WorkTyped

(* A sum of which a part gets smaller and none larger. *)
LEMMA SmallerSum ==
    ASSUME NEW p \in Nat, NEW r \in Nat, NEW k \in Nat,
           NEW q \in Nat, NEW s \in Nat, NEW l \in Nat,
           q <= p, s <= r, l <= k, q < p \/ s < r \/ l < k
    PROVE  q + s + l < p + r + k
  OBVIOUS

(* A step that starts no hook spends if it adds to no part of the work and  *)
(* takes from one.                                                          *)
LEMMA LessWork ==
    ASSUME WorkTyped, WorkTyped', UNCHANGED <<stage, at>>,
           PiecesLeft' <= PiecesLeft, ReadersLeft' <= ReadersLeft, Rank' <= Rank,
           PiecesLeft' < PiecesLeft \/ ReadersLeft' < ReadersLeft \/ Rank' < Rank
    PROVE  Spends
<1>1. HooksLeft' = HooksLeft
  BY DEF HooksLeft
<1>2. WorkLeft' < WorkLeft
  <2>1. /\ PiecesLeft \in Nat /\ ReadersLeft \in Nat /\ Rank \in Nat
        /\ PiecesLeft' \in Nat /\ ReadersLeft' \in Nat /\ Rank' \in Nat
    BY DEF WorkTyped
  <2>2. PiecesLeft' + ReadersLeft' + Rank' < PiecesLeft + ReadersLeft + Rank
    BY <2>1, SmallerSum
  <2> QED BY <2>2 DEF WorkLeft
<1> QED BY <1>1, <1>2 DEF WorkTyped, Spends

(* What is left to print and to read, after a step that takes k from the    *)
(* one and m from the other stream.                                         *)
LEMMA PiecesAfter ==
    ASSUME WorkTyped, WorkTyped', NEW s \in Streams,
           \A r \in Streams : r # s => Len(pipe'[r]) = Len(pipe[r])
    PROVE  /\ Len(left') = Len(left) /\ Len(pipe'[s]) = Len(pipe[s]) => PiecesLeft' = PiecesLeft
           /\ Len(left') = Len(left) /\ Len(pipe'[s]) = Len(pipe[s]) - 1
                => PiecesLeft' < PiecesLeft
           /\ Len(left') = Len(left) - 1 /\ Len(pipe'[s]) = Len(pipe[s]) + 1
                => PiecesLeft' < PiecesLeft
<1> DEFINE l == Len(left)  o == Len(pipe["stdout"])  e == Len(pipe["stderr"])
           k == Len(left')  p == Len(pipe'["stdout"])  f == Len(pipe'["stderr"])
<1>1. /\ l \in Nat /\ o \in Nat /\ e \in Nat /\ k \in Nat /\ p \in Nat /\ f \in Nat
  BY DEF WorkTyped
<1>2. PiecesLeft = 2 * l + o + e /\ PiecesLeft' = 2 * k + p + f
  BY DEF PiecesLeft
<1>3. CASE s = "stdout"
  <2>1. f = e /\ Len(pipe'[s]) = p /\ Len(pipe[s]) = o
    BY <1>3 DEF Streams
  <2> HIDE DEF l, o, e, k, p, f
  <2>2. /\ k = l /\ p = o => PiecesLeft' = PiecesLeft
        /\ k = l /\ p = o - 1 => PiecesLeft' < PiecesLeft
        /\ k = l - 1 /\ p = o + 1 => PiecesLeft' < PiecesLeft
    BY <1>1, <1>2, <2>1
  <2> QED BY <2>1, <2>2 DEF l, k
<1>4. CASE s = "stderr"
  <2>1. p = o /\ Len(pipe'[s]) = f /\ Len(pipe[s]) = e
    BY <1>4 DEF Streams
  <2> HIDE DEF l, o, e, k, p, f
  <2>2. /\ k = l /\ f = e => PiecesLeft' = PiecesLeft
        /\ k = l /\ f = e - 1 => PiecesLeft' < PiecesLeft
        /\ k = l - 1 /\ f = e + 1 => PiecesLeft' < PiecesLeft
    BY <1>1, <1>2, <2>1
  <2> QED BY <2>1, <2>2 DEF l, k
<1> QED BY <1>3, <1>4 DEF Streams

(* The loop, the process and the goroutines spend what is left. *)
LEMMA StepSpends ==
    ASSUME HooksInv, HooksInv', StageStep
    PROVE  Spends
<1>typed. WorkTyped /\ WorkTyped'
  BY WorkTypes, PTL
<1>types. /\ left \in Seq([to : Streams, what : Pieces]) /\ pipe \in [Streams -> Seq(Pieces)]
          /\ Len(left) \in Nat /\ \A s \in Streams : Len(pipe[s]) \in Nat
          /\ reader \in [Streams -> {"none", "reading", "ended"}]
  BY OutputTypes DEF HooksInv, HooksTypeOK
<1>1. CASE StartHook \/ StartFails
  <2>1. at' = at + 1 /\ UNCHANGED stage
    BY <1>1 DEF StartHook, StartFails
  <2>2. at \in Nat /\ Len(stage.hooks) \in Nat
    BY HookOfStage DEF HooksInv
  <2>3. HooksLeft' < HooksLeft
    BY <2>1, <2>2 DEF HooksLeft
  <2> QED BY <1>typed, <2>3 DEF WorkTyped, Spends
<1>2. CASE RollbackCommand \/ WaitReturns \/ Join \/ Return \/ Exit
  <2>1. UNCHANGED <<stage, at, left, pipe, reader>>
    BY <1>2 DEF RollbackCommand, WaitReturns, Join, Return, Exit, stageVars, outputVars
  <2>2. process = "running" => pc = "waiting"
    BY DEF HooksInv, Lives
  <2>3. Rank' < Rank
    <3>1. CASE RollbackCommand
      BY <2>2, <3>1 DEF RollbackCommand, Rank
    <3>2. CASE WaitReturns
      BY <3>2 DEF WaitReturns, Rank
    <3>3. CASE Join
      <4>1. pc = "joining" /\ process' = "none" /\ pc' \in {"next", "returned"}
        BY <3>3 DEF Join, HookEnds
      <4> QED BY <2>2, <4>1 DEF Rank
    <3>4. CASE Return
      BY <2>2, <3>4 DEF Return, Rank
    <3>5. CASE Exit
      <4>1. pc = "waiting" /\ UNCHANGED pc /\ process = "running" /\ process' = "exited"
        BY <2>2, <3>5 DEF Exit
      <4> QED BY <4>1 DEF Rank
    <3> QED BY <1>2, <3>1, <3>2, <3>3, <3>4, <3>5
  <2>4. PiecesLeft' = PiecesLeft /\ ReadersLeft' = ReadersLeft
    BY <2>1 DEF ReadersLeft, Reading, PiecesLeft
  <2> QED BY <1>typed, <2>1, <2>3, <2>4, LessWork DEF WorkTyped
<1>4. CASE WriteOutput
  <2> DEFINE s == Head(left).to
  <2>1. UNCHANGED <<stage, at>> /\ Rank' = Rank /\ ReadersLeft' = ReadersLeft
    BY <1>4 DEF WriteOutput, stageVars, Rank, ReadersLeft, Reading
  <2>2. left # <<>> /\ left' = Tail(left)
        /\ pipe' = [pipe EXCEPT ![s] = Append(pipe[s], Head(left).what)]
    BY <1>4 DEF WriteOutput
  <2>3. s \in Streams /\ Len(left') = Len(left) - 1
    <3>1. ASSUME NEW S, left \in Seq(S) PROVE Head(left) \in S /\ Len(left') = Len(left) - 1
      BY <2>2, <3>1
    <3>2. Head(left) \in [to : Streams, what : Pieces] /\ Len(left') = Len(left) - 1
      BY <1>types, <3>1
    <3> QED BY <3>2
  <2>4. Len(pipe'[s]) = Len(pipe[s]) + 1
    <3>1. pipe'[s] = Append(pipe[s], Head(left).what) /\ pipe[s] \in Seq(Pieces)
      BY <1>types, <2>2, <2>3
    <3> QED BY <3>1
  <2>5. \A r \in Streams : r # s => Len(pipe'[r]) = Len(pipe[r])
    BY <1>types, <2>2, <2>3
  <2> HIDE DEF s
  <2>6. PiecesLeft' < PiecesLeft
    BY <1>typed, <2>3, <2>4, <2>5, PiecesAfter
  <2> QED BY <1>typed, <2>1, <2>6, LessWork DEF WorkTyped
<1>5. ASSUME NEW s \in Streams, Reader(s) PROVE Spends
  <2>1. UNCHANGED <<stage, at, left>> /\ Rank' = Rank
    BY <1>5 DEF Reader, Scan, ScanEnds, stageVars, Rank
  <2>2. ReadersLeft' <= ReadersLeft /\ (ScanEnds(s) => ReadersLeft' < ReadersLeft)
    <3>1. /\ reader[s] = "reading"
          /\ \/ UNCHANGED reader
             \/ reader' = [reader EXCEPT ![s] = "ended"]
             \/ reader' = [reader EXCEPT ![s] = IF held'[s] = MaxToken THEN "ended" ELSE reader[s]]
          /\ ScanEnds(s) => reader' = [reader EXCEPT ![s] = "ended"]
      BY <1>5 DEF Reader, Scan, ScanEnds
    <3>2. /\ \A r \in Streams : reader'[r] = "reading" => reader[r] = "reading"
          /\ ScanEnds(s) => reader'[s] = "ended"
      BY <1>types, <3>1
    <3> QED BY <3>1, <3>2 DEF ReadersLeft, Reading, Streams
  <2>3. CASE Scan(s)
    <3>1. pipe[s] # <<>> /\ pipe' = [pipe EXCEPT ![s] = Tail(pipe[s])]
      BY <2>3 DEF Scan
    <3>2. Len(pipe'[s]) = Len(pipe[s]) - 1
      <4>1. pipe'[s] = Tail(pipe[s]) /\ pipe[s] \in Seq(Pieces)
        BY <1>types, <3>1
      <4>2. ASSUME NEW q \in Seq(Pieces), q # <<>> PROVE Len(Tail(q)) = Len(q) - 1
        BY <4>2
      <4> QED BY <3>1, <4>1, <4>2
    <3>3. \A r \in Streams : r # s => Len(pipe'[r]) = Len(pipe[r])
      BY <1>types, <3>1
    <3>4. PiecesLeft' < PiecesLeft
      BY <1>typed, <2>1, <3>2, <3>3, PiecesAfter
    <3> QED BY <1>typed, <2>1, <2>2, <3>4, LessWork DEF WorkTyped
  <2>4. CASE ScanEnds(s)
    <3>1. PiecesLeft' = PiecesLeft
      BY <2>1, <2>4 DEF ScanEnds, PiecesLeft
    <3> QED BY <1>typed, <2>1, <2>2, <2>4, <3>1, LessWork DEF WorkTyped
  <2> QED BY <1>5, <2>3, <2>4 DEF Reader
<1> QED BY <1>1, <1>2, <1>4, <1>5 DEF StageStep, Program, Process

(* With StagesGoOn the reason why a stage of hooks ends: each of its steps  *)
(* leaves fewer hooks to run, or less to print, to read or to wait for.     *)
THEOREM StageStepsAreSpent == Spec => StageSpends
<1>1. IInv /\ IInv' => (StageStep => Spends)
  BY StepSpends DEF IInv
<1> QED BY <1>1, HostInvariant, PTL DEF StageSpends
===============================================================================
