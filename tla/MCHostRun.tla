------------------------------- MODULE MCHostRun -------------------------------
(* Values for the constants of HostRun: settings that all work, and others  *)
(* that differ from them in one respect.                                    *)
EXTENDS HostRun

out(what) == [to |-> "stdout", what |-> what]
err(what) == [to |-> "stderr", what |-> what]

Plain == [mustSucceed |-> TRUE, starts |-> TRUE, exit |-> "ok",
          prints |-> <<out("piece"), out("end"), out("end")>>,
          lingers |-> FALSE, environment |-> {"S", "x"}]
Silent == [Plain EXCEPT !.prints = <<>>]

MCHooks ==
    {Plain,
     [Plain EXCEPT !.exit = "fail"],
     [Plain EXCEPT !.starts = FALSE],
     \* a failure that does not matter, and more on stderr than a pipe holds
     [Plain EXCEPT !.mustSucceed = FALSE, !.exit = "fail", !.environment = {"s", "X"},
        !.prints = <<out("end"), err("piece"), err("end"), err("end"), err("piece")>>],
     \* a line that is too long, alone and with more than a pipe behind it
     [Plain EXCEPT !.prints = <<err("piece"), err("piece"), err("end")>>],
     [Plain EXCEPT !.prints = <<out("piece"), out("piece"), out("piece"), out("piece"), out("end")>>],
     \* a child outlives the hook and goes on printing
     [Plain EXCEPT !.lingers = TRUE, !.environment = {},
        !.prints = <<out("end"), out("piece"), out("end"), out("end")>>]}
HookLists == UNION {[1 .. n -> MCHooks] : n \in 1 .. 2}

SetIdentityTo(r) == <<"Bin", "LedgerDir", "set-identity", KeyFile(r)>>
BackTo(r) == <<"Bin", "back to " \o r>>
PerRole(Op(_)) == [r \in Roles |-> Op(r)]
None(r) == <<>>
OneSilent(r) == <<Silent>>

Base ==
    [cluster |-> "known", clusterRPC |-> "", rpcAddress |-> "port", slotDuration |-> "duration",
     bin |-> "plain", ledgerDir |-> "plain",
     keyFile |-> [r \in Roles |-> "plain"], pubkey |-> [r \in Roles |-> ""],
     towerDir |-> "plain", towerName |-> <<"passive.KeyFile">>,
     setIdentity |-> PerRole(SetIdentityTo), rollback |-> PerRole(None),
     rollbackEnabled |-> FALSE, commandLingers |-> FALSE,
     hooks |-> [pre |-> PerRole(None), post |-> PerRole(None), rollback |-> PerRole(OneSilent)],
     peers |-> {"port"}, publicIP |-> "given", minTime |-> "duration",
     samples |-> 1, interval |-> "duration",
     tls |-> [enabled |-> FALSE, files |-> ""]]

(* What every path may be but plain. *)
Others == Paths \ {"plain"}

(* Settings that some step rejects, or that it accepts for all that. *)
MCConfigured ==
    {[Base EXCEPT !.cluster = c, !.clusterRPC = u] :
        c \in {"", "known", "custom"}, u \in {"", "address"}}
    \cup {[Base EXCEPT !.rpcAddress = "noPort"], [Base EXCEPT !.slotDuration = "other"]}
    \cup {[Base EXCEPT !.bin = p] : p \in Others} \cup {[Base EXCEPT !.ledgerDir = p] : p \in Others}
    \cup {[Base EXCEPT !.keyFile[r] = p] : r \in Roles, p \in Others}
    \* identities given by their public keys alone, or twice the same one
    \cup {[Base EXCEPT !.keyFile[r] = "", !.pubkey[r] = k] : r \in Roles, k \in Roles}
    \cup {[Base EXCEPT !.towerDir = "missing"], [Base EXCEPT !.towerName = <<"broken">>]}
    \cup {[Base EXCEPT !.setIdentity[r] = <<t>>] : r \in Roles, t \in {"broken", "PublicIP"}}
    \cup {[Base EXCEPT !.setIdentity[r] = <<>>] : r \in Roles}
    \cup {[Base EXCEPT !.rollback[r] = t] : r \in Roles, t \in {<<"broken">>, <<"Hostname">>}}
    \cup {[Base EXCEPT !.rollback = PerRole(BackTo)],
          [Base EXCEPT !.rollback["active"] = BackTo("active"), !.bin = "html"]}
    \cup {[Base EXCEPT !.peers = p] : p \in {{}, {"port", "noPort"}}}
    \cup {[Base EXCEPT !.publicIP = ""], [Base EXCEPT !.minTime = "other"],
          [Base EXCEPT !.samples = 0], [Base EXCEPT !.interval = "other"]}
    \cup {[Base EXCEPT !.tls = [enabled |-> TRUE, files |-> f]] : f \in {"", "missing", "plain"}}

(* Settings with hooks that print, fail, or never end. *)
MCHooked ==
    {[Base EXCEPT !.hooks.pre[r] = l] : r \in Roles, l \in HookLists}
    \cup {[Base EXCEPT !.hooks.post[r] = l] : r \in Roles, l \in HookLists}
    \cup {[Base EXCEPT !.hooks.rollback[r] = <<h>>, !.rollbackEnabled = TRUE, !.commandLingers = TRUE] :
            r \in Roles, h \in MCHooks}

MCSettings == MCConfigured \cup MCHooked

ASSUME OwnAssumption == OwnIdentities
===============================================================================
