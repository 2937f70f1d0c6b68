-------------------------------- MODULE HostRun --------------------------------
(***************************************************************************)
(* A run of the program on one host, with the peer as its environment: the  *)
(* configuration, then the pre hooks, the set-identity command, and either  *)
(* the post hooks or a rollback (internal/validator/validator.go,           *)
(* internal/failover/client.go, server.go, rollback.go, and RunCommand of   *)
(* internal/utils).  It composes Configuration, which says what the         *)
(* commands are, with Hooks, which runs the stages.                         *)
(***************************************************************************)
EXTENDS Configuration, Hooks

ASSUME HookSettingsAssumption ==
    \A s \in Settings :
        /\ s.hooks \in LET lists == [Roles -> Seq(HookType)]
                      IN  [pre : lists, post : lists, rollback : lists]
        /\ s.rollbackEnabled \in BOOLEAN

VARIABLES
    phase,       \* "configure", "pre", "moved", "failed", "hangs", "post",
                 \* "rollback" or "ended"
    identity,    \* the role whose identity the host's validator has
    drill,       \* the failover is a dry run
    rollbackOn   \* rollback is enabled, in the settings or by the flag

hostVars == <<phase, identity, drill, rollbackOn>>
vars == <<configVars, hooksVars, hostVars>>

Init ==
    /\ ConfigInit /\ HooksInit
    /\ phase = "configure" /\ identity = "unknown"
    /\ drill = TRUE /\ rollbackOn = FALSE

(* The role whose identity a command takes, if every word of it is right.   *)
(* The command fails otherwise: there is no such program, directory or key. *)
Takes(words) ==
    LET Right(r) == \E w \in Range(words) : w[1] \in {KeyFile(r), "back to " \o r}
    IN  IF /\ \A i \in DOMAIN words : words[i][2] \in {"literal", "value", "unresolved"}
           /\ \E r \in Roles : Right(r)
        THEN CHOOSE r \in Roles : Right(r)
        ELSE "nobody"

(* What the operator has to see to: no command of a role names the key of   *)
(* the other one.  The default templates do not; the program does not look. *)
OwnIdentities ==
    \A s \in Settings, r \in Roles :
        \A template \in {s.setIdentity[r], s.rollback[r]} :
            Range(template) \cap {KeyFile(Other(r)), "back to " \o Other(r)} = {}

(* How a command may end: it succeeds, it fails, or it fails after it has   *)
(* set the identity.  An empty command cannot be started.                   *)
Runs(words, ok, after) ==
    \/ ok /\ Takes(words) \in Roles /\ after = Takes(words)
    \/ ~ok /\ after = identity
    \/ ~ok /\ Takes(words) \in Roles /\ after = Takes(words)

(* RunCommand: in a drill the command is only logged. *)
RunCommand(words, ok, after) ==
    IF drill THEN ok /\ after = identity ELSE Runs(words, ok, after)

Configure ==
    /\ NewFromConfig
    /\ UNCHANGED <<hooksVars, hostVars>>

(* Failover() on a configured host: the flags, then, when the peer lets the *)
(* run get there, the pre hooks of the host's role.                         *)
RunPreHooks ==
    /\ phase = "configure" /\ step = "configured"
    /\ phase' = "pre" /\ identity' = role /\ drill' \in BOOLEAN
    /\ rollbackOn' \in {settings.rollbackEnabled, TRUE}
    /\ RunStage([NoStage EXCEPT !.kind = "pre", !.hooks = settings.hooks.pre[role]])
    /\ UNCHANGED configVars

(* Mutant: the set-identity command runs after pre hooks that failed. *)
SetIdentityRegardless ==
    /\ phase = "pre" /\ pc = "returned"
    /\ \E after \in Roles :
         /\ RunCommand(command[Other(role)], TRUE, after)
         /\ identity' = after
    /\ phase' = "moved"
    /\ UNCHANGED <<configVars, hooksVars, drill, rollbackOn>>

(* The set-identity command succeeds. *)
SetIdentity ==
    /\ phase = "pre" /\ pc = "returned" /\ result = "ok"
    /\ \E after \in Roles :
         /\ RunCommand(command[Other(role)], TRUE, after)
         /\ identity' = after
    /\ phase' = "moved"
    /\ UNCHANGED <<configVars, hooksVars, drill, rollbackOn>>

(* Mutant: the rollback's command is that of the direction just taken. *)
RollbackStageForward(lingers, ok) ==
    /\ RunStage([kind |-> "rollback", hooks |-> settings.hooks.rollback[role],
                 command |-> [exit |-> IF ok THEN "ok" ELSE "fail", lingers |-> lingers]])
    /\ identity' \in Roles
    /\ IF rollback[Other(role)] = <<>> THEN ok /\ identity' = identity
       ELSE RunCommand(rollback[Other(role)], ok, identity')

(* runRollback back to the role of the host.  Without a command (the text   *)
(* of its template expands to nothing) it has only its hooks, and reports   *)
(* success with the identity as it is.                                      *)
RollbackStage(lingers, ok) ==
    /\ RunStage([kind |-> "rollback", hooks |-> settings.hooks.rollback[role],
                 command |-> [exit |-> IF ok THEN "ok" ELSE "fail", lingers |-> lingers]])
    /\ identity' \in Roles
    /\ IF rollback[role] = <<>> THEN ok /\ identity' = identity
       ELSE RunCommand(rollback[role], ok, identity')

(* It fails.  The client ends; a server with rollback goes on to it. *)
SetIdentityFails ==
    /\ phase = "pre" /\ pc = "returned" /\ result = "ok"
    /\ \E after \in Roles :
         /\ RunCommand(command[Other(role)], FALSE, after)
         /\ identity' = after
    /\ phase' = IF role # "active" /\ rollbackOn THEN "failed" ELSE "ended"
    /\ UNCHANGED <<configVars, hooksVars, drill, rollbackOn>>

(* The command leaves a child that keeps its output open: CombinedOutput    *)
(* waits for it, whatever has become of the identity, and the run with it.  *)
SetIdentityHangs ==
    /\ phase = "pre" /\ pc = "returned" /\ result = "ok"
    /\ settings.commandLingers /\ ~drill
    /\ \E ok \in BOOLEAN, after \in Roles :
         /\ RunCommand(command[Other(role)], ok, after)
         /\ identity' = after
    /\ phase' = "hangs"
    /\ UNCHANGED <<configVars, hooksVars, drill, rollbackOn>>

(* The server after its command failed, or the client when the server says  *)
(* so.  (No command fails in a drill, so nobody says so in one.)            *)
Rollback ==
    /\ \/ phase = "failed"
       \/ phase = "moved" /\ role = "active" /\ rollbackOn /\ ~drill
    /\ phase' = "rollback"
    /\ \E lingers \in BOOLEAN, ok \in BOOLEAN :
         /\ lingers => rollback[role] # <<>> /\ settings.commandLingers
         /\ RollbackStage(lingers, ok)
    /\ UNCHANGED <<configVars, drill, rollbackOn>>

(* The server goes on to its post hooks; the client when the server tells   *)
(* it that the failover is complete.                                        *)
RunPostHooks ==
    /\ phase = "moved"
    /\ phase' = "post"
    /\ RunStage([NoStage EXCEPT !.hooks = settings.hooks.post[Other(role)]])
    /\ UNCHANGED <<configVars, identity, drill, rollbackOn>>

(* A stage after which nothing follows has returned, or the pre hooks have  *)
(* failed, or the peer or the connection ends the run between two stages.   *)
End ==
    /\ phase \notin {"configure", "failed", "hangs", "ended"} /\ pc = "returned"
    /\ phase' = "ended"
    /\ UNCHANGED <<configVars, hooksVars, identity, drill, rollbackOn>>

RunStep ==
    /\ phase \in {"pre", "post", "rollback"}
    /\ StageStep
    /\ UNCHANGED <<configVars, hostVars>>

Next ==
    \/ Configure \/ RunPreHooks \/ SetIdentity \/ SetIdentityFails
    \/ SetIdentityHangs
    \/ Rollback \/ RunPostHooks \/ End \/ RunStep

Spec == Init /\ [][Next]_vars /\ HooksFairness
-------------------------------------------------------------------------------
(* Every variable keeps its type. *)
TypeOK ==
    /\ ConfigTypeOK /\ HooksTypeOK
    /\ phase \in {"configure", "pre", "moved", "failed", "hangs", "post", "rollback", "ended"}
    /\ identity \in Roles \cup {"unknown"}
    /\ drill \in BOOLEAN /\ rollbackOn \in BOOLEAN

(* README.md "hooks", must_succeed: the host leaves the identity of its     *)
(* role only in a real failover, on a validator whose settings were all     *)
(* accepted, and when every pre hook of its role that must succeed did.     *)
PreHooksGuard ==
    identity \notin {role, "unknown"} =>
        /\ ~drill /\ step = "configured"
        /\ LET hooks == settings.hooks.pre[role]
           IN  \A i \in DOMAIN hooks : hooks[i].mustSucceed => ~Failing(hooks[i])

(* rollback.go:12-27: a rollback that runs a command and reports success    *)
(* leaves the host with the identity it had at the start, whichever side it *)
(* was on and whatever its failed command had done; the hooks of that       *)
(* direction have all been run, even if the command failed.  One that has   *)
(* no command to run, because its template expands to nothing, reports      *)
(* success too (rollback.go:33-35, 60-61) and is not covered.               *)
RollbackRestores ==
    (stage.kind = "rollback" /\ pc = "returned") =>
        /\ result = "ok" /\ rollback[role] # <<>> => identity = role
        /\ at = Len(settings.hooks.rollback[role])
===============================================================================
