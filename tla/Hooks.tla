--------------------------------- MODULE Hooks ---------------------------------
(***************************************************************************)
(* The stages of hooks: the pre hooks or the post hooks of either role, or  *)
(* a rollback, which begins with its set-identity command.  The hooks of a  *)
(* stage run one after the other.  A hook is a process that prints into two *)
(* pipes; a goroutine per pipe scans it for lines and logs them, while      *)
(* Hook.Run waits for the process (cmd.Wait, which closes the pipes) and    *)
(* then for the goroutines (wg.Wait).                                       *)
(*                                                                         *)
(* A line is a sequence of pieces, the last of which is its end.            *)
(***************************************************************************)
EXTENDS Naturals, Sequences, FiniteSets

CONSTANTS
    PipeCapacity,  \* pieces that a pipe holds
    MaxToken       \* pieces that the buffer of a scanner holds

Streams == {"stdout", "stderr"}
Pieces == {"piece", "end"}

(* Names of variables: "S" for a standard one, "X" for any other, and each  *)
(* as it looks before it is put in upper case.                              *)
Names == {"S", "s", "X", "x"}
Upper(name) == CASE name = "s" -> "S" [] name = "x" -> "X" [] OTHER -> name

HookType ==
    [mustSucceed : BOOLEAN,
     starts : BOOLEAN,           \* its templates execute and its command exists
     exit : {"ok", "fail"},
     prints : Seq([to : Streams, what : Pieces]),
     lingers : BOOLEAN,          \* a child of the process outlives it
     environment : SUBSET Names]
CommandType == [exit : {"ok", "fail"}, lingers : BOOLEAN]
StageType ==
    [kind : {"pre", "post", "rollback"}, command : CommandType, hooks : Seq(HookType)]

NoStage ==
    [kind |-> "post", command |-> [exit |-> "ok", lingers |-> FALSE], hooks |-> <<>>]

ASSUME HooksAssumption ==
    /\ PipeCapacity \in Nat \ {0} /\ MaxToken \in Nat \ {0}

VARIABLES
    stage,    \* the stage that is run
    pc,       \* where runRollback, the loop over the hooks or Hook.Run is
    at,       \* the hook that is being run, or was last
    ran,      \* the hooks run so far, with whether each failed
    result,   \* what the stage returns: "none" yet, "ok" or "error"
    process,  \* the hook's process: "none", "running" or "exited"
    left,     \* what the process has still to print
    pipe,     \* per stream, what was printed and not read yet
    open,     \* the read ends of the pipes are open
    reader,   \* per stream, the goroutine: "none", "reading" or "ended"
    held,     \* per stream, the pieces of an unfinished line in the scanner
    logged,   \* per stream, the pieces of the hook that were logged
    env       \* the environment of the process

stageVars == <<stage, at, ran, result>>
outputVars == <<left, pipe, reader, held, logged>>
hooksVars == <<stageVars, pc, process, open, env, outputVars>>

hook == stage.hooks[at]
Writers == process = "running" \/ (at > 0 /\ hook.lingers)

Idle == [s \in Streams |-> "none"]
Zero == [s \in Streams |-> 0]
Empty == [s \in Streams |-> <<>>]

HooksInit ==
    /\ stage = NoStage /\ pc = "returned" /\ at = 0 /\ ran = <<>> /\ result = "ok"
    /\ process = "none" /\ open = FALSE /\ env = <<>>
    /\ left = <<>> /\ pipe = Empty /\ reader = Idle /\ held = Zero /\ logged = Zero

(* A stage is run when the one before it has returned. *)
RunStage(s) ==
    /\ pc = "returned"
    /\ stage' = s /\ at' = 0 /\ ran' = <<>> /\ result' = "none"
    /\ pc' = IF s.kind = "rollback" THEN "command" ELSE "next"
    /\ process' = "none" /\ open' = FALSE /\ env' = <<>>
    /\ left' = <<>> /\ pipe' = Empty /\ reader' = Idle /\ held' = Zero /\ logged' = Zero

(* The command of a rollback returns.  CombinedOutput waits until nobody    *)
(* holds its output, children of the command included.  A failure is kept.  *)
RollbackCommand ==
    /\ pc = "command"
    /\ ~stage.command.lingers
    /\ result' = IF stage.command.exit = "fail" THEN "error" ELSE "none"
    /\ pc' = "next"
    /\ UNCHANGED <<stage, at, ran, process, open, env, outputVars>>

(* Mutant: must_succeed is honoured in post hooks too. *)
HookEndsAbortsAny(place, failed) ==
    /\ ran' = Append(ran, failed)
    /\ LET aborts == failed /\ stage.hooks[place].mustSucceed
       IN  /\ pc' = IF aborts THEN "returned" ELSE "next"
           /\ result' = IF aborts THEN "error" ELSE result

(* The end of a run of the hook at the given place, and what the loop does: *)
(* a pre hook that must succeed ends the stage, any other failure is logged.*)
HookEnds(place, failed) ==
    /\ ran' = Append(ran, failed)
    /\ LET aborts == failed /\ stage.kind = "pre" /\ stage.hooks[place].mustSucceed
       IN  /\ pc' = IF aborts THEN "returned" ELSE "next"
           /\ result' = IF aborts THEN "error" ELSE result

(* Mutant: the configured variables are added last. *)
MergedLast(environment) ==
    [n \in environment \cup {"S"} |-> IF n \in environment THEN "configured" ELSE "standard"]

(* envVars: the configured variables, then the standard ones over them. *)
Merged(environment) ==
    [n \in environment \cup {"S"} |-> IF n = "S" THEN "standard" ELSE "configured"]

(* cmd.Env has an entry per variable, its name in upper case.  Entries are  *)
(* added in the order of a map iteration, and of two the later one counts.  *)
Environments(environment) ==
    LET merged == Merged(environment)
    IN  {f \in [{Upper(n) : n \in DOMAIN merged} -> {"standard", "configured"}] :
            \A u \in DOMAIN f :
                \E n \in DOMAIN merged : Upper(n) = u /\ f[u] = merged[n]}

(* Mutant: nobody reads what the hook prints to stderr. *)
StartHookOneReader ==
    /\ pc = "next" /\ at < Len(stage.hooks)
    /\ at' = at + 1
    /\ LET next == stage.hooks[at'] IN
         /\ next.starts
         /\ env' \in Environments(next.environment)
         /\ left' = next.prints
    /\ process' = "running" /\ open' = TRUE
    /\ reader' = [stdout |-> "reading", stderr |-> "ended"]
    /\ pipe' = Empty /\ held' = Zero /\ logged' = Zero
    /\ pc' = "waiting"
    /\ UNCHANGED <<stage, ran, result>>

(* The next hook is started, and the goroutines that read its output. *)
StartHook ==
    /\ pc = "next" /\ at < Len(stage.hooks)
    /\ at' = at + 1
    /\ LET next == stage.hooks[at'] IN
         /\ next.starts
         /\ env' \in Environments(next.environment)
         /\ left' = next.prints
    /\ process' = "running" /\ open' = TRUE
    /\ reader' = [s \in Streams |-> "reading"]
    /\ pipe' = Empty /\ held' = Zero /\ logged' = Zero
    /\ pc' = "waiting"
    /\ UNCHANGED <<stage, ran, result>>

(* A template does not execute, or there is no such command. *)
StartFails ==
    /\ pc = "next" /\ at < Len(stage.hooks)
    /\ ~stage.hooks[at + 1].starts
    /\ at' = at + 1
    /\ HookEnds(at + 1, TRUE)
    /\ left' = <<>> /\ pipe' = Empty /\ held' = Zero /\ logged' = Zero
    /\ UNCHANGED <<stage, process, open, env, reader>>

(* The process, or a child it left, writes; it blocks while the pipe is     *)
(* full.  Once the read ends are closed nothing comes through any more.     *)
WriteOutput ==
    /\ open /\ Writers /\ left # <<>>
    /\ LET s == Head(left).to IN
         /\ Len(pipe[s]) < PipeCapacity
         /\ pipe' = [pipe EXCEPT ![s] = Append(@, Head(left).what)]
    /\ left' = Tail(left)
    /\ UNCHANGED <<stageVars, pc, process, open, env, reader, held, logged>>

Exit ==
    /\ process = "running" /\ (left = <<>> \/ hook.lingers)
    /\ process' = "exited"
    /\ UNCHANGED <<stageVars, pc, open, env, outputVars>>

(* Mutant: the scanner takes one piece more than its buffer holds. *)
ScanFillsOver(s) ==
    /\ reader[s] = "reading" /\ open /\ pipe[s] # <<>>
    /\ pipe' = [pipe EXCEPT ![s] = Tail(@)]
    /\ \/ /\ Head(pipe[s]) = "end"
          /\ logged' = [logged EXCEPT ![s] = @ + held[s] + 1]
          /\ held' = [held EXCEPT ![s] = 0]
          /\ UNCHANGED reader
       \/ /\ Head(pipe[s]) = "piece"
          /\ held' = [held EXCEPT ![s] = @ + 1]
          /\ reader' = [reader EXCEPT ![s] = IF held'[s] > MaxToken THEN "ended" ELSE @]
          /\ UNCHANGED logged
    /\ UNCHANGED <<stageVars, pc, process, open, env, left>>

(* scanner.Scan() reads on: a whole line is logged; a line that fills the   *)
(* buffer makes Scan return false, and nobody reads this pipe any more.     *)
Scan(s) ==
    /\ reader[s] = "reading" /\ open /\ pipe[s] # <<>>
    /\ pipe' = [pipe EXCEPT ![s] = Tail(@)]
    /\ \/ /\ Head(pipe[s]) = "end"
          /\ logged' = [logged EXCEPT ![s] = @ + held[s] + 1]
          /\ held' = [held EXCEPT ![s] = 0]
          /\ UNCHANGED reader
       \/ /\ Head(pipe[s]) = "piece"
          /\ held' = [held EXCEPT ![s] = @ + 1]
          /\ reader' = [reader EXCEPT ![s] = IF held'[s] = MaxToken THEN "ended" ELSE @]
          /\ UNCHANGED logged
    /\ UNCHANGED <<stageVars, pc, process, open, env, left>>

(* Mutant: an unfinished line is not logged. *)
ScanEndsSilently(s) ==
    /\ reader[s] = "reading"
    /\ ~open \/ (pipe[s] = <<>> /\ ~Writers)
    /\ held' = [held EXCEPT ![s] = 0]
    /\ reader' = [reader EXCEPT ![s] = "ended"]
    /\ UNCHANGED <<stageVars, pc, process, open, env, left, pipe, logged>>

(* The end of the output, or the pipe was closed while there was something  *)
(* left in it: what the scanner holds is logged as the last line.           *)
ScanEnds(s) ==
    /\ reader[s] = "reading"
    /\ ~open \/ (pipe[s] = <<>> /\ ~Writers)
    /\ logged' = [logged EXCEPT ![s] = @ + held[s]]
    /\ held' = [held EXCEPT ![s] = 0]
    /\ reader' = [reader EXCEPT ![s] = "ended"]
    /\ UNCHANGED <<stageVars, pc, process, open, env, left, pipe>>

(* cmd.Wait() returns when the process is gone, and closes the pipes. *)
WaitReturns ==
    /\ pc = "waiting" /\ process = "exited"
    /\ open' = FALSE
    /\ pc' = "joining"
    /\ UNCHANGED <<stageVars, process, env, outputVars>>

(* Mutant: Run does not wait for the goroutines. *)
JoinAtOnce ==
    /\ pc = "joining"
    /\ HookEnds(at, hook.exit = "fail")
    /\ process' = "none"
    /\ UNCHANGED <<stage, at, open, env, outputVars>>

(* wg.Wait(), then the error of the process is returned. *)
Join ==
    /\ pc = "joining" /\ \A s \in Streams : reader[s] = "ended"
    /\ HookEnds(at, hook.exit = "fail")
    /\ process' = "none"
    /\ UNCHANGED <<stage, at, open, env, outputVars>>

(* Every hook has been run.  Only a rollback has an error to return here. *)
Return ==
    /\ pc = "next" /\ at = Len(stage.hooks)
    /\ pc' = "returned"
    /\ result' = IF result = "error" THEN "error" ELSE "ok"
    /\ UNCHANGED <<stage, at, ran, process, open, env, outputVars>>

Program == RollbackCommand \/ StartHook \/ StartFails \/ WaitReturns \/ Join \/ Return
Reader(s) == Scan(s) \/ ScanEnds(s)
Process == WriteOutput \/ Exit

(* The stage goes on. *)
StageStep == Program \/ Process \/ \E s \in Streams : Reader(s)

(* The goroutines are scheduled; a hook that can go on does. *)
HooksFairness ==
    /\ WF_hooksVars(Program) /\ WF_hooksVars(Process)
    /\ \A s \in Streams : WF_hooksVars(Reader(s))
-------------------------------------------------------------------------------
(* Every variable keeps its type. *)
HooksTypeOK ==
    /\ stage \in StageType /\ at \in 0 .. Len(stage.hooks)
    /\ pc \in {"command", "next", "waiting", "joining", "returned"}
    /\ ran \in Seq(BOOLEAN) /\ result \in {"none", "ok", "error"}
    /\ process \in {"none", "running", "exited"} /\ open \in BOOLEAN
    /\ left \in Seq([to : Streams, what : Pieces])
    /\ pipe \in [Streams -> Seq(Pieces)]
    /\ \A s \in Streams : Len(pipe[s]) <= PipeCapacity
    /\ reader \in [Streams -> {"none", "reading", "ended"}]
    /\ held \in [Streams -> 0 .. MaxToken] /\ logged \in [Streams -> Nat]
    /\ env = <<>> \/ \E names \in SUBSET {"S", "X"} :
                        env \in [names -> {"standard", "configured"}]

Failing(h) == ~h.starts \/ h.exit = "fail"
Stopping(h) == stage.kind = "pre" /\ h.mustSucceed /\ Failing(h)

(* README.md "hooks" and "rollback": a stage runs its hooks in order, each   *)
(* once, up to the first pre hook that must succeed and fails, and it fails *)
(* for that hook or for the rollback's command, never for another hook.     *)
RunsAsConfigured ==
    pc = "returned" =>
        LET hooks == stage.hooks
            Stops == {i \in 1 .. Len(hooks) : Stopping(hooks[i])}
        IN  /\ ran = [i \in 1 .. at |-> Failing(hooks[i])]
            /\ IF Stops = {} THEN at = Len(hooks)
               ELSE at \in Stops /\ \A i \in Stops : at <= i
            /\ result = "error" <=>
                 \/ Stops # {}
                 \/ stage.kind = "rollback" /\ stage.command.exit = "fail"

(* hooks.go:280: the goroutines complete before Run returns: when the next   *)
(* step of the failover is taken nothing reads or logs the hook any more.   *)
NoReaderLeft ==
    pc \in {"next", "returned"} => \A s \in Streams : reader[s] # "reading"

(* Of what the hook prints from one place to another, the pieces to a stream. *)
Amount(h, s, a, b) == Cardinality({i \in a .. b : h.prints[i].to = s})
PiecesOf(h, s) == Amount(h, s, 1, Len(h.prints))

(* Some line of the hook fills the scanner's buffer: it prints as many      *)
(* pieces to one stream without an end of a line between them.              *)
Overlong(h) ==
    \E s \in Streams, a, b \in DOMAIN h.prints :
        /\ Amount(h, s, a, b) >= MaxToken
        /\ \A i \in a .. b : h.prints[i] # [to |-> s, what |-> "end"]

(* cmd.Wait closes the pipes while the goroutines may still be reading.     *)
(* Of a hook that has ended no more than what a pipe holds is lost, unless  *)
(* a line is too long, or a child goes on printing.                         *)
LostAtMostAPipe ==
    (/\ pc \in {"next", "returned"} /\ at > 0
     /\ hook.starts /\ ~Overlong(hook) /\ ~hook.lingers)
        => \A s \in Streams : logged[s] + PipeCapacity >= PiecesOf(hook, s)

(* hooks.go:241: a hook sees the standard variables as they are, and every  *)
(* configured one - as long as no configured name differs from that of a    *)
(* standard variable in case only (the names are put in upper case last).   *)
StandardEnvironmentKept ==
    process = "running" =>
        /\ "s" \notin hook.environment => env["S"] = "standard"
        /\ DOMAIN env = {Upper(n) : n \in hook.environment \cup {"S"}}

(* A stage ends, whatever its hooks print and to which stream, if no line   *)
(* is too long for a scanner and no child of the rollback's command keeps   *)
(* its output; a child that a hook leaves behind does not matter.           *)
StageEnds ==
    (/\ \A i \in 1 .. Len(stage.hooks) : ~Overlong(stage.hooks[i])
     /\ stage.kind # "rollback" \/ ~stage.command.lingers)
        ~> (pc = "returned")
===============================================================================
