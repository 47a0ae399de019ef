------------------------------ MODULE Toolchain ------------------------------
(***************************************************************************)
(* The compiler runs of a build (compile_sequential, compile_parallel),    *)
(* how each finds its compiler, and what the reporters hear of it.         *)
(*                                                                         *)
(* A builder is a thread that compiles a project; a parallel build hands   *)
(* its jobs to threads of its own pool.  A reporter is global, or scoped   *)
(* to a thread while a guard lives; guards[t] holds the reporters that the *)
(* guards of thread t will put back.  The reporter a builder opens a scope *)
(* with is its own and named as the builder.                               *)
(***************************************************************************)
EXTENDS Naturals, Sequences, FiniteSets

CONSTANTS
    Builders,
    PoolOf,        \* [Builders -> set of pool threads]
    BuildJobs,     \* [Builders -> sequence of compiler versions, one for each job]
    Preinstalled,  \* versions that are installed at the start
    NoReporter

\* Every build has pool threads of its own.
ASSUME PoolsAssumption ==
    /\ \A b, c \in Builders : PoolOf[b] \cap Builders = {} /\ (b # c => PoolOf[b] \cap PoolOf[c] = {})
    /\ \A b \in Builders : Len(BuildJobs[b]) \in Nat

\* No reporter is the global one, and neither is one of a scope.
ASSUME ReportersAssumption == NoReporter # "global" /\ {NoReporter, "global"} \cap Builders = {}

VARIABLES
    glob,       \* GLOBAL_REPORTER_STATE and GLOBAL_REPORTER
    scopes,     \* SCOPED_COUNT, and per thread the scoped reporter and its guards
    builds,     \* per builder: mode, captured reporter, state of each job; to state
                \* the property, when it began: the reporter it belonged to (owner),
                \* and whether only other threads had a scope (beside)
    runs,       \* per thread: the job it runs and where it is
    installed,  \* compilers on disk
    heard       \* events, with the reporter that got them

toolVars == <<glob, scopes, builds, runs, installed, heard>>

Pools == UNION {PoolOf[b] : b \in Builders}
Threads == Builders \cup Pools
BuilderOf(t) == IF t \in Builders THEN t ELSE CHOOSE b \in Builders : t \in PoolOf[b]
NoRun == [at |-> "idle", job |-> 0]

ToolchainInit ==
    /\ glob = [state |-> "unset", reporter |-> NoReporter]
    /\ scopes = [count |-> 0, of |-> [t \in Threads |-> NoReporter], guards |-> [t \in Threads |-> <<>>]]
    /\ builds = [b \in Builders |-> [st |-> "new", parallel |-> FALSE, captured |-> NoReporter,
                                     owner |-> NoReporter, beside |-> FALSE,
                                     jobs |-> [i \in 1..Len(BuildJobs[b]) |-> "todo"]]]
    /\ runs = [t \in Threads |-> NoRun]
    /\ installed = Preinstalled
    /\ heard = {}

-----------------------------------------------------------------------------
(* Reporters                                                               *)

\* get_default: the thread's own reporter while any thread has a scoped one.
GetDefault(t) ==
    IF scopes.count # 0 THEN scopes.of[t]
    ELSE IF glob.state = "set" THEN glob.reporter ELSE NoReporter

Tell(t, event, job) == heard' = heard \cup {[to |-> GetDefault(t), by |-> BuilderOf(t), event |-> event, job |-> job]}

\* set_scoped, ScopeGuard
Scoped(t, reporter) ==
    [count |-> scopes.count + 1, of |-> [scopes.of EXCEPT ![t] = reporter],
     guards |-> [scopes.guards EXCEPT ![t] = Append(@, scopes.of[t])]]

Dropped(t) ==
    LET n == Len(scopes.guards[t])
    IN [count |-> scopes.count - 1, of |-> [scopes.of EXCEPT ![t] = scopes.guards[t][n]],
        guards |-> [scopes.guards EXCEPT ![t] = SubSeq(@, 1, n - 1)]]

\* set_global_reporter: once, in two steps.
SetGlobal(b) ==
    /\ builds[b].st = "new"
    /\ \/ glob.state = "unset" /\ glob' = [state |-> "setting", reporter |-> "global"]
       \/ glob.state = "setting" /\ glob' = [glob EXCEPT !.state = "set"]
    /\ UNCHANGED <<scopes, builds, runs, installed, heard>>

\* with_scoped around a build: opened before, closed after it.
WithScoped(b) ==
    /\ builds[b].st = "new" /\ scopes.guards[b] = <<>>
    /\ scopes' = Scoped(b, b)
    /\ UNCHANGED <<glob, builds, runs, installed, heard>>
EndScoped(b) ==
    /\ builds[b].st \in {"ok", "failed"} /\ scopes.guards[b] # <<>>
    /\ scopes' = Dropped(b)
    /\ UNCHANGED <<glob, builds, runs, installed, heard>>

-----------------------------------------------------------------------------
(* Builds                                                                  *)

\* The reporter a build belongs to: that of the scope around it, else the global one.
ReporterOf(b) ==
    IF scopes.guards[b] # <<>> THEN b
    ELSE IF glob.state = "set" THEN glob.reporter ELSE NoReporter

\* compile: the reporter for the pool is the current one of the builder.
StartBuild(b, parallel) ==
    /\ builds[b].st = "new"
    /\ builds' = [builds EXCEPT ![b].st = "running", ![b].parallel = parallel, ![b].captured = GetDefault(b),
                                ![b].owner = ReporterOf(b),
                                ![b].beside = scopes.guards[b] = <<>> /\ scopes.count # 0]
    /\ UNCHANGED <<glob, scopes, runs, installed, heard>>

HasFailed(b) == \E i \in DOMAIN builds[b].jobs : builds[b].jobs[i] = "error"

\* compile_sequential: the next job, if none failed.
NextJob(b) ==
    /\ builds[b].st = "running" /\ ~builds[b].parallel /\ runs[b] = NoRun /\ ~HasFailed(b)
    /\ \E i \in DOMAIN builds[b].jobs :
        /\ builds[b].jobs[i] = "todo" /\ \A j \in 1..(i - 1) : builds[b].jobs[j] = "done"
        /\ builds' = [builds EXCEPT ![b].jobs[i] = "running"]
        /\ runs' = [runs EXCEPT ![b] = [at |-> "spawn", job |-> i]]
        /\ UNCHANGED <<glob, scopes, installed, heard>>

\* Mutant: the current reporter is looked up on the pool's thread.
OnPoolThread_Own(t) == scopes' = Scoped(t, GetDefault(t))
\* compile_parallel: a pool thread is given the builder's reporter for the job.
OnPoolThread(t) == scopes' = Scoped(t, builds[BuilderOf(t)].captured)

TakeJob(t) ==
    LET b == BuilderOf(t) IN
    /\ t \in PoolOf[b] /\ builds[b].st = "running" /\ builds[b].parallel /\ runs[t] = NoRun
    /\ \E i \in DOMAIN builds[b].jobs :
        /\ builds[b].jobs[i] = "todo"
        /\ builds' = [builds EXCEPT ![b].jobs[i] = "running"]
        /\ runs' = [runs EXCEPT ![t] = [at |-> "spawn", job |-> i]]
    /\ OnPoolThread(t)
    /\ UNCHANGED <<glob, installed, heard>>

\* Once a job has failed the pool may not start the others.
SkipRest(b) ==
    /\ builds[b].st = "running" /\ HasFailed(b)
    /\ \E i \in DOMAIN builds[b].jobs :
        builds[b].jobs[i] = "todo" /\ builds' = [builds EXCEPT ![b].jobs[i] = "skipped"]
    /\ UNCHANGED <<glob, scopes, runs, installed, heard>>

\* The results are collected, in the order of the jobs, when the last one ended.
Collect(b) ==
    /\ builds[b].st = "running"
    /\ \A i \in DOMAIN builds[b].jobs : builds[b].jobs[i] \notin {"todo", "running"}
    /\ \A t \in PoolOf[b] : runs[t] = NoRun
    /\ builds' = [builds EXCEPT ![b].st = IF HasFailed(b) THEN "failed" ELSE "ok"]
    /\ UNCHANGED <<glob, scopes, runs, installed, heard>>

-----------------------------------------------------------------------------
(* One job, on thread t                                                    *)

VersionOf(t) == BuildJobs[BuilderOf(t)][runs[t].job]
At(t, step) == runs[t].at = step
Go(t, step) == runs' = [runs EXCEPT ![t].at = step]

\* report::compiler_spawn
ReportSpawn(t) ==
    /\ At(t, "spawn") /\ Tell(t, "spawn", runs[t].job) /\ Go(t, "find")
    /\ UNCHANGED <<glob, scopes, builds, installed>>

\* find_or_install: looks for the binary
FindSvmInstalledVersion(t) ==
    /\ At(t, "find") /\ Go(t, IF VersionOf(t) \in installed THEN "compile" ELSE "install")
    /\ UNCHANGED <<glob, scopes, builds, installed, heard>>

\* blocking_install
InstallStart(t) ==
    /\ At(t, "install") /\ Tell(t, "installing", runs[t].job) /\ Go(t, "installing")
    /\ UNCHANGED <<glob, scopes, builds, installed>>
InstallDone(t) ==
    /\ At(t, "installing")
    /\ \/ installed' = installed \cup {VersionOf(t)} /\ Tell(t, "installed", runs[t].job) /\ Go(t, "compile")
       \/ installed' = installed /\ Tell(t, "install failed", runs[t].job) /\ Go(t, "error")
    /\ UNCHANGED <<glob, scopes, builds>>

\* compile_output: the process runs; a failure to run it fails the job.
Compile(t) ==
    /\ At(t, "compile")
    /\ \/ Tell(t, "success", runs[t].job) /\ Go(t, "done")
       \/ Go(t, "error") /\ UNCHANGED heard
    /\ UNCHANGED <<glob, scopes, builds, installed>>

\* The result is handed over and the guard of a pool thread dropped.
EndJob(t) ==
    /\ runs[t].at \in {"done", "error"}
    /\ builds' = [builds EXCEPT ![BuilderOf(t)].jobs[runs[t].job] = runs[t].at]
    /\ runs' = [runs EXCEPT ![t] = NoRun]
    /\ IF t \in Pools THEN scopes' = Dropped(t) ELSE UNCHANGED scopes
    /\ UNCHANGED <<glob, installed, heard>>

ToolchainNext ==
    \/ \E b \in Builders :
        \/ SetGlobal(b) \/ WithScoped(b) \/ EndScoped(b) \/ (\E p \in BOOLEAN : StartBuild(b, p))
        \/ NextJob(b) \/ SkipRest(b) \/ Collect(b)
    \/ \E t \in Threads :
        \/ TakeJob(t) \/ ReportSpawn(t) \/ FindSvmInstalledVersion(t) \/ InstallStart(t)
        \/ InstallDone(t) \/ Compile(t) \/ EndJob(t)

ToolchainSpec == ToolchainInit /\ [][ToolchainNext]_toolVars

-----------------------------------------------------------------------------
(* Properties                                                              *)

Got(b, job, event, reporter) == [to |-> reporter, by |-> b, event |-> event, job |-> job] \in heard

\* The reporters are put back whatever the order in which builds, pool threads and
\* scopes end: the count is the number of guards, and a thread without a guard has
\* no scoped reporter left over from an earlier job.
GuardsHeld == UNION {{t} \X (1..Len(scopes.guards[t])) : t \in Threads}
ReportersRestored ==
    /\ scopes.count = Cardinality(GuardsHeld)
    /\ \A t \in Threads : scopes.guards[t] = <<>> => scopes.of[t] = NoReporter

\* Whether the reporter of a build hears all of it: a scope's reporter does, the
\* global one if the build is parallel and no other thread had a scope when it began.
\* Any other build is silent whenever some thread has a scope.
Tracked(b) == builds[b].owner = b \/ (builds[b].parallel /\ ~builds[b].beside)

\* What the reporter of a build has heard of a job that has ended.
JobHeard(b, i) ==
    LET said(event) == Got(b, i, event, builds[b].owner)
        end == builds[b].jobs[i]
    IN /\ end \in {"done", "error"} =>
            /\ said("spawn")
            /\ said("installing") => said("installed") \/ said("install failed")
       /\ end = "done" => said("success")
BuildReported ==
    \A b \in Builders :
        /\ Tracked(b) => \A i \in DOMAIN builds[b].jobs : JobHeard(b, i)
        /\ builds[b].st = "ok" => \A i \in DOMAIN builds[b].jobs : builds[b].jobs[i] = "done"
ScopesApart == \A e \in heard : e.to \in Builders => e.to = e.by

\* Reporters are put back in whatever order scopes, pool threads and builds end, on
\* every thread a build uses (with_scoped, compile_parallel, blocking_install).  The
\* reporter of a scope hears of every job of the build in it and of no other build,
\* on whichever threads the jobs run; the global reporter hears of every job of a
\* parallel build that began while no thread had a scope.  Left out, as the code
\* does not keep it: a build without a scope that begins, or goes on without a pool,
\* while another thread has one reports to nobody, although a global reporter is set.
ToolchainSound == ReportersRestored /\ BuildReported /\ ScopesApart
=============================================================================
