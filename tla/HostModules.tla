----------------------------- MODULE HostModules -----------------------------
(***************************************************************************)
(* The modules of the host's libraries (tools/libs/sys/module).  A static  *)
(* ModuleInitializer registers a module, in whatever order the files were  *)
(* linked; each registration tries every module that is not initialized,   *)
(* the newest first, and a module tries those it depends on before itself. *)
(*                                                                         *)
(* dependancies is any table over the modules; the modules that never      *)
(* register are those that are missing.                                    *)
(***************************************************************************)
EXTENDS Integers, Sequences

CONSTANTS
    Module,
    Dependancies,       \* the tables: each gives every module a sequence of modules
    MaxFailures         \* bound: initialize() calls that fail

VARIABLES
    dependancies,
    _initializer_list,  \* newest first
    _state, _error,     \* ModuleInitializer
    current,            \* initialize_modules: the place it has come to, 0 when it does not run
    calls,              \* initialize_module: the calls that are open, the innermost last
    tried               \* history: the initialize() calls and whether they succeeded

register == <<_initializer_list, _state, _error>>
vars == <<dependancies, register, current, calls, tried>>

Idle == current = 0
Registered == {_initializer_list[i] : i \in DOMAIN _initializer_list}

Init ==
    /\ dependancies \in Dependancies
    /\ _initializer_list = <<>>
    /\ _state = [m \in Module |-> "uninitialized"]
    /\ _error = [m \in Module |-> "success"]
    /\ current = 0 /\ calls = <<>> /\ tried = <<>>

-----------------------------------------------------------------------------
\* The constructor, which goes on with initialize_modules.
Construct(m) ==
    /\ Idle /\ m \notin Registered
    /\ _initializer_list' = <<m>> \o _initializer_list
    /\ current' = 1
    /\ UNCHANGED <<dependancies, _state, _error, calls, tried>>

\* Past the module at the place come to, in a list that does not change meanwhile.
Onwards == IF current = Len(_initializer_list) THEN 0 ELSE current + 1

\* initialize_modules leaves out what is initialized.
SkipOver ==
    /\ ~ Idle /\ calls = <<>>
    /\ _state[_initializer_list[current]] = "initialized"
    /\ current' = Onwards
    /\ UNCHANGED <<dependancies, register, calls, tried>>

\* initialize_module begins.
Open(m) ==
    /\ calls' = Append(calls, [module |-> m, i |-> 1])
    /\ _state' = [_state EXCEPT ![m] = "initializing"]

Try ==
    /\ ~ Idle /\ calls = <<>>
    /\ LET m == _initializer_list[current]
       IN  _state[m] # "initialized" /\ Open(m)
    /\ UNCHANGED <<dependancies, _initializer_list, _error, current, tried>>

-----------------------------------------------------------------------------
Innermost == calls[Len(calls)]
Passed == [calls EXCEPT ![Len(calls)].i = @ + 1]
Waits == calls # <<>> /\ Innermost.i <= Len(dependancies[Innermost.module])
Parent == dependancies[Innermost.module][Innermost.i]

\* An error ends the calls that are open, whose modules stay as they are.
Abandon(error) ==
    /\ _error' = [_error EXCEPT ![Innermost.module] = error]
    /\ calls' = <<>>
    /\ current' = Onwards
    /\ UNCHANGED <<dependancies, _initializer_list, _state, tried>>

Missing == Waits /\ Parent \notin Registered /\ Abandon("delayed")

Cycle == Waits /\ Parent \in Registered /\ _state[Parent] = "initializing" /\ Abandon("failure")

\* Wrong: a module that waits for others will do.
InitializedAlready_OrBegun(m) == _state[m] # "uninitialized"

InitializedAlready(m) == _state[m] = "initialized"

\* The dependency is there, or is initialized first, however its last try ended.
Satisfied ==
    /\ Waits /\ Parent \in Registered /\ InitializedAlready(Parent)
    /\ calls' = Passed
    /\ UNCHANGED <<dependancies, register, current, tried>>

Descend ==
    /\ Waits /\ Parent \in Registered
    /\ _state[Parent] \in {"uninitialized", "failed"} /\ ~ InitializedAlready(Parent)
    /\ Open(Parent)
    /\ UNCHANGED <<dependancies, _initializer_list, _error, current, tried>>

\* initialize_module returns success whatever initialize() said, and its caller goes on.
Returned ==
    IF Len(calls) = 1 THEN <<>>
    ELSE LET callers == SubSeq(calls, 1, Len(calls) - 1)
         IN  [callers EXCEPT ![Len(callers)].i = @ + 1]

Failures == SelectSeq(tried, LAMBDA t : ~ t.succeeded)

Initialize(succeeded) ==
    /\ calls # <<>> /\ ~ Waits
    /\ succeeded \/ Len(Failures) < MaxFailures
    /\ LET m == Innermost.module
       IN  /\ _state' = [_state EXCEPT ![m] = IF succeeded THEN "initialized" ELSE "failed"]
           /\ _error' = [_error EXCEPT ![m] = IF succeeded THEN "success" ELSE "its own"]
           /\ tried' = Append(tried, [module |-> m, succeeded |-> succeeded])
    /\ calls' = Returned
    /\ current' = IF Len(calls) = 1 THEN Onwards ELSE current
    /\ UNCHANGED <<dependancies, _initializer_list>>

Next ==
    \/ \E m \in Module : Construct(m)
    \/ SkipOver \/ Try
    \/ Missing \/ Cycle \/ Satisfied \/ Descend
    \/ \E succeeded \in BOOLEAN : Initialize(succeeded)

Spec == Init /\ [][Next]_vars

-----------------------------------------------------------------------------
DependsOn(m) == {dependancies[m][i] : i \in DOMAIN dependancies[m]}
TriedBefore(n) == {tried[i].module : i \in 1 .. n - 1}
Tries(m) == {i \in DOMAIN tried : tried[i].module = m}

\* The modules, newest first, that registered after everything they depend on.
Settled ==
    {m \in Registered :
        \E S \in SUBSET Registered :
            /\ m \in S
            /\ \A i \in DOMAIN _initializer_list :
                  _initializer_list[i] \in S =>
                      DependsOn(_initializer_list[i]) \subseteq
                          {_initializer_list[j] : j \in i + 1 .. Len(_initializer_list)} \cap S}

\* Whatever the order of registration: initialize() of a module runs only after that of every module it depends
\* on, never again once it has succeeded, and has run by the end of the registration for a module registered
\* after all it depends on, directly or not (ModuleInitializer::initialize_module, initialize_modules).
DependenciesFirst ==
    /\ \A n \in DOMAIN tried :
          /\ DependsOn(tried[n].module) \subseteq TriedBefore(n)
          /\ tried[n].succeeded => \A k \in Tries(tried[n].module) : k <= n
    /\ Idle => \A m \in Settled : Tries(m) # {}

\* A module that lies in a set each of whose members depends on another of it.
DependsOnCycle(m) ==
    \E S \in SUBSET Registered : m \in S /\ \A d \in S : DependsOn(d) \cap S # {}

\* "If the module we depend on is currently beeing initialized that means there is a dependency cycle"
\* (module.cpp:94): once all modules are registered, only those a cycle stands before are refused.
OnlyCyclesFail ==
    Idle /\ Registered = Module => \A m \in Module : _error[m] = "failure" => DependsOnCycle(m)
=============================================================================
