----------------------------- MODULE Application -----------------------------
(***************************************************************************)
(* The composition host (application.go, builder.go, defaults.go,          *)
(* dependency.go, resolver.go, lifecycle.go): an Application mounts its    *)
(* modules, selects their contributions, orders the modules by what they   *)
(* require, constructs contributions, and starts and stops the modules.    *)
(*                                                                         *)
(* A module is [id, gives, needs]: gives is the sequence of contributions  *)
(* of its Register, needs the set of its RequiredSlots.  A contribution is *)
(* [slot, kind, key, made, fallback]: made by a constructor at Build, and  *)
(* fallback if it is a default.  A requirement is [slot, kind, key, min];  *)
(* min 0 is an optional one.  Every module has a lifecycle, and a          *)
(* constructor resolves everything its module requires.                    *)
(*                                                                         *)
(* Callers start the Application and stop it concurrently.                 *)
(***************************************************************************)
EXTENDS Integers, Sequences, FiniteSets, SequencesExt, Relation

CONSTANTS
    Applications,   \* the module lists to be checked
    Profiles,       \* the sets of requirements an Application may have
    Callers,
    MaxTrouble      \* bound on the failures of module code

ASSUME ApplicationAssumption == MaxTrouble \in Nat

NoKey == "none"

VARIABLES
    app, profile,   \* what is built
    mounted,        \* Application.mounted
    values,         \* Builder.state: the registered values, in order
    assembly,       \* Application.assembly
    attempted,      \* Assembly.startAttempted
    up,             \* modules whose Start returned and that did not stop
    stopped,        \* modules whose Stop was called, in order
    errors,         \* modules that the error of Start or Stop names
    runtime,        \* Runtime.stopped, or that there is none
    caller,         \* what each caller does
    trouble

built == <<mounted, values, assembly>>
life == <<attempted, up, stopped, errors, runtime>>
vars == <<app, profile, built, life, caller, trouble>>

Modules == DOMAIN app
NoAssembly == [ok |-> FALSE, values |-> <<>>, order |-> <<>>]

Init ==
    /\ app \in Applications
    /\ profile \in Profiles
    /\ mounted = 0
    /\ values = <<>>
    /\ assembly = NoAssembly
    /\ attempted = FALSE
    /\ up = {}
    /\ stopped = <<>>
    /\ errors = {}
    /\ runtime = "none"
    /\ caller = [c \in Callers |-> [pc |-> "idle", at |-> 0, answer |-> {}]]
    /\ trouble = 0

Spend == trouble < MaxTrouble /\ trouble' = trouble + 1
-----------------------------------------------------------------------------
(* Builder.Install.                                                        *)

\* What Register adds for module m of the list a, in order.
Registered(a, m) ==
    [k \in DOMAIN a[m].gives |->
        [owner |-> m, slot |-> a[m].gives[k].slot, kind |-> a[m].gives[k].kind,
         key |-> a[m].gives[k].key, made |-> a[m].gives[k].made,
         fallback |-> a[m].gives[k].fallback]]

Clash(v, w) ==
    /\ v.slot = w.slot
    /\ \/ v.kind # w.kind
       \/ v.kind = "one" /\ ~v.fallback /\ ~w.fallback
       \/ v.kind = "many" /\ v.key = w.key /\ ~v.fallback /\ ~w.fallback

\* The contributions of a module are registered all or not at all.
Installable(m) ==
    LET all == values \o Registered(app, m) IN
    /\ \A n \in 1..m - 1 : app[n].id # app[m].id
    /\ \A i, j \in DOMAIN all : i < j /\ j > Len(values) => ~Clash(all[i], all[j])
-----------------------------------------------------------------------------
(* resolveDefaultContributions: the registered values vs of a Builder.     *)

\* v and w compete: for a OneSlot or a whole chain, or for a key.
Rivals(v, w) == v.slot = w.slot /\ (v.kind = "many" => v.key = w.key)

Overridden(vs, v) ==
    v.fallback /\ \E i \in DOMAIN vs : ~vs[i].fallback /\ Rivals(v, vs[i])

\* Two defaults, and nothing explicit to decide between them.
Ambiguous(vs) ==
    \E i, j \in DOMAIN vs :
        /\ i < j
        /\ vs[i].fallback /\ vs[j].fallback
        /\ vs[i].kind # "chain"
        /\ Rivals(vs[i], vs[j])
        /\ ~Overridden(vs, vs[i])

Selected(vs) == SelectSeq(vs, LAMBDA v : ~Overridden(vs, v))

\* activeModules: those that contribute nothing, or something that was selected.
Active(a, vs) ==
    {m \in DOMAIN a : a[m].gives = <<>> \/ \E i \in DOMAIN vs : vs[i].owner = m}
-----------------------------------------------------------------------------
(* resolveRequirement and orderModules: vs are the selected values.        *)

Record(vs, r) == {i \in DOMAIN vs : vs[i].slot = r.slot}

Resolved(vs, r) == {i \in Record(vs, r) : r.key # NoKey => vs[i].key = r.key}

Satisfied(vs, r) ==
    /\ \A i \in Record(vs, r) : vs[i].kind = r.kind
    /\ Cardinality(Resolved(vs, r)) >= r.min

\* Without the edges of optional requirements.
ProvidersRequired(a, vs, m) ==
    {vs[i].owner : i \in UNION {Resolved(vs, r) : r \in {q \in a[m].needs : q.min > 0}}} \ {m}

\* The modules that m depends on.
Providers(a, vs, m) ==
    {vs[i].owner : i \in UNION {Resolved(vs, r) : r \in a[m].needs}} \ {m}

\* Repeatedly the first installed module whose providers are all placed.
Order(a, vs) ==
    LET before[n \in 0..Len(a)] ==
          IF n = 0 THEN <<>>
          ELSE LET placed == before[n - 1]
                   free == {m \in Active(a, vs) \ ToSet(placed) :
                              Providers(a, vs, m) \subseteq ToSet(placed)}
               IN  IF free = {} THEN placed ELSE Append(placed, Min(free))
    IN  before[Len(a)]
-----------------------------------------------------------------------------
(* materializeConstructors: in the order of the modules, then of           *)
(* registration.                                                           *)

Place(order, m) == CHOOSE k \in DOMAIN order : order[k] = m

Earlier(vs, order, i, j) ==
    \/ Place(order, vs[i].owner) < Place(order, vs[j].owner)
    \/ vs[i].owner = vs[j].owner /\ i < j

\* Every value that the constructor of vs[j] resolves is there when it is called.
Ready(a, vs, order, j) ==
    \A i \in UNION {Resolved(vs, r) : r \in a[vs[j].owner].needs} :
        vs[i].made => Earlier(vs, order, i, j)

\* What Builder.Build makes of the registered values.
Selection == Selected(values)
StartOrder == Order(app, Selection)

Buildable ==
    LET vs == Selection
        order == StartOrder
        active == Active(app, vs)
    IN  /\ ~Ambiguous(values)
        /\ \A r \in profile \cup UNION {app[m].needs : m \in active} : Satisfied(vs, r)
        /\ ToSet(order) = active
        /\ \A j \in DOMAIN vs : vs[j].made => Ready(app, vs, order, j)
-----------------------------------------------------------------------------
(* Application.Build, under the Application's mutex.                       *)

At(c, pc) == caller[c].pc = pc
Goto(c, pc) == caller' = [caller EXCEPT ![c].pc = pc]

Unlocked == \A c \in Callers : ~At(c, "building")

CallStart(c) ==
    /\ At(c, "idle") /\ Unlocked
    /\ Goto(c, IF assembly.ok THEN "assembled" ELSE "building")
    /\ UNCHANGED <<app, profile, built, life, trouble>>

Mount(c) ==
    /\ At(c, "building") /\ mounted < Len(app)
    /\ Installable(mounted + 1)
    /\ values' = values \o Registered(app, mounted + 1)
    /\ mounted' = mounted + 1
    /\ UNCHANGED <<app, profile, assembly, life, caller, trouble>>

\* Install refuses a module; a later Build goes on with the same module.
MountRefused(c) ==
    /\ At(c, "building") /\ mounted < Len(app)
    /\ ~Installable(mounted + 1)
    /\ Goto(c, "failed")
    /\ UNCHANGED <<app, profile, built, life, trouble>>

Assemble(c) ==
    /\ At(c, "building") /\ mounted = Len(app)
    /\ Buildable
    /\ assembly' = [ok |-> TRUE, values |-> Selection, order |-> StartOrder]
    /\ Goto(c, "assembled")
    /\ UNCHANGED <<app, profile, mounted, values, life, trouble>>

BuildRefused(c) ==
    /\ At(c, "building") /\ mounted = Len(app)
    /\ ~Buildable
    /\ Goto(c, "failed")
    /\ UNCHANGED <<app, profile, built, life, trouble>>

\* A Register or a constructor fails; what was mounted before stays mounted.
BuildFails(c) ==
    /\ At(c, "building") /\ Spend
    /\ Goto(c, "failed")
    /\ UNCHANGED <<app, profile, built, life>>
-----------------------------------------------------------------------------
(* Assembly.Start.                                                         *)

\* One attempt for every Assembly.
MayAttempt == ~attempted

Attempt(c) ==
    /\ At(c, "assembled")
    /\ IF MayAttempt
       THEN /\ attempted' = TRUE
            /\ caller' = [caller EXCEPT ![c] = [pc |-> "starting", at |-> 1, answer |-> {}]]
       ELSE Goto(c, "failed") /\ UNCHANGED attempted
    /\ UNCHANGED <<app, profile, built, up, stopped, errors, runtime, trouble>>

StartModule(c) ==
    /\ At(c, "starting") /\ caller[c].at <= Len(assembly.order)
    /\ up' = up \cup {assembly.order[caller[c].at]}
    /\ caller' = [caller EXCEPT ![c].at = @ + 1]
    /\ UNCHANGED <<app, profile, built, attempted, stopped, errors, runtime, trouble>>

Started(c) ==
    /\ At(c, "starting") /\ caller[c].at > Len(assembly.order)
    /\ runtime' = "active"
    /\ Goto(c, "started")
    /\ UNCHANGED <<app, profile, built, attempted, up, stopped, errors, trouble>>

\* A module's Start fails, or the context is canceled before it: the ones
\* before it are rolled back, from the last.
StartFails(c) ==
    /\ At(c, "starting") /\ caller[c].at <= Len(assembly.order) /\ Spend
    /\ errors' = {assembly.order[caller[c].at]}
    /\ caller' = [caller EXCEPT ![c].pc = "rollback", ![c].at = @ - 1]
    /\ UNCHANGED <<app, profile, built, attempted, up, stopped, runtime>>
-----------------------------------------------------------------------------
(* rollbackStart and Runtime.Stop, which holds the Runtime's mutex.        *)

\* A module that does not stop ends the unwinding.
AfterErrorGivesUp(at) == 0

\* A module that does not stop does not keep the others from being stopped.
AfterError(at) == at - 1

Unwinding(c) == caller[c].pc \in {"rollback", "stopping"} /\ caller[c].at > 0

StopModule(c) ==
    LET m == assembly.order[caller[c].at] IN
    /\ Unwinding(c)
    /\ stopped' = Append(stopped, m)
    /\ up' = up \ {m}
    /\ caller' = [caller EXCEPT ![c].at = @ - 1]
    /\ UNCHANGED <<app, profile, built, attempted, errors, runtime, trouble>>

StopModuleFails(c) ==
    LET m == assembly.order[caller[c].at] IN
    /\ Unwinding(c) /\ Spend
    /\ stopped' = Append(stopped, m)
    /\ errors' = errors \cup {m}
    /\ caller' = [caller EXCEPT ![c].at = AfterError(@)]
    /\ UNCHANGED <<app, profile, built, attempted, up, runtime>>

RolledBack(c) ==
    /\ At(c, "rollback") /\ caller[c].at = 0
    /\ caller' = [caller EXCEPT ![c] = [pc |-> "failed", at |-> 0, answer |-> errors]]
    /\ UNCHANGED <<app, profile, built, life, trouble>>

\* Lifecycle code runs in the first call only.
StopFirst == runtime = "active"

StopLocked == \E c \in Callers : At(c, "stopping")

\* Whoever has the Runtime may stop it.
CallStop(c) ==
    /\ runtime # "none"
    /\ caller[c].pc \in {"started", "failed"}
    /\ Goto(c, "stop")
    /\ UNCHANGED <<app, profile, built, life, trouble>>

LockStop(c) ==
    /\ At(c, "stop") /\ ~StopLocked
    /\ IF StopFirst
       THEN /\ runtime' = "stopped"
            /\ caller' = [caller EXCEPT ![c] =
                            [pc |-> "stopping", at |-> Len(assembly.order), answer |-> {}]]
       ELSE /\ caller' = [caller EXCEPT ![c] = [pc |-> "stopped", at |-> 0, answer |-> errors]]
            /\ UNCHANGED runtime
    /\ UNCHANGED <<app, profile, built, attempted, up, stopped, errors, trouble>>

Stopped(c) ==
    /\ At(c, "stopping") /\ caller[c].at = 0
    /\ caller' = [caller EXCEPT ![c] = [pc |-> "stopped", at |-> 0, answer |-> errors]]
    /\ UNCHANGED <<app, profile, built, life, trouble>>
-----------------------------------------------------------------------------
Build(c) == Mount(c) \/ MountRefused(c) \/ Assemble(c) \/ BuildRefused(c)
Start(c) == Attempt(c) \/ StartModule(c) \/ Started(c)
Unwind(c) == LockStop(c) \/ StopModule(c) \/ RolledBack(c) \/ Stopped(c)
Fail(c) == BuildFails(c) \/ StartFails(c) \/ StopModuleFails(c)

Next ==
    \E c \in Callers : CallStart(c) \/ CallStop(c) \/ Build(c) \/ Start(c) \/ Unwind(c) \/ Fail(c)

Spec == Init /\ [][Next]_vars
-----------------------------------------------------------------------------
TypeOK ==
    /\ mounted \in 0..Len(app)
    /\ \A i \in DOMAIN values : values[i].owner \in 1..mounted
    /\ up \subseteq ToSet(assembly.order)
    /\ errors \subseteq Modules
    /\ \A c \in Callers : caller[c].at \in 0..Len(app) + 1
    /\ runtime \in {"none", "active", "stopped"}

(***************************************************************************)
(* An Assembly has one value in a OneSlot, one for every key and either    *)
(* the explicit entries of a chain or its defaults; nothing explicit is    *)
(* lost, and a default survives when nothing competes with it, in whatever *)
(* order the modules were mounted (apply, resolveDefaultContributions).    *)
(***************************************************************************)
SelectionExact ==
    assembly.ok =>
        LET final == ToSet(assembly.values)
            given == ToSet(values)
        IN  /\ \A i, j \in DOMAIN assembly.values :
                 LET v == assembly.values[i]
                     w == assembly.values[j]
                 IN  i # j /\ Rivals(v, w) => v.kind = "chain" /\ v.fallback = w.fallback
            /\ \A v \in given : \E w \in final : Rivals(v, w) /\ (v.fallback \/ v = w)

(***************************************************************************)
(* The order of an Assembly holds each module with a selected contribution *)
(* once, after every other module whose selected contribution it requires, *)
(* optional ones included; and a Build is refused for its order exactly    *)
(* when the requirements of those modules form a cycle (orderModules).     *)
(* The selection itself is exact too (SelectionExact).                     *)
(***************************************************************************)
OrderExact ==
    /\ TypeOK
    /\ SelectionExact
    /\ assembly.ok =>
         /\ IsInjective(assembly.order)
         /\ ToSet(assembly.order) = {v.owner : v \in ToSet(assembly.values)}
                                    \cup {m \in Modules : app[m].gives = <<>>}
         /\ \A j \in DOMAIN assembly.order :
              \A r \in app[assembly.order[j]].needs : \A v \in ToSet(assembly.values) :
                v.slot = r.slot /\ (r.key # NoKey => v.key = r.key) =>
                  \E i \in 1..j : assembly.order[i] = v.owner
    /\ (mounted = Len(app) /\ ~assembly.ok) =>
         LET vs == Selection
             active == Active(app, vs)
             depends == [m, p \in Modules |-> m \in active /\ p \in Providers(app, vs, m)]
             reach == TransitiveClosure(depends, Modules)
         IN  (ToSet(StartOrder) = active) = (\A m \in Modules : ~reach[m, m])

(***************************************************************************)
(* A module is up only while the modules it depends on are, at every       *)
(* moment of a start, a rollback and a stop, unless its own Stop failed;   *)
(* no module is stopped twice.  When a failed Start or a Stop has          *)
(* answered, Stop was called on every module that had started, a module    *)
(* that is still up is named in the error, and every caller of Stop gets   *)
(* the answer of the first (Assembly.Start, rollbackStart, Stop).          *)
(***************************************************************************)
NothingLeaks ==
    /\ \A m \in up \ ToSet(stopped) :
         Providers(app, assembly.values, m) \subseteq up \ ToSet(stopped)
    /\ IsInjective(stopped)
    /\ \A c \in Callers :
         (At(c, "stopped") \/ caller[c].answer # {}) =>
            /\ up \subseteq errors
            /\ caller[c].answer = errors
            /\ up \subseteq ToSet(stopped)
=============================================================================
