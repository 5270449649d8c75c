---------------------------- MODULE PluginRuntime ----------------------------
(***************************************************************************)
(* The plugin runtime (src/src/prt/runtime.py): the registry and its       *)
(* version history, admission of discovered declarations, the evidence     *)
(* journal and the health fold over it, load states, late binding against  *)
(* a health snapshot, and the drain of the consumed topics.                *)
(*                                                                         *)
(* The runtime is single-threaded: one action is one call.  What races is  *)
(* the world: messages wait on their topics while bindings, admissions and *)
(* operator acts go on, and storage may refuse any write.                  *)
(***************************************************************************)
EXTENDS PluginRegistry

CONSTANTS
  Providers, Capabilities,  \* ids the messages and calls may name
  Declarations,             \* what the discovery sources may yield
  Mutations,                \* other mutations callers may hand to Registry.apply
  Messages,                 \* what peers may publish, <<topic, message>>
  AdminActs,                \* what the operator may do, <<provider, kind>>
  AdminBarred,              \* config: providers barred by the operator
  Preferences,              \* declared preference orders
  Rank,                     \* the order of ids
  DegradeAfter, QuarantineAfter, RecoverAfter,   \* the health thresholds
  LoadRequests,             \* load transitions that may be requested, <<provider, state>>
  MaxWork, MaxBinds         \* bounds: versions, messages and operator acts; snapshots

ASSUME ThresholdsPositive == {DegradeAfter, QuarantineAfter, RecoverAfter} \subseteq Nat \ {0}

VARIABLES
  hist,        \* Registry._history: the registry after each version
  journal,     \* EvidenceJournal, per provider
  cache,       \* HealthManager._cache: the carry of each provider
  folded,      \* HealthManager._folded
  announced,   \* the last plugin.health.changed of each provider
  load,        \* LoadStateTracker._states
  overrides,   \* LifecycleLegality._overrides
  artifacts,   \* health snapshots in storage
  contracts,   \* binding contracts handed out
  queue,       \* pending messages of each consumed topic
  sent         \* history: every message put on a consumed topic

vars == <<hist, journal, cache, folded, announced, load, overrides, artifacts,
          contracts, queue, sent>>

\* The consumed topics, in the order they are drained.
Consumed == <<"plugin.lifecycle.changed", "reliability.updated",
              "exec.failed", "exec.timeout", "exec.completed">>
Topics == Range(Consumed)

Evidence == {"exec.failed", "exec.timeout", "exec.completed"}

Registry == Last(hist)

Version == Len(hist) - 1

---------------------------------------------------------------------------
(* Health: a fold over a provider's evidence. *)

InitialCarry == [state |-> "HEALTHY", cf |-> 0, cs |-> 0, disabled |-> FALSE, reliability |-> 5]

Effective(carry) == IF carry.disabled THEN "UNAVAILABLE" ELSE carry.state

HealthTransitions ==
  {<<"HEALTHY", "DEGRADED">>, <<"HEALTHY", "QUARANTINED">>, <<"DEGRADED", "QUARANTINED">>,
   <<"DEGRADED", "HEALTHY">>, <<"QUARANTINED", "RECOVERING">>, <<"RECOVERING", "QUARANTINED">>,
   <<"RECOVERING", "RECOVERED">>, <<"RECOVERED", "QUARANTINED">>, <<"RECOVERED", "DEGRADED">>,
   <<"RECOVERED", "HEALTHY">>}

LoadTransitions ==
  {<<"NOT_LOADED", "LOADING">>, <<"LOADING", "PREPARED">>, <<"PREPARED", "LOADED">>,
   <<"LOADED", "RELEASED">>, <<"RELEASED", "LOADING">>, <<"UNAVAILABLE", "NOT_LOADED">>}
  \cup {<<s, "UNAVAILABLE">> : s \in {"NOT_LOADED", "LOADING", "PREPARED", "LOADED", "RELEASED"}}

Legalized(table, over, p, from, to) == <<p, from, to>> \in over \/ <<from, to>> \in table

\* Mutant: the counters outlive a forced quarantine.
AdminStepCounting(carry, kind) ==
  CASE kind = "disable"          -> [carry EXCEPT !.disabled = TRUE]
    [] kind = "enable"           -> [carry EXCEPT !.disabled = FALSE]
    [] kind = "force_quarantine" -> [carry EXCEPT !.state = "QUARANTINED"]
    [] kind = "force_release"    -> [carry EXCEPT !.state = "HEALTHY"]

\* An operator's act is not subject to the legality of transitions.
AdminStep(carry, kind) ==
  CASE kind = "disable"          -> [carry EXCEPT !.disabled = TRUE]
    [] kind = "enable"           -> [carry EXCEPT !.disabled = FALSE]
    [] kind = "force_quarantine" -> [carry EXCEPT !.state = "QUARANTINED", !.cf = 0, !.cs = 0]
    [] kind = "force_release"    -> [carry EXCEPT !.state = "HEALTHY", !.cf = 0, !.cs = 0]

\* The state a failure asks for, with cf failures in a row.
AfterFailure(state, cf) ==
  IF state = "RECOVERING" \/ cf >= QuarantineAfter THEN "QUARANTINED"
  ELSE IF state = "RECOVERED" \/ (state = "HEALTHY" /\ cf >= DegradeAfter) THEN "DEGRADED"
  ELSE state

\* The state a success asks for, with cs successes in a row.
AfterSuccess(state, cs) ==
  CASE state = "QUARANTINED"                      -> "RECOVERING"
    [] state = "RECOVERING" /\ cs >= RecoverAfter -> "RECOVERED"
    [] state \in {"RECOVERED", "DEGRADED"}        -> "HEALTHY"
    [] OTHER                                      -> state

\* Evidence moves the counters; the transition it asks for must be legal.
LiveStep(carry, kind, over, p) ==
  LET cf == IF kind = "exec.completed" THEN 0 ELSE carry.cf + 1
      cs == IF kind = "exec.completed" THEN carry.cs + 1 ELSE 0
      to == IF kind = "exec.completed" THEN AfterSuccess(carry.state, cs)
            ELSE AfterFailure(carry.state, cf)
  IN  [carry EXCEPT !.cf = cf, !.cs = cs,
                    !.state = IF to # @ /\ Legalized(HealthTransitions, over, p, @, to) THEN to ELSE @]

HealthStep(carry, e, over, p) ==
  CASE e.type = "priors" -> [carry EXCEPT !.reliability = e.prior]
    [] e.type = "admin"  -> AdminStep(carry, e.kind)
    [] e.type = "live"   -> LiveStep(carry, e.kind, over, p)

Fold(carry, entries, over, p) ==
  FoldLeft(LAMBDA c, e : HealthStep(c, e, over, p), carry, entries)

\* The entries of p not folded yet, folded: the carry, and the state the last
\* plugin.health.changed message announces.
Synced(p, jn, over) ==
  FoldLeft(LAMBDA a, e : LET c == HealthStep(a.carry, e, over, p)
                         IN  [carry |-> c, said |-> IF Effective(c) # Effective(a.carry)
                                                    THEN Effective(c) ELSE a.said],
           [carry |-> cache[p], said |-> announced[p]], SubSeq(jn[p], folded[p] + 1, Len(jn[p])))

\* Sync the providers in S over the journal jn.
Sync(S, jn, over) ==
  /\ cache' = [p \in Providers |-> IF p \in S THEN Synced(p, jn, over).carry ELSE cache[p]]
  /\ announced' = [p \in Providers |-> IF p \in S THEN Synced(p, jn, over).said ELSE announced[p]]
  /\ folded' = [p \in Providers |-> IF p \in S THEN Len(jn[p]) ELSE folded[p]]

\* The frozen snapshot of the providers in S.
Snapshot(S) ==
  [p \in S |-> LET c == Synced(p, journal, overrides).carry
               IN  [avail |-> IF Effective(c) \in {"HEALTHY", "DEGRADED", "RECOVERED"}
                              THEN "available" ELSE "unavailable",
                    reliability |-> c.reliability]]

---------------------------------------------------------------------------
Init ==
  /\ hist = <<EmptyRegistry>>
  /\ journal = [p \in Providers |-> <<>>]
  /\ cache = [p \in Providers |-> InitialCarry]
  /\ folded = [p \in Providers |-> 0]
  /\ announced = [p \in Providers |-> "HEALTHY"]
  /\ load = [p \in Providers |-> "NOT_LOADED"]
  /\ overrides = {}
  /\ artifacts = {}
  /\ contracts = {}
  /\ queue = [t \in Topics |-> <<>>]
  /\ sent = [t \in Topics |-> <<>>]

\* How much has happened: what MaxWork bounds.
Admins(p) == Len(SelectSeq(journal[p], LAMBDA e : e.type = "admin"))
Work == Version + MapThenSumSet(LAMBDA t : Len(sent[t]), Topics)
                + MapThenSumSet(Admins, Providers)

healthVars == <<journal, cache, folded, announced>>
busVars == <<queue, sent>>

\* Registry.apply: the candidate state is committed under the next version.
Apply(m) ==
  /\ Work < MaxWork
  /\ Candidate(Registry, <<m>>).ok
  /\ hist' = Append(hist, Candidate(Registry, <<m>>).reg)
  /\ UNCHANGED <<healthVars, load, overrides, artifacts, contracts, busVars>>

\* One declaration through the pipeline: its candidacy ends rejected at the
\* first failing stage, validated when storage refuses the bundle, or admitted.
Candidacy(r, d, refused) ==
  LET failing == Refusals(r, d)
  IN  IF failing # <<>> THEN [state |-> "REJECTED", stage |-> failing[1][1]]
      ELSE [state |-> IF refused THEN "VALIDATED" ELSE "ADMITTED"]

\* admit: the bundle is persisted, then committed as one version.
Admit(h, d, refused) ==
  IF Candidacy(Last(h), d, refused).state = "ADMITTED"
  THEN Append(h, Candidate(Last(h), Bundle(d)).reg) ELSE h

\* discover_and_admit: every declaration found, in the order of content hashes.
DiscoverAndAdmit(batch, refused) ==
  LET ordered == SetToSortSeq(batch, LAMBDA a, b : a.hash < b.hash)
  IN  /\ hist' = FoldLeft(LAMBDA h, d : Admit(h, d, d \in refused), hist, ordered)
      /\ Work + Len(hist') - Len(hist) <= MaxWork
      /\ UNCHANGED <<healthVars, load, overrides, artifacts, contracts, busVars>>

\* bind: one health snapshot of the bound providers, persisted under its hash
\* before the resolution reads it.
Bind(c) ==
  LET S    == BoundProviders(Registry, c)
      snap == Snapshot(S)
      res  == ResolveBinding(Registry, Version, c, snap,
                [barred |-> AdminBarred, load |-> load, prefs |-> Preferences, rank |-> Rank])
  IN  /\ Cardinality(artifacts \cup {snap}) <= MaxBinds
      /\ Sync(S, journal, overrides)
      /\ artifacts' = artifacts \cup {snap}
      /\ contracts' = IF res.bound THEN contracts \cup {res} ELSE contracts
      /\ UNCHANGED <<hist, journal, load, overrides, busVars>>

\* Storage refuses the snapshot: bind raises, and hands out nothing.
BindRefused(c) ==
  LET S == BoundProviders(Registry, c)
  IN  /\ Snapshot(S) \notin artifacts
      /\ Sync(S, journal, overrides)
      /\ UNCHANGED <<hist, journal, load, overrides, artifacts, contracts, busVars>>

\* An operator's act is journalled and folded at once.
Administer(p, kind) ==
  LET jn == [journal EXCEPT ![p] = Append(@, [type |-> "admin", kind |-> kind])]
  IN  /\ Work < MaxWork
      /\ journal' = jn
      /\ Sync({p}, jn, overrides)
      /\ UNCHANGED <<hist, load, overrides, artifacts, contracts, busVars>>

RequestTransition(p, to) ==
  /\ <<load[p], to>> \in LoadTransitions
  /\ Legalized(LoadTransitions, overrides, p, load[p], to)
  /\ load' = [load EXCEPT ![p] = to]
  /\ UNCHANGED <<hist, healthVars, overrides, artifacts, contracts, busVars>>

\* A peer publishes on a topic the runtime consumes.
Publish(t, msg) ==
  /\ Work < MaxWork
  /\ queue' = [queue EXCEPT ![t] = Append(@, msg)]
  /\ sent' = [sent EXCEPT ![t] = Append(@, msg)]
  /\ UNCHANGED <<hist, healthVars, load, overrides, artifacts, contracts>>

---------------------------------------------------------------------------
(* The drain.  A message is handled on the state [hist, over, journal,     *)
(* touched]; a refused lifecycle decision raises, and ends the drain.      *)

IsOverride(msg) == msg.shape = "operational"

HandleLifecycle(s, msg) ==
  IF IsOverride(msg) THEN [s EXCEPT !.over = @ \cup {<<msg.subject, msg.from, msg.to>>}]
  ELSE LET m == [kind |-> "lifecycle_transition", entity |-> msg.entity, id |-> msg.id, to |-> msg.to]
           next == Candidate(Last(s.hist), <<m>>)
       IN  IF next.ok THEN [s EXCEPT !.hist = Append(@, next.reg)] ELSE [s EXCEPT !.raised = TRUE]

HandleReliability(s, msg) ==
  [s EXCEPT !.journal[msg.provider] = Append(@, [type |-> "priors", prior |-> msg.prior])]

\* An outcome is journalled and the provider's health brought up to date.
HandleOutcome(s, t, msg) ==
  [s EXCEPT !.journal[msg.provider] = Append(@, [type |-> "live", kind |-> t]),
            !.touched = @ \cup {msg.provider}]

HandleEvent(s, t, msg) ==
  CASE s.raised                          -> s
    [] ~s.raised /\ t = Consumed[1]      -> HandleLifecycle(s, msg)
    [] ~s.raised /\ t = Consumed[2]      -> HandleReliability(s, msg)
    [] ~s.raised /\ t \in Evidence       -> HandleOutcome(s, t, msg)

\* Mutant: every topic is emptied up front.
DrainTopicEager(s, t) ==
  IF s.raised THEN [s EXCEPT !.queue[t] = <<>>]
  ELSE [FoldLeft(LAMBDA a, msg : HandleEvent(a, t, msg), s, s.queue[t]) EXCEPT !.queue[t] = <<>>]

\* drain_and_handle empties a topic before it handles what it held, and goes
\* on to the next only when nothing raised.
DrainTopic(s, t) ==
  IF s.raised THEN s
  ELSE [FoldLeft(LAMBDA a, msg : HandleEvent(a, t, msg), s, s.queue[t]) EXCEPT !.queue[t] = <<>>]

DrainAndHandle ==
  LET start == [hist |-> hist, over |-> overrides, journal |-> journal, touched |-> {},
                queue |-> queue, raised |-> FALSE]
      end == FoldLeft(DrainTopic, start, Consumed)
  IN  /\ \E t \in Topics : queue[t] # <<>>
      /\ hist' = end.hist
      /\ overrides' = end.over
      /\ journal' = end.journal
      /\ Sync(end.touched, end.journal, end.over)
      /\ queue' = end.queue
      /\ UNCHANGED <<load, artifacts, contracts, sent>>

Next ==
  \/ \E m \in Mutations : Apply(m)
  \/ \E batch \in SUBSET Declarations \ {{}} : \E refused \in SUBSET batch :
       DiscoverAndAdmit(batch, refused)
  \/ \E c \in Capabilities : Bind(c) \/ BindRefused(c)
  \/ \E act \in AdminActs : Administer(act[1], act[2])
  \/ \E req \in LoadRequests : RequestTransition(req[1], req[2])
  \/ \E pub \in Messages : Publish(pub[1], pub[2])
  \/ DrainAndHandle

Spec == Init /\ [][Next]_vars

---------------------------------------------------------------------------
(* Properties. *)

(* Every version of the registry is coherent: bindings join a capability   *)
(* and a provider it holds, an alias names a capability that is not        *)
(* retired and is never itself an entry; and every version follows         *)
(* lawfully from the one before: no record is dropped, a retired one is    *)
(* never touched, and a provider retires together with its bindings        *)
(* (registry.py apply, through admission, lifecycle events and direct      *)
(* mutations).                                                             *)
RegistrySound ==
  \A v \in DOMAIN hist :
    LET r   == hist[v]
        old == IF v = 1 THEN EmptyRegistry ELSE hist[v - 1]
        Kept(f, g) == \A x \in DOMAIN f : /\ x \in DOMAIN g
                                          /\ f[x].lifecycle = "retired" => g[x] = f[x]
    IN  /\ \A b \in DOMAIN r.binds : b[1] \in DOMAIN r.caps /\ b[2] \in DOMAIN r.provs
        /\ \A a \in DOMAIN r.aliases : /\ r.aliases[a] \in DOMAIN r.caps
                                       /\ r.caps[r.aliases[a]].lifecycle # "retired"
                                       /\ a \in DOMAIN r.caps => r.aliases[a] = a
        /\ Kept(old.caps, r.caps)
        /\ Kept(old.provs, r.provs)
        /\ \A b \in DOMAIN r.binds \cap DOMAIN old.binds :
             r.provs[b[2]].lifecycle = "retired" => old.provs[b[2]].lifecycle = "retired"

(* A binding contract can be replayed at any later time: the registry at   *)
(* the version it cites and the persisted health snapshot give the same    *)
(* contract again, whatever retirements, updates, failures or load steps   *)
(* came after it (runtime.py replay_bind's assertion).                     *)
ReplayReproduces ==
  \A k \in contracts :
    /\ k.snap \in artifacts
    /\ k.version <= Version
    /\ ResolveBinding(hist[k.version + 1], k.version, k.capability, k.snap,
         [barred |-> AdminBarred, load |-> load, prefs |-> Preferences, rank |-> Rank]) = k

\* The health of p after its first n entries.
HealthAfter(p, n) == Fold(InitialCarry, SubSeq(journal[p], 1, n), overrides, p).state

(* Recovery is earned: a provider that was quarantined at some point of    *)
(* its history and may be bound again now was released by an operator, or  *)
(* completed RecoverAfter executions in a row, after that point (health.py *)
(* _step: a failure during recovery goes back to quarantine).              *)
EarnedRecovery ==
  \A p \in Providers : \A i \in 1..folded[p] :
    (HealthAfter(p, i) = "QUARANTINED" /\ cache[p].state \in {"HEALTHY", "DEGRADED", "RECOVERED"})
      => LET since == SubSeq(journal[p], i + 1, folded[p])
             live  == SelectSeq(since, LAMBDA e : e.type = "live")
         IN  \/ \E j \in DOMAIN since : since[j].type = "admin" /\ since[j].kind = "force_release"
             \/ \E j \in DOMAIN live : /\ j + RecoverAfter - 1 <= Len(live)
                                       /\ \A k \in j..(j + RecoverAfter - 1) : live[k].kind = "exec.completed"

\* The messages about p on topic t, as journal entries, in order.
AsEntries(msgs, t, p) ==
  LET own == SelectSeq(msgs, LAMBDA m : m.provider = p)
  IN  [i \in DOMAIN own |-> IF t = Consumed[2] THEN [type |-> "priors", prior |-> own[i].prior]
                            ELSE [type |-> "live", kind |-> t]]

(* No evidence is lost, doubled or reordered within its topic, not even by *)
(* a drain a refused lifecycle decision cut short: what was published      *)
(* about a provider is in its journal or still waiting, the cached health  *)
(* is the fold of the journal up to where it was folded, and the last      *)
(* plugin.health.changed announced it (runtime.py drain_and_handle,        *)
(* health.py _sync).                                                       *)
EvidenceKept ==
  \A p \in Providers :
    /\ cache[p] = Fold(InitialCarry, SubSeq(journal[p], 1, folded[p]), overrides, p)
    /\ announced[p] = Effective(cache[p])
    /\ \A t \in Topics \ {Consumed[1]} :
         LET isOf(e) == IF t = Consumed[2] THEN e.type = "priors" ELSE e.type = "live" /\ e.kind = t
         IN  AsEntries(sent[t], t, p) = SelectSeq(journal[p], isOf) \o AsEntries(queue[t], t, p)

\* The bindings of r that its handlers would still accept.
StillBindable(r) ==
  \A b \in DOMAIN r.binds : /\ r.caps[b[1]].lifecycle \in {"active", "deprecated"}
                            /\ Compatible(r.caps[b[1]].constraints, r.provs[b[2]].constraints)

(* Whenever it is persisted, the registry loads back to the very same      *)
(* content, aliases, tombstones and repeated edges included, provided that *)
(* each binding it holds would still be accepted; when a capability was    *)
(* retired or constrained under a binding, the load is refused             *)
(* (persistence.py persist_registry, load_registry).                       *)
PersistedLoads ==
  LET back == LoadRegistry(Registry, Rank)
  IN  IF StillBindable(Registry) THEN back = [ok |-> TRUE, reg |-> Registry] ELSE ~back.ok

(* What was written down is enough: contracts replay and the registry      *)
(* loads (the persistence promises of runtime.py and persistence.py).      *)
RecordsSuffice == ReplayReproduces /\ PersistedLoads
=============================================================================
