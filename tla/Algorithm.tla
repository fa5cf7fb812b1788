------------------------------ MODULE Algorithm ------------------------------
(***************************************************************************)
(* How the versions of a job's inputs are chosen (db/algorithm): a search  *)
(* with backtracking over the versions an input may have, newest first,    *)
(* that keeps the inputs with a common passed job to common builds of it;  *)
(* and what the search is to find.                                         *)
(*                                                                         *)
(* A versions database is a record of three sets:                          *)
(*   versions  [id, res, order]             ResourceVersions               *)
(*   outputs   [id, res, order, build, job] BuildOutputs                   *)
(*   inputs    [id, res, build, job, name]  BuildInputs                    *)
(* and an input's configuration is [name, res, job, passed, every, pinned], *)
(* where pinned is 0 for no version.                                       *)
(***************************************************************************)
EXTENDS Naturals, Sequences, FiniteSets

(* A mapping is a set of [name, id]; a job without inputs is not modelled. *)
NoMapping == {}

(* A candidate is [id, order, passed]: passed are the [job, build] of the  *)
(* jobs that the input names.                                              *)
AllVersionsOfResource(db, r) ==
  {[id |-> v.id, order |-> v.order, passed |-> {}] : v \in {u \in db.versions : u.res = r}}

FindVersionOfResource(db, r, id) == {v \in AllVersionsOfResource(db, r) : v.id = id}

Newest(vs) == {v \in vs : \A u \in vs : u.order <= v.order}

LatestVersionOfResource(db, r) == Newest({v \in AllVersionsOfResource(db, r) : v.order > 0})

VersionsOfResourcePassedJobs(db, r, passed) ==
  LET here == {o \in db.outputs : o.res = r /\ o.job \in passed}
      Builds(id) == {[job |-> o.job, build |-> o.build] : o \in {p \in here : p.id = id}}
      candidates == {[id |-> o.id, order |-> o.order, passed |-> Builds(o.id)] : o \in here}
  IN  {v \in candidates : {p.job : p \in v.passed} = passed}

Candidates(db, cfg) ==
  IF cfg.passed # {} THEN VersionsOfResourcePassedJobs(db, cfg.res, cfg.passed)
  ELSE IF cfg.every THEN AllVersionsOfResource(db, cfg.res)
  ELSE IF cfg.pinned # 0 THEN FindVersionOfResource(db, cfg.res, cfg.pinned)
  ELSE LatestVersionOfResource(db, cfg.res)

-----------------------------------------------------------------------------
(* Reduce works on inputs [at, cfg, vs, cons, used]: the place among the   *)
(* job's inputs, the candidates, the constraints they are filtered by when *)
(* they are iterated over, and the versions that builds of the job had.    *)
ExistingVersions(db, cfg) ==
  {i.id : i \in {b \in db.inputs : b.job = cfg.job /\ b.res = cfg.res}}

InputCandidates(db, cfg, i) ==
  [at |-> i, cfg |-> cfg, vs |-> Candidates(db, cfg), cons |-> {}, used |-> ExistingVersions(db, cfg)]

Through(v, j) == {p.build : p \in {q \in v.passed : q.job = j}}

PassedAny(v, j, builds) == Through(v, j) = {} \/ Through(v, j) \cap builds # {}

VersionIDs(c) == {v \in c.vs : \A k \in c.cons : PassedAny(v, k.job, k.builds)}

BuildIDs(c, j) == UNION {Through(v, j) : v \in c.vs}

(* Mutant: the builds of any input, not of all.                            *)
AnyBuildIDs(cs, j) == UNION {BuildIDs(c, j) : c \in cs}
CommonBuildIDs(cs, j) ==
  LET some == {BuildIDs(c, j) : c \in cs} \ {{}}
  IN  {b \in UNION some : \A builds \in some : b \in builds}

PruneToCommonBuilds(cs, jobs) ==
  LET cons == {[job |-> j, builds |-> CommonBuildIDs(cs, j)] : j \in jobs}
  IN  {[c EXCEPT !.cons = @ \cup cons] : c \in cs}

(* ForVersion: the constraints go too.                                     *)
Pin(c, id) == [c EXCEPT !.vs = {v \in @ : v.id = id}, !.cons = {}]

UsingEveryVersion(c) == c.cfg.every /\ c.used # {}

(* The version peeked at is the newest of the older ones.                  *)
IsNext(c, v) ==
  LET older == Newest({u \in VersionIDs(c) : u.order < v.order})
  IN  UsingEveryVersion(c) => v.id \in c.used \/ older = {} \/ \E u \in older : u.id \in c.used

Resolved(cs) ==
  IF \E c \in cs : VersionIDs(c) = {} THEN NoMapping
  ELSE {[name |-> c.cfg.name, id |-> (CHOOSE v \in Newest(VersionIDs(c)) : TRUE).id] : c \in cs}

(* Inputs with one candidate are skipped, pinned ones pinned, and the      *)
(* versions of the first other one are tried in turn, newest first.        *)
RECURSIVE Reduce(_, _)
Reduce(cs, jobs) ==
  LET pruned == PruneToCommonBuilds(cs, jobs)
      open == {c \in pruned : Cardinality(c.vs) # 1}
      free == {c \in open : c.cfg.pinned = 0}
      first == {c \in free : \A d \in free : c.at <= d.at}
      now == {IF c \in open \ free /\ \A f \in first : c.at < f.at
              THEN Pin(c, c.cfg.pinned) ELSE c : c \in pruned \ first}
      found == {t \in UNION {{[v |-> v, order |-> v.order, m |-> Reduce(now \cup {Pin(c, v.id)}, jobs),
                               isNext |-> IsNext(c, v)] : v \in VersionIDs(c)} : c \in first} :
                  t.m # NoMapping /\ t.isNext}
  IN  IF free = {} THEN Resolved(now)
      ELSE IF found = {} THEN NoMapping
      ELSE (CHOOSE t \in Newest(found) : TRUE).m

(* InputConfigs.Resolve                                                    *)
Resolve(db, cfgs) ==
  LET cs == {InputCandidates(db, cfgs[i], i) : i \in DOMAIN cfgs}
  IN  IF \E c \in cs : c.vs = {} THEN NoMapping
      ELSE Reduce(cs, UNION {c.cfg.passed : c \in cs})

-----------------------------------------------------------------------------
(* What is to be found. Each input by itself may have certain versions...  *)
Allowed(db, cfg) ==
  LET ids == IF cfg.passed = {}
             THEN {v.id : v \in {u \in db.versions :
                     /\ u.res = cfg.res
                     /\ cfg.pinned = 0 /\ ~cfg.every =>
                          \A w \in db.versions : w.res = cfg.res => w.order <= u.order}}
             ELSE {id \in {o.id : o \in db.outputs} :
                     \A j \in cfg.passed : \E o \in db.outputs : o.id = id /\ o.res = cfg.res /\ o.job = j}
  IN  {id \in ids : cfg.pinned # 0 => id = cfg.pinned}

(* ...and of the combinations, those are right in which, for every job,    *)
(* the inputs that passed it passed one build of it together.              *)
Together(db, cfgs, m) ==
  \A j \in UNION {cfgs[i].passed : i \in DOMAIN cfgs} :
    \E b \in {o.build : o \in {p \in db.outputs : p.job = j}} :
      \A i \in DOMAIN cfgs : j \in cfgs[i].passed =>
        \E o \in db.outputs : o.build = b /\ o.job = j /\ o.id = m[i]

RightChoices(db, cfgs) ==
  LET ids == UNION {Allowed(db, cfgs[i]) : i \in DOMAIN cfgs}
  IN  {m \in [DOMAIN cfgs -> ids] :
         /\ \A i \in DOMAIN cfgs : m[i] \in Allowed(db, cfgs[i])
         /\ Together(db, cfgs, m)}
=============================================================================
